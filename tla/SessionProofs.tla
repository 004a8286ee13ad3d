--------------------------- MODULE SessionProofs ---------------------------
(***************************************************************************)
(* What is proved about Session, for any topics, any bound on references,  *)
(* on messages and on connections: messages are kept in order and without  *)
(* a gap, a call that waits is owed an answer, and a close is reported as  *)
(* clean only when there was one.                                          *)
(***************************************************************************)
EXTENDS Session, TLAPS

---------------------------------------------------------------------------
(* The calls of protocol.rs, as ProtocolProofs has them.                   *)

(* A channel record has a generation unless its topic is unknown.          *)
LEMMA RecordFacts ==
  ASSUME NEW c \in ChannelRecord
  PROVE  /\ c.join_ref \in Nat
         /\ c.state = "Absent" => c = Absent
         /\ c.state = "Absent" <=> c.join_ref = 0
         /\ \A state \in ActiveStates \cup InactiveStates :
              c.state # "Absent" => [c EXCEPT !.state = state] \in ChannelRecord
BY DEF ChannelRecord, Absent, ActiveStates, InactiveStates

(* allocate_reference and a new pending request keep the state well typed. *)
LEMMA TrackType ==
  ASSUME NEW p \in ProtocolState, NEW t \in Topics, NEW c \in ChannelRecord,
         NEW kind \in {"Join", "Leave", "Push", "Heartbeat"}
  PROVE  Track(p, kind, t, c) \in ProtocolState
BY DEF ProtocolState, PendingRecord, Track, NextRef, Pending

(* discard_channel keeps the state well typed.                             *)
LEMMA DiscardType ==
  ASSUME NEW p \in ProtocolState, NEW t \in Topics
  PROVE  Discard(p, t) \in ProtocolState
BY DEF ProtocolState, Discard, ChannelRecord

(* join and rejoin keep the state well typed.                              *)
LEMMA JoinType ==
  ASSUME NEW p \in ProtocolState, NEW t \in Topics
  PROVE  Join(p, t) \in ProtocolState /\ Rejoin(p, t) \in ProtocolState
<1>1. ASSUME NEW q \in ProtocolState
      PROVE  Join(q, t) \in ProtocolState
  <2>1. [state |-> "Joining", join_ref |-> NextRef(q)] \in ChannelRecord
    BY DEF ChannelRecord, ProtocolState, NextRef, ActiveStates
  <2> QED BY <2>1, TrackType DEF Join
<1> QED BY <1>1, DiscardType DEF Rejoin

(* The transition of one channel keeps the state well typed.               *)
LEMMA SetStateType ==
  ASSUME NEW p \in ProtocolState, NEW t,
         NEW state \in ActiveStates \cup InactiveStates
  PROVE  SetState(p, t, state) \in ProtocolState
BY RecordFacts DEF ProtocolState, SetState, ChannelState

(* reset_connection keeps the state well typed.                            *)
LEMMA ResetType ==
  ASSUME NEW p \in ProtocolState
  PROVE  ResetConnection(p) \in ProtocolState
BY RecordFacts DEF ProtocolState, ResetConnection, InactiveStates

ReceivedKinds == {"StaleMessage", "ChannelClosed", "ChannelError", "Message",
                  "UnmatchedReply", "InvalidReply", "Joined", "JoinError",
                  "Left", "Reply", "HeartbeatAck"}

(* A frame as `receive` gets it.                                           *)
IsFrame(f) ==
  /\ f.event \in {"phx_reply", "phx_close", "phx_error", "message"}
  /\ f.topic \in Topics \cup {PhoenixTopic}
  /\ f.join_ref \in Nat /\ f.ref \in Nat

(* The pending entry a matched reply resolves is one of the table.         *)
LEMMA MatchedEntry ==
  ASSUME NEW p, NEW f, Matching(p, f) # {}
  PROVE  LET e == CHOOSE e \in Matching(p, f) : TRUE
         IN  e \in p.pending /\ e.ref = f.ref
BY DEF Matching

(* `receive` returns one of its events.                                    *)
LEMMA EventKindType ==
  ASSUME NEW p \in ProtocolState, NEW f, IsFrame(f)
  PROVE  EventKind(p, f) \in ReceivedKinds
<1> DEFINE e == CHOOSE e \in Matching(p, f) : TRUE
<1>1. CASE IsStale(p, f)
  BY <1>1 DEF EventKind, ReceivedKinds
<1>2. CASE ~IsStale(p, f) /\ f.event # "phx_reply"
  BY <1>2 DEF EventKind, ReceivedKinds, IsFrame
<1>3. CASE ~IsStale(p, f) /\ f.event = "phx_reply" /\ Matching(p, f) = {}
  BY <1>3 DEF EventKind, ReceivedKinds
<1>4. CASE ~IsStale(p, f) /\ f.event = "phx_reply" /\ Matching(p, f) # {}
  <2>1. e.kind \in {"Join", "Leave", "Push", "Heartbeat"}
    BY <1>4, MatchedEntry DEF ProtocolState, PendingRecord
  <2> QED BY <1>4, <2>1 DEF EventKind, ReceivedKinds
<1> QED BY <1>1, <1>2, <1>3, <1>4

(* What an event of a reply says of the pending table.                     *)
LEMMA ReplyKinds ==
  ASSUME NEW p, NEW f,
         EventKind(p, f) \in {"Joined", "JoinError", "Left", "Reply",
                              "HeartbeatAck", "InvalidReply"}, IsFrame(f)
  PROVE  ~IsStale(p, f) /\ f.event = "phx_reply" /\ Matching(p, f) # {}
BY DEF EventKind, IsFrame

(* `receive` keeps the state well typed.                                   *)
LEMMA ReceiveType ==
  ASSUME NEW p \in ProtocolState, NEW f, IsFrame(f)
  PROVE  Receive(p, f) \in ProtocolState
<1> DEFINE kind == EventKind(p, f)
           e == CHOOSE e \in Matching(p, f) : TRUE
<1>1. kind \in ReceivedKinds
  BY EventKindType
<1>2. Take(p, f) \in ProtocolState
  BY DEF Take, ProtocolState
<1>3. CASE kind \in {"ChannelClosed", "ChannelError"}
  BY <1>3, SetStateType DEF Receive, InactiveStates
<1>4. CASE kind \in {"Joined", "JoinError"}
  BY <1>2, <1>4, SetStateType DEF Receive, InactiveStates, ActiveStates
<1>5. CASE kind = "Left"
  BY <1>2, <1>5 DEF Receive, RemoveLeft, ProtocolState, ChannelRecord
<1>6. CASE kind \in {"Reply", "HeartbeatAck", "InvalidReply"}
  BY <1>2, <1>6 DEF Receive
<1>7. CASE kind \in {"StaleMessage", "UnmatchedReply", "Message"}
  BY <1>7 DEF Receive
<1> QED BY <1>1, <1>3, <1>4, <1>5, <1>6, <1>7
     DEF ReceivedKinds

(* `receive` numbers nothing anew, and takes no pending entry but that of  *)
(* the frame's reference.                                                  *)
LEMMA ReceiveEffect ==
  ASSUME NEW p \in ProtocolState, NEW f, IsFrame(f)
  PROVE  LET q == Receive(p, f)
         IN  /\ q.next_reference = p.next_reference
             /\ \A e \in p.pending : e.ref # f.ref => e \in q.pending
             /\ \A t \in Topics :
                  \/ q.channels[t] = Absent
                  \/ q.channels[t].join_ref = p.channels[t].join_ref
<1> DEFINE kind == EventKind(p, f)
           e == CHOOSE e \in Matching(p, f) : TRUE
           Within(q) ==
             /\ q.next_reference = p.next_reference
             /\ \A g \in p.pending : g.ref # f.ref => g \in q.pending
             /\ \A t \in Topics :
                  \/ q.channels[t] = Absent
                  \/ q.channels[t].join_ref = p.channels[t].join_ref
<1>1. kind \in ReceivedKinds
  BY EventKindType
<1>2. /\ Take(p, f) \in ProtocolState /\ Within(Take(p, f))
      /\ Within(p)
  BY DEF Take, Matching, ProtocolState
<1>3. ASSUME NEW q \in ProtocolState, Within(q), NEW t,
             NEW state \in ActiveStates \cup InactiveStates
      PROVE  Within(SetState(q, t, state))
  BY <1>3 DEF SetState, ChannelState, ProtocolState, Absent
<1>4. Within(RemoveLeft(Take(p, f), e.topic, f))
  BY <1>2 DEF RemoveLeft, ProtocolState
<1>5. CASE kind \in {"ChannelClosed", "ChannelError"}
  BY <1>2, <1>3, <1>5 DEF Receive, InactiveStates
<1>6. CASE kind \in {"Joined", "JoinError"}
  BY <1>2, <1>3, <1>6 DEF Receive, InactiveStates, ActiveStates
<1>7. CASE kind \in {"Left", "Reply", "HeartbeatAck", "InvalidReply"}
  BY <1>2, <1>4, <1>7 DEF Receive
<1>8. CASE kind \in {"StaleMessage", "UnmatchedReply", "Message"}
  BY <1>2, <1>8 DEF Receive
<1> QED BY <1>1, <1>5, <1>6, <1>7, <1>8 DEF ReceivedKinds

---------------------------------------------------------------------------
(***************************************************************************)
(* The inductive invariant.  Types say more than TypeOK: what a frame, an  *)
(* event and a request are, and that only messages have numbers.           *)
(***************************************************************************)
Requests ==
  {q \in [kind : {"Join", "Push", "Leave", "Heartbeat"},
          topic : Topics \cup {PhoenixTopic}, ref : 1..MaxReference,
          join_ref : Nat] :
     /\ q.kind = "Join" => q.join_ref = q.ref
     /\ q.kind = "Heartbeat" => q.join_ref = 0}

Served ==
  {f \in [event : {"phx_reply", "phx_close", "phx_error", "message"},
          topic : Topics \cup {PhoenixTopic}, join_ref : Nat, ref : Nat,
          status : {"ok", "error", "invalid", "none"},
          number : 0..MaxMessages] :
     IF f.event = "message" THEN f.number > 0 /\ f.join_ref = 0
                            ELSE f.number = 0}

Ends == {End(how) : how \in {"gone", "forbidden", "failed"}}

Kept == {e \in ClientEvents : e.kind = "Message" <=> e.number > 0}

Receiving == stage \in {"receiving", "waiting"}

SessionTypes ==
  /\ proto \in ProtocolState
  /\ buffered \in Seq(Kept)
  /\ stage \in {"idle", "posting", "posted", "receiving", "waiting"}
  /\ call \in Requests \cup {NoCall}
  /\ stage \in {"posting", "posted"} => call # NoCall
  /\ stage = "idle" => call = NoCall
  /\ Receiving /\ call = NoCall => buffered = <<>>
  /\ reported \in {"none", "clean", "gone", "forbidden", "failed", "ended"}
  /\ seen \in 0..MaxMessages /\ lost \subseteq 1..MaxMessages

TransportTypes ==
  /\ outbox \in Seq(Served)
  /\ poll \in {"fetching", "ended"}
  /\ events \in Seq(Served \cup Ends)
  /\ open \in BOOLEAN /\ closed \in BOOLEAN

ServerTypes ==
  /\ unanswered \subseteq Requests
  /\ live \subseteq 1..MaxReference
  /\ sent \in 0..MaxMessages

Types == SessionTypes /\ TransportTypes /\ ServerTypes

(* A queue with the messages after a up to b, but those in L, in order,    *)
(* among other things.                                                     *)
Line(s, a, b, L) ==
  /\ \A i \in DOMAIN s :
       \/ s[i].number = 0
       \/ a < s[i].number /\ s[i].number <= b /\ s[i].number \notin L
  /\ \A n \in (a + 1)..b : n \in L \/ \E i \in DOMAIN s : s[i].number = n
  /\ \A i, j \in DOMAIN s :
       i < j /\ s[j].number > 0 => s[i].number < s[j].number

(* MessagesInOrder, by the queue a message is in.  What did not decode was *)
(* taken before what is still in the channel.                              *)
InLine ==
  \E a, b, c \in 0..MaxMessages :
    /\ seen <= a /\ a <= b /\ b <= c /\ c <= sent
    /\ poll = "fetching" => c = sent
    /\ lost \subseteq 1..a
    /\ Line(buffered, seen, a, lost)
    /\ Line(events, a, b, lost)
    /\ Line(outbox, b, c, lost)

(* Why the transport is closed: the application closed it, or the server   *)
(* refused a GET, which is in the channel until it is reported.            *)
RefusalQueued == \E how \in {"gone", "forbidden"} : End(how) \in ToSet(events)

Closed ==
  /\ ~open => closed
  /\ RefusalQueued => closed
  /\ reported \in {"gone", "forbidden", "clean"} => closed /\ stage = "idle"
  /\ closed /\ open => RefusalQueued \/ reported \in {"gone", "forbidden"}

(* What is on the way answers requests that were made, and what has the    *)
(* reference of the call under way answers that call: it is pending, and   *)
(* its answer is not stale.                                                *)
Replies == {f \in ToSet(events) \cup ToSet(outbox) : f.event = "phx_reply"}

AnswersCall(r) ==
  r.ref = call.ref => r.topic = call.topic /\ r.join_ref = call.join_ref

Answerable ==
  /\ \A r \in unanswered \cup Replies : r.ref <= proto.next_reference
  /\ call # NoCall =>
       /\ call.ref <= proto.next_reference
       /\ \E e \in proto.pending : e.ref = call.ref
       /\ call.topic \in Topics =>
            \/ proto.channels[call.topic] = Absent
            \/ proto.channels[call.topic].join_ref = call.join_ref
       /\ \A r \in unanswered \cup Replies : AnswersCall(r)

(* What WaitsAreOwed promises, from the moment the server has the request. *)
Owed ==
  stage \in {"posted", "receiving", "waiting"} /\ call # NoCall =>
    \/ call \in unanswered
    \/ \E f \in Replies : f.ref = call.ref
    \/ poll = "ended"
    \/ call.kind \in {"Push", "Leave"} /\ call.join_ref \notin live

IInv == Types /\ InLine /\ Closed /\ Answerable /\ Owed

---------------------------------------------------------------------------
(* Queues.  Every element has a number.                                    *)

Numbered(S) == \A x \in S : x.number \in Nat

(* A queue with one more element at its end.                               *)
LEMMA Appended ==
  ASSUME NEW S, NEW s \in Seq(S), NEW c \in S
  PROVE  Append(s, c) \in Seq(S) /\ ToSet(Append(s, c)) = ToSet(s) \cup {c}
<1> DEFINE t == Append(s, c)
<1>1. /\ t \in Seq(S) /\ Len(s) \in Nat
      /\ DOMAIN s = 1..Len(s) /\ DOMAIN t = 1..(Len(s) + 1)
      /\ t[Len(s) + 1] = c /\ \A i \in 1..Len(s) : t[i] = s[i]
  OBVIOUS
<1>2. DOMAIN t = DOMAIN s \cup {Len(s) + 1}
  BY <1>1
<1> HIDE DEF t
<1> QED BY <1>1, <1>2 DEF ToSet, t

(* A queue whose first element is taken.                                   *)
LEMMA Shifted ==
  ASSUME NEW S, NEW s \in Seq(S), s # <<>>
  PROVE  /\ Tail(s) \in Seq(S) /\ Head(s) \in S
         /\ ToSet(s) = ToSet(Tail(s)) \cup {Head(s)}
<1> DEFINE t == Tail(s)
<1>1. /\ t \in Seq(S) /\ Len(s) \in Nat \ {0} /\ Head(s) \in S
      /\ DOMAIN s = 1..Len(s) /\ DOMAIN t = 1..(Len(s) - 1)
      /\ Head(s) = s[1] /\ \A i \in 1..(Len(s) - 1) : t[i] = s[i + 1]
  OBVIOUS
<1> HIDE DEF t
<1>2. /\ 1 \in DOMAIN s
      /\ \A i \in DOMAIN s : i = 1 \/ (i - 1 \in DOMAIN t /\ t[i - 1] = s[i])
      /\ \A i \in DOMAIN t : i + 1 \in DOMAIN s /\ t[i] = s[i + 1]
  BY <1>1
<1>3. ToSet(s) = ToSet(t) \cup {Head(s)}
  BY <1>1, <1>2 DEF ToSet
<1> QED BY <1>1, <1>3 DEF t

(* One queue behind another.                                               *)
LEMMA Joined ==
  ASSUME NEW S, NEW s \in Seq(S), NEW t \in Seq(S)
  PROVE  s \o t \in Seq(S) /\ ToSet(s \o t) = ToSet(s) \cup ToSet(t)
<1> DEFINE u == s \o t
<1>1. /\ u \in Seq(S) /\ Len(s) \in Nat /\ Len(t) \in Nat
      /\ DOMAIN s = 1..Len(s) /\ DOMAIN t = 1..Len(t)
      /\ DOMAIN u = 1..(Len(s) + Len(t))
      /\ \A i \in 1..Len(s) : u[i] = s[i]
      /\ \A i \in 1..Len(t) : u[Len(s) + i] = t[i]
  OBVIOUS
<1> HIDE DEF u
<1>2. /\ \A i \in DOMAIN s : i \in DOMAIN u /\ u[i] = s[i]
      /\ \A i \in DOMAIN t : Len(s) + i \in DOMAIN u /\ u[Len(s) + i] = t[i]
      /\ \A i \in DOMAIN u : \/ i \in DOMAIN s
                             \/ i - Len(s) \in DOMAIN t /\ u[i] = t[i - Len(s)]
  BY <1>1
<1>3. ToSet(u) = ToSet(s) \cup ToSet(t)
  <2>1. ToSet(s) \subseteq ToSet(u) /\ ToSet(t) \subseteq ToSet(u)
    BY <1>2 DEF ToSet
  <2>2. ToSet(u) \subseteq ToSet(s) \cup ToSet(t)
    BY <1>2 DEF ToSet
  <2> QED BY <2>1, <2>2
<1> QED BY <1>1, <1>3 DEF u

(* An empty queue.                                                         *)
LEMMA NothingQueued ==
  ASSUME NEW S
  PROVE  <<>> \in Seq(S) /\ ToSet(<<>>) = {}
BY DEF ToSet

(* No message is in an empty queue.                                        *)
LEMMA LineOfNone ==
  ASSUME NEW a \in Nat, NEW L
  PROVE  Line(<<>>, a, a, L)
BY DEF Line

(* What is added is no message, or it is the next one.                     *)
LEMMA LineAppended ==
  ASSUME NEW L, NEW S, NEW s \in Seq(S), NEW c \in S, Numbered(S),
         NEW a \in Nat, NEW b \in Nat, a <= b, Line(s, a, b, L)
  PROVE  /\ c.number = 0 => Line(Append(s, c), a, b, L)
         /\ c.number = b + 1 /\ c.number \notin L =>
              Line(Append(s, c), a, b + 1, L)
<1> DEFINE t == Append(s, c)
<1>1. /\ t \in Seq(S) /\ Len(s) \in Nat
      /\ DOMAIN s = 1..Len(s) /\ DOMAIN t = 1..(Len(s) + 1)
      /\ t[Len(s) + 1] = c /\ \A i \in 1..Len(s) : t[i] = s[i] /\ s[i] \in S
  OBVIOUS
<1> HIDE DEF t
<1>2. /\ \A i \in DOMAIN s : i \in DOMAIN t /\ t[i] = s[i] /\ i < Len(s) + 1
                             /\ s[i].number \in Nat /\ i \in Nat
      /\ \A i \in DOMAIN t : i \in DOMAIN s \/ i = Len(s) + 1
      /\ Len(s) + 1 \in DOMAIN t /\ c.number \in Nat
  BY <1>1 DEF Numbered
<1>3. \A i, j \in DOMAIN t :
        i < j /\ t[j].number > 0 => \/ i \in DOMAIN s /\ j \in DOMAIN s
                                    \/ i \in DOMAIN s /\ j = Len(s) + 1
  BY <1>1, <1>2
<1>4. ASSUME c.number = 0
      PROVE  Line(t, a, b, L)
  BY <1>1, <1>2, <1>3, <1>4 DEF Line
<1>5. ASSUME c.number = b + 1, c.number \notin L
      PROVE  Line(t, a, b + 1, L)
  <2>1. \A i \in DOMAIN t :
          \/ t[i].number = 0
          \/ a < t[i].number /\ t[i].number <= b + 1 /\ t[i].number \notin L
    BY <1>1, <1>2, <1>5 DEF Line
  <2>2. ASSUME NEW n \in (a + 1)..(b + 1)
        PROVE  n \in L \/ \E i \in DOMAIN t : t[i].number = n
    <3>1. CASE n = b + 1
      BY <1>1, <1>2, <1>5, <3>1
    <3>2. CASE n \in (a + 1)..b
      BY <1>2, <3>2 DEF Line
    <3> QED BY <3>1, <3>2
  <2>3. \A i, j \in DOMAIN t :
          i < j /\ t[j].number > 0 => t[i].number < t[j].number
    BY <1>1, <1>2, <1>3, <1>5 DEF Line
  <2> QED BY <2>1, <2>2, <2>3 DEF Line
<1> QED BY <1>4, <1>5 DEF t

(* What is taken is no message, or it is the first one.                    *)
LEMMA LineShifted ==
  ASSUME NEW L, NEW S, NEW s \in Seq(S), s # <<>>, Numbered(S),
         NEW a \in Nat, NEW b \in Nat, a <= b, Line(s, a, b, L)
  PROVE  /\ Head(s).number = 0 => Line(Tail(s), a, b, L)
         /\ Head(s).number # 0 =>
              /\ a < Head(s).number /\ Head(s).number <= b
              /\ a + 1 \notin L => Head(s).number = a + 1
              /\ Line(Tail(s), Head(s).number, b, L)
<1> DEFINE t == Tail(s)
<1>1. /\ Len(s) \in Nat \ {0}
      /\ DOMAIN s = 1..Len(s) /\ DOMAIN t = 1..(Len(s) - 1)
      /\ Head(s) = s[1] /\ \A i \in 1..(Len(s) - 1) : t[i] = s[i + 1]
      /\ \A i \in 1..Len(s) : s[i] \in S
  OBVIOUS
<1> HIDE DEF t
<1>2. /\ 1 \in DOMAIN s
      /\ \A i \in DOMAIN s : i \in Nat /\ s[i].number \in Nat /\
           (i = 1 \/ (i > 1 /\ i - 1 \in DOMAIN t /\ t[i - 1] = s[i]))
      /\ \A i \in DOMAIN t :
           i \in Nat /\ i + 1 \in DOMAIN s /\ t[i] = s[i + 1] /\ 1 < i + 1
  BY <1>1 DEF Numbered
<1>3. \A i, j \in DOMAIN t :
        i < j /\ t[j].number > 0 => t[i].number < t[j].number
  <2> SUFFICES ASSUME NEW i \in DOMAIN t, NEW j \in DOMAIN t, i < j,
                      t[j].number > 0
               PROVE  t[i].number < t[j].number
    OBVIOUS
  <2>1. i + 1 < j + 1
    BY <1>2
  <2> QED BY <1>2, <2>1 DEF Line
<1>4. ASSUME s[1].number = 0
      PROVE  Line(t, a, b, L)
  <2>1. ASSUME NEW n \in (a + 1)..b, n \notin L
        PROVE  \E i \in DOMAIN s : s[i].number = n /\ i # 1
    <3>1. PICK i \in DOMAIN s : s[i].number = n
      BY <2>1 DEF Line
    <3>2. n # 0
      OBVIOUS
    <3> QED BY <1>4, <3>1, <3>2
  <2>2. \A n \in (a + 1)..b : n \in L \/ \E i \in DOMAIN t : t[i].number = n
    <3> SUFFICES ASSUME NEW n \in (a + 1)..b, n \notin L
                 PROVE  \E i \in DOMAIN t : t[i].number = n
      OBVIOUS
    <3>1. PICK i \in DOMAIN s : s[i].number = n /\ i # 1
      BY <2>1
    <3> QED BY <1>2, <3>1
  <2>3. \A i \in DOMAIN t :
          \/ t[i].number = 0
          \/ a < t[i].number /\ t[i].number <= b /\ t[i].number \notin L
    BY <1>2 DEF Line
  <2> QED BY <1>3, <2>2, <2>3 DEF Line
<1>5. ASSUME s[1].number # 0
      PROVE  /\ a < s[1].number /\ s[1].number <= b
             /\ a + 1 \notin L => s[1].number = a + 1
             /\ Line(t, s[1].number, b, L)
  <2>1. a < s[1].number /\ s[1].number <= b /\ s[1].number \in Nat
    BY <1>2, <1>5 DEF Line
  <2>2. \A i \in DOMAIN s :
          i # 1 /\ s[i].number > 0 => s[1].number < s[i].number
    BY <1>2 DEF Line
  <2>3. ASSUME a + 1 \notin L
        PROVE  s[1].number = a + 1
    <3>1. PICK i \in DOMAIN s : s[i].number = a + 1
      BY <2>1, <2>3 DEF Line
    <3>2. i = 1
      BY <2>1, <2>2, <3>1
    <3> QED BY <3>1, <3>2
  <2>4. \A k \in DOMAIN t :
          \/ t[k].number = 0
          \/ /\ s[1].number < t[k].number /\ t[k].number <= b
             /\ t[k].number \notin L
    BY <1>2, <2>2 DEF Line
  <2>5. ASSUME NEW n \in (s[1].number + 1)..b, n \notin L
        PROVE  \E k \in DOMAIN t : t[k].number = n
    <3>1. n \in (a + 1)..b /\ n # s[1].number
      BY <2>1
    <3>2. PICK k \in DOMAIN s : s[k].number = n
      BY <2>5, <3>1 DEF Line
    <3> QED BY <1>2, <3>1, <3>2
  <2>6. Line(t, s[1].number, b, L)
    BY <1>3, <2>4, <2>5 DEF Line
  <2> QED BY <2>1, <2>3, <2>6
<1> QED BY <1>1, <1>4, <1>5 DEF t

(* A message that is lost was the next one, or came before the queue's.    *)
LEMMA LineLost ==
  ASSUME NEW L, NEW S, NEW s \in Seq(S), Numbered(S),
         NEW a \in Nat, NEW b \in Nat, a <= b, Line(s, a, b, L)
  PROVE  /\ Line(s, a, b + 1, L \cup {b + 1})
         /\ \A n \in Nat : n <= a => Line(s, a, b, L \cup {n})
<1>1. \A i \in DOMAIN s : s[i].number \in Nat
  <2>1. \A i \in DOMAIN s : s[i] \in S
    OBVIOUS
  <2> QED BY <2>1 DEF Numbered
<1>2. \A n \in (a + 1)..(b + 1) : n = b + 1 \/ n \in (a + 1)..b
  OBVIOUS
<1>3. Line(s, a, b + 1, L \cup {b + 1})
  BY <1>1, <1>2 DEF Line
<1>4. ASSUME NEW n \in Nat, n <= a
      PROVE  Line(s, a, b, L \cup {n})
  BY <1>1, <1>4 DEF Line
<1> QED BY <1>3, <1>4

(* The messages of two queues, one behind the other.                       *)
LEMMA LineJoined ==
  ASSUME NEW S, NEW s \in Seq(S), NEW t \in Seq(S), Numbered(S),
         NEW a \in Nat, NEW b \in Nat, NEW c \in Nat, a <= b, b <= c, NEW L,
         Line(s, a, b, L), Line(t, b, c, L)
  PROVE  Line(s \o t, a, c, L)
<1> DEFINE u == s \o t
<1>1. /\ Len(s) \in Nat /\ Len(t) \in Nat
      /\ DOMAIN s = 1..Len(s) /\ DOMAIN t = 1..Len(t)
      /\ DOMAIN u = 1..(Len(s) + Len(t))
      /\ \A i \in 1..Len(s) : u[i] = s[i] /\ s[i] \in S
      /\ \A i \in 1..Len(t) : u[Len(s) + i] = t[i] /\ t[i] \in S
  OBVIOUS
<1> HIDE DEF u
<1>2. /\ \A i \in DOMAIN s : /\ i \in DOMAIN u /\ u[i] = s[i]
                             /\ i \in Nat /\ s[i].number \in Nat
      /\ \A i \in DOMAIN t : /\ Len(s) + i \in DOMAIN u /\ u[Len(s) + i] = t[i]
                             /\ i \in Nat /\ t[i].number \in Nat
      /\ \A i \in DOMAIN u :
           i \in Nat /\ (\/ i \in DOMAIN s
                         \/ /\ i - Len(s) \in DOMAIN t /\ u[i] = t[i - Len(s)]
                            /\ i > Len(s))
      /\ \A i \in DOMAIN s : i <= Len(s)
  BY <1>1 DEF Numbered
<1>3. \A i \in DOMAIN u :
        \/ u[i].number = 0
        \/ a < u[i].number /\ u[i].number <= c /\ u[i].number \notin L
  BY <1>2 DEF Line
<1>4. ASSUME NEW n \in (a + 1)..c, n \notin L
      PROVE  \E i \in DOMAIN u : u[i].number = n
  <2>1. CASE n \in (a + 1)..b
    BY <1>2, <1>4, <2>1 DEF Line
  <2>2. CASE n \in (b + 1)..c
    <3>1. PICK k \in DOMAIN t : t[k].number = n
      BY <1>4, <2>2 DEF Line
    <3> QED BY <1>2, <3>1
  <2> QED BY <2>1, <2>2
<1>5. ASSUME NEW i \in DOMAIN u, NEW j \in DOMAIN u, i < j, u[j].number > 0
      PROVE  u[i].number < u[j].number
  <2>1. CASE i \in DOMAIN s /\ j \in DOMAIN s
    BY <1>2, <1>5, <2>1 DEF Line
  <2>2. CASE i \in DOMAIN s /\ j \notin DOMAIN s
    <3>1. u[j] = t[j - Len(s)] /\ j - Len(s) \in DOMAIN t
      BY <1>2, <2>2
    <3>2. b < u[j].number
      BY <1>2, <1>5, <3>1 DEF Line
    <3>3. u[i].number <= b /\ u[i].number \in Nat
      BY <1>2, <2>2 DEF Line
    <3> QED BY <1>2, <3>1, <3>2, <3>3
  <2>3. CASE i \notin DOMAIN s
    <3>1. j \notin DOMAIN s
      BY <1>1, <1>2, <1>5, <2>3
    <3>2. /\ u[i] = t[i - Len(s)] /\ i - Len(s) \in DOMAIN t
          /\ u[j] = t[j - Len(s)] /\ j - Len(s) \in DOMAIN t
          /\ i - Len(s) < j - Len(s)
      BY <1>1, <1>2, <1>5, <2>3, <3>1
    <3> QED BY <1>5, <3>2 DEF Line
  <2> QED BY <2>1, <2>2, <2>3
<1> QED BY <1>3, <1>4, <1>5 DEF Line, u

(* The last message of a queue, or lost, is the greatest of the numbers.   *)
LEMMA LineEnd ==
  ASSUME NEW L, NEW S, NEW s \in Seq(S), Numbered(S),
         NEW a \in Nat, NEW b \in Nat, a <= b, L \subseteq 1..b,
         Line(s, a, b, L)
  PROVE  Max({a} \cup Numbers(s) \cup L) = b
<1> DEFINE N == {a} \cup Numbers(s) \cup L
<1>1. \A i \in DOMAIN s : s[i].number \in Nat
  <2>1. \A i \in DOMAIN s : s[i] \in S
    OBVIOUS
  <2> QED BY <2>1 DEF Numbered
<1>2. \A n \in N : n \in Nat /\ b >= n
  BY <1>1 DEF Line, Numbers
<1>3. b \in N
  <2>1. CASE b = a
    BY <2>1
  <2>2. CASE b # a
    <3>1. b \in (a + 1)..b /\ b # 0
      BY <2>2
    <3>2. b \in L \/ \E i \in DOMAIN s : s[i].number = b
      BY <3>1 DEF Line
    <3> QED BY <3>1, <3>2 DEF Numbers
  <2> QED BY <2>1, <2>2
<1> HIDE DEF N
<1>4. PICK m : m = Max(N) /\ m \in N /\ \A n \in N : m >= n
  BY <1>2, <1>3 DEF Max
<1>5. m \in Nat /\ b >= m /\ m >= b
  BY <1>2, <1>3, <1>4
<1>6. m = b
  BY <1>5
<1> QED BY <1>4, <1>6 DEF N

---------------------------------------------------------------------------
(* What the steps do.                                                      *)

(* The bounds are numbers.                                                 *)
LEMMA Bounds ==
  MaxReference \in Nat /\ MaxMessages \in Nat /\ MaxConnections \in Nat
BY SessionBounds

(* The server sends frames; and whatever is queued has a number.           *)
LEMMA FrameFacts ==
  /\ \A f \in Served : IsFrame(f) /\ Message(f)
                       /\ (f.event = "message" => f.number # 0 /\ f.join_ref = 0)
                       /\ (f.event # "message" => f.number = 0)
  /\ \A f \in Ends : ~Message(f) /\ f.number = 0 /\ f \notin Served
  /\ \A f \in Served \cup Ends : f.number \in 0..MaxMessages
  /\ \A e \in Kept : e.number \in 0..MaxMessages
<1>1. \A f \in Served : f.event # "end"
  BY DEF Served
<1>2. \A f \in Ends : f.event = "end" /\ f.number = 0
  BY DEF Ends, End
<1>3. \A f \in Ends : f \notin Served
  BY <1>1, <1>2
<1>4. \A f \in Served : f.number \in 0..MaxMessages
  BY DEF Served
<1>5. \A f \in Ends : f.number \in 0..MaxMessages
  BY <1>2, Bounds
<1>6. \A e \in Kept : e.number \in 0..MaxMessages
  BY DEF Kept, ClientEvents
<1>7. \A f \in Served : IsFrame(f)
  BY DEF Served, IsFrame
<1>8. \A f \in Served : /\ f.event = "message" => f.number # 0 /\ f.join_ref = 0
                        /\ f.event # "message" => f.number = 0
  BY Bounds DEF Served
<1> QED BY <1>1, <1>2, <1>3, <1>4, <1>5, <1>6, <1>7, <1>8 DEF Message

(* A request q as the protocol leaves it, in p: it has the next reference, *)
(* is pending, and its channel is in the generation it names.              *)
Asked(q, p) ==
  /\ p \in ProtocolState
  /\ q.ref = NextRef(proto) /\ p.next_reference = q.ref
  /\ q.ref <= MaxReference => q \in Requests
  /\ \E e \in p.pending : e.ref = q.ref
  /\ q.topic \in Topics => p.channels[q.topic].join_ref = q.join_ref

(* Tracking a request is what every one of them does.                      *)
LEMMA TrackAsks ==
  ASSUME NEW p \in ProtocolState, p.next_reference = proto.next_reference,
         NEW t \in Topics, NEW c \in ChannelRecord, proto \in ProtocolState,
         NEW kind \in {"Join", "Leave", "Push"},
         kind = "Join" => c.join_ref = NextRef(proto)
  PROVE  Asked(Call(kind, t, c.join_ref), Track(p, kind, t, c))
<1> DEFINE q == Call(kind, t, c.join_ref)
           r == Track(p, kind, t, c)
<1>1. r \in ProtocolState
  BY TrackType
<1>2. /\ NextRef(p) = NextRef(proto) /\ NextRef(p) \in Nat \ {0}
      /\ c.join_ref \in Nat
  BY RecordFacts DEF NextRef, ProtocolState
<1>3. /\ r.next_reference = NextRef(p)
      /\ Pending(kind, t, NextRef(p)) \in r.pending
      /\ r.channels[t] = c
  BY DEF Track, ProtocolState
<1>4. q.ref <= MaxReference => q \in Requests
  BY <1>2, Bounds DEF Call, Requests
<1>5. q.ref = NextRef(p) /\ q.topic = t /\ q.join_ref = c.join_ref
  BY <1>2 DEF Call
<1>6. Pending(kind, t, NextRef(p)).ref = NextRef(p)
  BY DEF Pending
<1> HIDE DEF q, r
<1>7. \E e \in r.pending : e.ref = q.ref
  BY <1>3, <1>5, <1>6
<1> QED BY <1>1, <1>2, <1>3, <1>4, <1>5, <1>7 DEF Asked, q, r

(* The methods that make a request.                                        *)
Calls == \/ \E t \in Topics : CallJoin(t) \/ CallPush(t) \/ CallLeave(t)
         \/ CallHeartbeat

LEMMA CallsAsk ==
  ASSUME proto \in ProtocolState, Calls
  PROVE  \E q, p : Asked(q, p) /\ Request(q, p)
<1>1. NextRef(proto) \in Nat \ {0} /\ proto.next_reference \in Nat
  BY DEF NextRef, ProtocolState
<1>2. ASSUME NEW t \in Topics, CallJoin(t)
      PROVE  \E q, p : Asked(q, p) /\ Request(q, p)
  <2> DEFINE c == [state |-> "Joining", join_ref |-> NextRef(proto)]
             q == Call("Join", t, NextRef(proto))
  <2>1. c \in ChannelRecord /\ c.join_ref = NextRef(proto)
    BY <1>1 DEF ChannelRecord, ActiveStates
  <2>2. ASSUME NEW r \in ProtocolState, r.next_reference = proto.next_reference
        PROVE  Asked(q, Join(r, t))
    <3>1. NextRef(r) = NextRef(proto)
      BY <2>2 DEF NextRef
    <3>2. Join(r, t) = Track(r, "Join", t, c)
      BY <3>1 DEF Join
    <3>3. Asked(Call("Join", t, c.join_ref), Track(r, "Join", t, c))
      BY <2>1, <2>2, TrackAsks
    <3> QED BY <2>1, <3>2, <3>3
  <2>3. /\ Discard(proto, t) \in ProtocolState
        /\ Discard(proto, t).next_reference = proto.next_reference
    BY DiscardType DEF Discard, ProtocolState
  <2>4. Asked(q, Join(proto, t)) /\ Asked(q, Rejoin(proto, t))
    BY <2>2, <2>3 DEF Rejoin
  <2>5. PICK p \in {Join(proto, t), Rejoin(proto, t)} : Request(q, p)
    BY <1>2 DEF CallJoin
  <2> QED BY <2>4, <2>5
<1>3. ASSUME NEW t \in Topics, CallPush(t)
      PROVE  \E q, p : Asked(q, p) /\ Request(q, p)
  <2>1. proto.channels[t] \in ChannelRecord
    BY DEF ProtocolState
  <2>2. Asked(Call("Push", t, proto.channels[t].join_ref), Push(proto, t))
    BY <2>1, TrackAsks DEF Push
  <2> QED BY <1>3, <2>2 DEF CallPush
<1>4. ASSUME NEW t \in Topics, CallLeave(t)
      PROVE  \E q, p : Asked(q, p) /\ Request(q, p)
  <2> DEFINE c == [proto.channels[t] EXCEPT !.state = "Leaving"]
  <2>1. proto.channels[t] \in ChannelRecord /\ proto.channels[t].state = "Joined"
    BY <1>4 DEF ProtocolState, CallLeave, CanLeave, ChannelState
  <2>2. c \in ChannelRecord
    BY <2>1, RecordFacts DEF ActiveStates
  <2>3. c.join_ref = proto.channels[t].join_ref
    BY <2>1 DEF ChannelRecord, Absent
  <2>4. Asked(Call("Leave", t, c.join_ref), Track(proto, "Leave", t, c))
    BY <2>2, TrackAsks
  <2>5. Asked(Call("Leave", t, proto.channels[t].join_ref), Leave(proto, t))
    BY <2>3, <2>4 DEF Leave
  <2> QED BY <1>4, <2>5 DEF CallLeave
<1>5. CASE CallHeartbeat
  <2> DEFINE q == Call("Heartbeat", PhoenixTopic, 0)
             r == Heartbeat(proto)
             e == Pending("Heartbeat", PhoenixTopic, NextRef(proto))
  <2>1. e \in PendingRecord /\ e.ref = NextRef(proto)
    BY <1>1 DEF Pending, PendingRecord
  <2>2. /\ r \in ProtocolState /\ r.next_reference = NextRef(proto)
        /\ e \in r.pending
    BY <1>1, <2>1 DEF Heartbeat, ProtocolState
  <2>3. /\ q.ref = NextRef(proto) /\ q.topic = PhoenixTopic
        /\ q.ref <= MaxReference => q \in Requests
    BY <1>1, Bounds DEF Call, Requests
  <2>4. Request(q, r)
    BY <1>5 DEF CallHeartbeat
  <2> HIDE DEF q, r, e
  <2>5. Asked(q, r)
    BY <2>1, <2>2, <2>3, TopicsAssumption DEF Asked
  <2> QED BY <2>4, <2>5
<1> QED BY <1>2, <1>3, <1>4, <1>5 DEF Calls

(* A method takes a frame from the channel ...                             *)
TookFrame(item) ==
  /\ Receiving
  /\ events # <<>> /\ item = Head(events) /\ item \in Served
  /\ TakeFrame(item)
  /\ UNCHANGED <<outbox, poll, open, closed, serverVars, connections>>

(* ... which does not decode ...                                           *)
TookUndecoded(item) ==
  /\ Receiving
  /\ events # <<>> /\ item = Head(events) /\ item \in Served
  /\ TakeUndecoded(item)
  /\ UNCHANGED <<outbox, poll, open, closed, serverVars, connections>>

(* ... or returns with the end of the connection ...                       *)
TookEnd(end) ==
  /\ Receiving
  /\ \/ end = End("clean") /\ closed
     \/ end = End("ended") /\ events = <<>>
     \/ end \in Ends /\ events # <<>> /\ end = Head(events)
  /\ Report(end)
  /\ UNCHANGED <<outbox, poll, open, closed, serverVars, connections>>

(* ... or waits.                                                           *)
Waited ==
  /\ Receiving /\ stage' = "waiting"
  /\ UNCHANGED <<longPollVars, proto, buffered, call, reported, seen, lost,
                 serverVars, connections>>

LEMMA ReceiveCases ==
  ASSUME Types, BeginReceive \/ ResumeReceive
  PROVE  \/ \E item : TookFrame(item) \/ TookUndecoded(item)
         \/ \E end : TookEnd(end)
         \/ Waited
<1>1. PICK item \in {Received, Available} :
        ReceiveItem(item) /\ (item = Received \/ item = Available)
  BY DEF BeginReceive, ResumeReceive
<1>2. Receiving
  BY DEF BeginReceive, ResumeReceive, Receiving
<1>3. \A how : ~Message(End(how))
  BY DEF Message, End
<1>4. \/ item = End("clean") /\ closed
      \/ item = End("ended") /\ events = <<>>
      \/ item = End("none")
      \/ events # <<>> /\ item = Head(events)
  BY <1>1 DEF Received, Available
<1>5. events # <<>> => Head(events) \in Served \cup Ends
  BY DEF Types, TransportTypes
<1>6. CASE Message(item)
  <2>1. item \in Served /\ events # <<>> /\ item = Head(events)
    BY <1>3, <1>4, <1>5, <1>6, FrameFacts
  <2>2. TakeFrame(item) \/ TakeUndecoded(item)
    BY <1>1, <1>3, <1>6 DEF ReceiveItem
  <2>3. UNCHANGED <<outbox, poll, open, closed, serverVars, connections>>
    BY <1>1 DEF ReceiveItem
  <2> QED BY <1>2, <2>1, <2>2, <2>3 DEF TookFrame, TookUndecoded
<1>7. CASE ~Message(item) /\ item # End("none")
  <2>1. Report(item)
    BY <1>1, <1>7 DEF ReceiveItem
  <2>2. UNCHANGED <<outbox, poll, open, closed, serverVars, connections>>
    BY <1>1 DEF ReceiveItem
  <2>3. \/ item = End("clean") /\ closed
        \/ item = End("ended") /\ events = <<>>
        \/ item \in Ends /\ events # <<>> /\ item = Head(events)
    BY <1>4, <1>5, <1>7, FrameFacts
  <2> QED BY <1>2, <2>1, <2>2, <2>3 DEF TookEnd
<1>8. CASE item = End("none")
  <2>1. /\ stage' = "waiting"
        /\ UNCHANGED <<proto, buffered, call, reported, events, seen, lost>>
        /\ UNCHANGED <<outbox, poll, open, closed, serverVars, connections>>
    BY <1>1, <1>3, <1>8 DEF ReceiveItem
  <2> QED BY <1>2, <2>1 DEF Waited, longPollVars
<1> QED BY <1>6, <1>7, <1>8

(* Every step is one of these.                                             *)
LEMMA Steps ==
  ASSUME Types, [Next]_vars
  PROVE  \/ \E q, p : Asked(q, p) /\ Request(q, p)
         \/ \E t \in Topics : CallFails(t)
         \/ PostArrives \/ PostSucceeds \/ PostFails \/ DropFuture
         \/ TakeBuffered \/ NextEvent
         \/ \E item : TookFrame(item) \/ TookUndecoded(item)
         \/ \E end : TookEnd(end)
         \/ Waited
         \/ Poll \/ CloseSession \/ Reconnect
         \/ ServeReply \/ ServeTermination \/ ServeMessage
         \/ UNCHANGED vars
<1>1. CASE Calls
  BY <1>1, CallsAsk DEF Types, SessionTypes
<1>2. CASE BeginReceive \/ ResumeReceive
  BY <1>2, ReceiveCases
<1> QED BY <1>1, <1>2 DEF Next, Calls

(* What a frame does: the method returns, or it goes on and the event is   *)
(* kept for next_event.                                                    *)
Kind(item) == EventKind(proto, item)

Waiting == {"Joined", "JoinError", "Left", "Reply", "HeartbeatAck"}

Returned(item) ==
  /\ Return /\ UNCHANGED buffered
  /\ seen' = IF item.number # 0 THEN item.number ELSE seen
  /\ item.number # 0 => call = NoCall

Continued(item) ==
  /\ call # NoCall
  /\ stage' = "receiving" /\ UNCHANGED <<call, seen>>
  /\ Kind(item) # "InvalidReply"
  /\ Kind(item) \in Waiting => item.ref # call.ref
  /\ \E e \in Kept : e.number = item.number /\ buffered' = Append(buffered, e)

LEMMA FrameEffect ==
  ASSUME Types, NEW item, TookFrame(item)
  PROVE  /\ proto' = Receive(proto, item) /\ proto' \in ProtocolState
         /\ events' = Tail(events) /\ UNCHANGED <<reported, lost>>
         /\ Returned(item) \/ Continued(item)
<1> DEFINE ev == [kind |-> Kind(item), ref |-> item.ref, number |-> item.number]
<1>1. item \in Served /\ IsFrame(item)
  BY FrameFacts DEF TookFrame
<1>2. Kind(item) \in ReceivedKinds
  BY <1>1, EventKindType DEF Types, SessionTypes, Kind
<1>3. /\ proto' = Receive(proto, item) /\ events' = Tail(events)
      /\ UNCHANGED <<reported, lost>>
  BY DEF TookFrame, TakeFrame
<1>4. proto' \in ProtocolState
  BY <1>1, <1>3, ReceiveType DEF Types, SessionTypes
<1>5. Kind(item) = "Message" <=> item.number # 0
  <2>1. CASE item.event = "message"
    <3>1. ~IsStale(proto, item)
      BY <1>1, <2>1, FrameFacts DEF IsStale
    <3> QED BY <1>1, <2>1, <3>1, FrameFacts DEF Kind, EventKind
  <2>2. CASE item.event # "message"
    <3>1. Kind(item) # "Message"
      <4>1. CASE IsStale(proto, item)
        BY <4>1 DEF Kind, EventKind
      <4>2. CASE ~IsStale(proto, item) /\ item.event \in {"phx_close", "phx_error"}
        BY <4>2 DEF Kind, EventKind
      <4>3. CASE ~IsStale(proto, item) /\ item.event = "phx_reply"
                 /\ Matching(proto, item) = {}
        BY <4>3 DEF Kind, EventKind
      <4>4. CASE ~IsStale(proto, item) /\ item.event = "phx_reply"
                 /\ Matching(proto, item) # {}
        <5> DEFINE e == CHOOSE e \in Matching(proto, item) : TRUE
        <5>1. e.kind \in {"Join", "Leave", "Push", "Heartbeat"}
          BY <4>4, MatchedEntry DEF ProtocolState, PendingRecord, Types, SessionTypes
        <5> QED BY <4>4, <5>1 DEF Kind, EventKind
      <4> QED BY <1>1, <2>2, <4>1, <4>2, <4>3, <4>4 DEF IsFrame
    <3> QED BY <1>1, <2>2, <3>1, FrameFacts
  <2> QED BY <2>1, <2>2
<1>6. IF ev.kind = "InvalidReply"
        THEN Return /\ UNCHANGED <<buffered, seen>>
        ELSE IF EndsWait(ev)
          THEN /\ Return /\ UNCHANGED buffered
               /\ seen' = IF ev.kind = "Message" THEN ev.number ELSE seen
          ELSE Buffer(ev) /\ stage' = "receiving" /\ UNCHANGED <<call, seen>>
  BY DEF TookFrame, TakeFrame, Kind
<1>7. ev.kind = Kind(item) /\ ev.number = item.number /\ ev.ref = item.ref
  OBVIOUS
<1>8. ev \in Kept \/ ev.kind = "InvalidReply"
  <2>1. item.number \in 0..MaxMessages /\ item.ref \in Nat
    BY <1>1, FrameFacts DEF IsFrame
  <2>2. ev.kind = "Message" <=> ev.number > 0
    BY <1>5, <2>1, Bounds
  <2>3. ev \in ClientEvents \/ ev.kind = "InvalidReply"
    BY <1>2, <2>1 DEF ClientEvents, ReceivedKinds
  <2> QED BY <2>2, <2>3 DEF Kept
<1> HIDE DEF ev
<1>9. CASE ev.kind = "InvalidReply"
  <2>1. item.number = 0
    BY <1>5, <1>7, <1>9
  <2> QED BY <1>3, <1>4, <1>6, <1>9, <2>1 DEF Returned
<1>10. CASE ev.kind # "InvalidReply" /\ EndsWait(ev)
  <2>1. item.number # 0 => call = NoCall
    BY <1>5, <1>7, <1>10 DEF EndsWait
  <2>2. Return /\ UNCHANGED buffered
        /\ seen' = IF item.number # 0 THEN item.number ELSE seen
    BY <1>5, <1>6, <1>7, <1>10
  <2> QED BY <1>3, <1>4, <2>1, <2>2 DEF Returned
<1>11. CASE ev.kind # "InvalidReply" /\ ~EndsWait(ev)
  <2>1. /\ buffered' = Append(buffered, ev) /\ ev \in Kept
        /\ stage' = "receiving" /\ UNCHANGED <<call, seen>>
    BY <1>6, <1>8, <1>11 DEF Buffer
  <2>2. call # NoCall /\ (Kind(item) \in Waiting => item.ref # call.ref)
    BY <1>7, <1>11 DEF EndsWait, Waiting
  <2>3. Continued(item)
    BY <1>7, <1>11, <2>1, <2>2 DEF Continued
  <2> QED BY <1>3, <1>4, <2>3
<1> QED BY <1>9, <1>10, <1>11

(* What a frame that does not decode does.                                 *)
LEMMA UndecodedEffect ==
  ASSUME Types, NEW item, TookUndecoded(item)
  PROVE  /\ events \in Seq(Served \cup Ends) /\ events # <<>>
         /\ item = Head(events) /\ item \in Served /\ events' = Tail(events)
         /\ ToSet(events) = ToSet(events') \cup {item}
         /\ stage' = "idle" /\ call' = NoCall
         /\ lost' = IF item.number = 0 THEN lost ELSE lost \cup {item.number}
         /\ UNCHANGED <<proto, buffered, reported, seen, outbox, poll, open,
                        closed, serverVars, connections>>
<1>1. events \in Seq(Served \cup Ends) /\ events # <<>> /\ item = Head(events)
      /\ events' = Tail(events)
  BY DEF TookUndecoded, TakeUndecoded, Types, TransportTypes
<1>2. ToSet(events) = ToSet(events') \cup {item}
  BY <1>1, Shifted
<1>3. Numbers(<<item>>) = {item.number} \ {0}
  <2>1. DOMAIN <<item>> = {1} /\ <<item>>[1] = item
    OBVIOUS
  <2> QED BY <2>1 DEF Numbers
<1>4. lost' = IF item.number = 0 THEN lost ELSE lost \cup {item.number}
  BY <1>3 DEF TookUndecoded, TakeUndecoded
<1> QED BY <1>1, <1>2, <1>4 DEF TookUndecoded, TakeUndecoded, Return

---------------------------------------------------------------------------
(* Types.                                                                  *)

(* The type invariant is part of the inductive one.                        *)
LEMMA TypesHold == Types => TypeOK
<1> SUFFICES ASSUME Types PROVE TypeOK
  OBVIOUS
<1>1. buffered \in Seq(ClientEvents)
  BY DEF Types, SessionTypes, Kept
<1>2. \A q \in Requests : q.ref \in 1..MaxReference
  BY DEF Requests
<1> QED BY <1>1, <1>2
        DEF Types, SessionTypes, TransportTypes, ServerTypes, TypeOK

(* The types hold at first.                                                *)
LEMMA InitialTypes == Init => Types
<1> SUFFICES ASSUME Init PROVE Types
  OBVIOUS
<1>1. NewProtocol \in ProtocolState
  BY DEF NewProtocol, ProtocolState, ChannelRecord
<1>2. \A S : <<>> \in Seq(S)
  OBVIOUS
<1>3. SessionTypes
  BY <1>1, <1>2, Bounds DEF Init, SessionTypes, Receiving
<1>4. TransportTypes
  BY <1>2 DEF Init, InitTransport, TransportTypes
<1>5. ServerTypes
  BY Bounds DEF Init, ServerTypes
<1> QED BY <1>3, <1>4, <1>5 DEF Types

(* No request is NoCall.                                                   *)
LEMMA RequestIsCall == NoCall \notin Requests
BY DEF NoCall, Requests

(* The polling task keeps the types of the transport.                      *)
LEMMA PollTypes ==
  ASSUME TransportTypes, PollStep
  PROVE  TransportTypes'
<1>1. \A how \in {"gone", "forbidden", "failed"} : End(how) \in Ends
  BY DEF Ends
<1>2. \A how \in {"gone", "forbidden", "failed"} :
        <<End(how)>> \in Seq(Served \cup Ends)
  <2> TAKE how \in {"gone", "forbidden", "failed"}
  <2>1. End(how) \in Served \cup Ends
    BY <1>1
  <2> HIDE DEF End
  <2> QED BY <2>1
<1>3. \A items \in Seq(Served \cup Ends) :
        Feed(items) => events' \in Seq(Served \cup Ends)
  <2> SUFFICES ASSUME NEW items \in Seq(Served \cup Ends), Feed(items)
               PROVE  events' \in Seq(Served \cup Ends)
    OBVIOUS
  <2>1. events \in Seq(Served \cup Ends)
    BY DEF TransportTypes
  <2>2. events \o items \in Seq(Served \cup Ends)
    BY <2>1, Joined
  <2> QED BY <2>1, <2>2 DEF Feed
<1>4. outbox \in Seq(Served \cup Ends) /\ <<>> \in Seq(Served)
  BY DEF TransportTypes
<1>5. CASE PollAnswered
  BY <1>3, <1>4, <1>5 DEF PollAnswered, TransportTypes
<1>6. CASE PollRefused
  <2>1. events' \in Seq(Served \cup Ends)
    BY <1>2, <1>3, <1>6 DEF PollRefused
  <2> QED BY <1>4, <1>6, <2>1 DEF PollRefused, TransportTypes
<1>7. CASE PollFailed
  <2>1. events' \in Seq(Served \cup Ends)
    BY <1>2, <1>3, <1>7 DEF PollFailed
  <2> QED BY <1>4, <1>7, <2>1 DEF PollFailed, TransportTypes
<1> QED BY <1>5, <1>6, <1>7 DEF PollStep

(* The server keeps them: what it sends is a frame.                        *)
LEMMA ServeTypes ==
  ASSUME TransportTypes, NEW f \in Served, Serve(f)
  PROVE  TransportTypes'
<1>1. outbox \in Seq(Served)
  BY DEF TransportTypes
<1>2. Append(outbox, f) \in Seq(Served)
  BY <1>1, Appended
<1> QED BY <1>2 DEF Serve, TransportTypes

(* What the server sends are frames.                                       *)
LEMMA ServedFrames ==
  /\ \A q \in Requests, status \in {"ok", "error", "invalid"} :
       Frame("phx_reply", q.topic, q.join_ref, q.ref, status, 0) \in Served
  /\ \A g \in 1..MaxReference, t \in Topics, kind \in {"phx_close", "phx_error"} :
       Frame(kind, t, g, 0, "none", 0) \in Served
  /\ \A t \in Topics, n \in 1..MaxMessages :
       Frame("message", t, 0, 0, "none", n) \in Served
<1>1. \A q \in Requests : /\ q.topic \in Topics \cup {PhoenixTopic}
                          /\ q.join_ref \in Nat /\ q.ref \in Nat
  BY Bounds DEF Requests
<1>2. \A q \in Requests, status \in {"ok", "error", "invalid"} :
        Frame("phx_reply", q.topic, q.join_ref, q.ref, status, 0) \in Served
  BY <1>1, Bounds DEF Frame, Served
<1>3. \A g \in 1..MaxReference, t \in Topics, kind \in {"phx_close", "phx_error"} :
        Frame(kind, t, g, 0, "none", 0) \in Served
  BY Bounds DEF Frame, Served
<1>4. \A t \in Topics, n \in 1..MaxMessages :
        Frame("message", t, 0, 0, "none", n) \in Served
  BY Bounds DEF Frame, Served
<1> QED BY <1>2, <1>3, <1>4

(* Every step keeps the types.                                             *)
LEMMA StepTypes == Types /\ InLine /\ [Next]_vars => Types'
<1> SUFFICES ASSUME Types, InLine, [Next]_vars PROVE Types'
  OBVIOUS
<1>1. SessionTypes /\ TransportTypes /\ ServerTypes
  BY DEF Types
<1>2. UNCHANGED longPollVars => TransportTypes'
  BY <1>1 DEF longPollVars, TransportTypes
<1>3. UNCHANGED serverVars => ServerTypes'
  BY <1>1 DEF serverVars, ServerTypes
<1>4. UNCHANGED sessionVars /\ UNCHANGED <<seen, lost>> => SessionTypes'
  BY <1>1 DEF sessionVars, SessionTypes, Receiving
<1>5. ASSUME NEW q, NEW p, Asked(q, p), Request(q, p) PROVE Types'
  <2>1. q \in Requests /\ p \in ProtocolState
    BY <1>5 DEF Asked, Request
  <2>2. SessionTypes'
    BY <1>1, <1>5, <2>1, RequestIsCall
       DEF Request, Return, SessionTypes, Receiving, historyVars
  <2> QED BY <1>2, <1>3, <1>5, <2>2 DEF Request, Types
<1>6. ASSUME NEW t \in Topics, CallFails(t) PROVE Types'
  <2>1. FailedLeave(proto) \in ProtocolState
    BY <1>1 DEF SessionTypes, FailedLeave, ProtocolState, NextRef
  <2>2. SessionTypes'
    BY <1>1, <1>6, <2>1 DEF CallFails, SessionTypes, Receiving, historyVars
  <2> QED BY <1>2, <1>3, <1>6, <2>2 DEF CallFails, Types
<1>7. CASE PostArrives
  <2>1. call \in Requests
    BY <1>1, <1>7 DEF PostArrives, SessionTypes
  <2>2. call.kind = "Join" => call.join_ref \in 1..MaxReference
    BY <2>1 DEF Requests
  <2>3. ServerTypes'
    BY <1>1, <1>7, <2>1, <2>2 DEF PostArrives, ServerTypes
  <2>4. SessionTypes'
    BY <1>1, <1>7 DEF PostArrives, SessionTypes, Receiving, historyVars
  <2> QED BY <1>2, <1>7, <2>3, <2>4 DEF PostArrives, Types
<1>8. CASE PostSucceeds
  <2>1. SessionTypes'
    BY <1>1, <1>8 DEF PostSucceeds, SessionTypes, Receiving, historyVars
  <2> QED BY <1>2, <1>3, <1>8, <2>1 DEF PostSucceeds, Types
<1>9. CASE PostFails \/ DropFuture
  <2>1. SessionTypes'
    BY <1>1, <1>9
       DEF PostFails, DropFuture, Return, SessionTypes, Receiving, historyVars
  <2> QED BY <1>2, <1>3, <1>9, <2>1 DEF PostFails, DropFuture, Types
<1>10. CASE TakeBuffered
  <2>1. Tail(buffered) \in Seq(Kept) /\ Head(buffered) \in Kept
    BY <1>1, <1>10, Shifted DEF TakeBuffered, SessionTypes
  <2>2. SessionTypes'
    BY <1>1, <1>10, <2>1, FrameFacts DEF TakeBuffered, SessionTypes, Receiving
  <2> QED BY <1>2, <1>3, <1>10, <2>2 DEF TakeBuffered, Types
<1>11. CASE NextEvent
  <2>1. SessionTypes'
    BY <1>1, <1>11 DEF NextEvent, SessionTypes, Receiving, historyVars
  <2> QED BY <1>2, <1>3, <1>11, <2>1 DEF NextEvent, Types
<1>12. ASSUME NEW item, TookFrame(item) PROVE Types'
  <2>1. Tail(events) \in Seq(Served \cup Ends)
    BY <1>1, <1>12, Shifted DEF TookFrame, TransportTypes
  <2>2. TransportTypes'
    BY <1>1, <1>12, <2>1, FrameEffect DEF TookFrame, TransportTypes
  <2>3. item.number \in 0..MaxMessages
    BY <1>12, FrameFacts DEF TookFrame
  <2>4. CASE Returned(item)
    <3>1. SessionTypes'
      BY <1>1, <1>12, <2>3, <2>4, FrameEffect
         DEF Returned, Return, SessionTypes, Receiving
    <3> QED BY <1>3, <1>12, <2>2, <3>1 DEF TookFrame, Types
  <2>5. CASE Continued(item)
    <3>1. buffered' \in Seq(Kept)
      BY <1>1, <2>5, Appended DEF Continued, SessionTypes
    <3>2. SessionTypes'
      BY <1>1, <1>12, <2>5, <3>1, FrameEffect
         DEF Continued, SessionTypes, Receiving
    <3> QED BY <1>3, <1>12, <2>2, <3>2 DEF TookFrame, Types
  <2> QED BY <1>12, <2>4, <2>5, FrameEffect
<1>13. ASSUME NEW end, TookEnd(end) PROVE Types'
  <2>1. end.how \in {"clean", "gone", "forbidden", "failed", "ended"}
    BY <1>13 DEF TookEnd, End, Ends
  <2>2. SessionTypes'
    BY <1>1, <1>13, <2>1 DEF TookEnd, Report, Return, SessionTypes, Receiving
  <2>3. end.how \in {"gone", "forbidden", "failed"} => events # <<>>
    BY <1>13 DEF TookEnd, End
  <2>4. events' \in Seq(Served \cup Ends)
    BY <1>1, <1>13, <2>3, Shifted DEF TookEnd, Report, TransportTypes
  <2>5. TransportTypes'
    BY <1>1, <1>13, <2>4 DEF TookEnd, TransportTypes
  <2> QED BY <1>3, <1>13, <2>2, <2>5 DEF TookEnd, Types
<1>14. CASE Waited
  <2>1. SessionTypes'
    BY <1>1, <1>14 DEF Waited, SessionTypes, Receiving
  <2> QED BY <1>2, <1>3, <1>14, <2>1 DEF Waited, Types
<1>15. CASE Poll
  BY <1>1, <1>3, <1>4, <1>15, PollTypes DEF Poll, Types, historyVars
<1>16. CASE CloseSession
  <2>1. TransportTypes'
    BY <1>1, <1>16 DEF CloseSession, Close, TransportTypes
  <2> QED BY <1>3, <1>4, <1>16, <2>1 DEF CloseSession, Types, historyVars
<1>17. CASE Reconnect
  <2>1. PICK a \in 0..MaxMessages : /\ seen <= a /\ lost \subseteq 1..a
                                    /\ Line(buffered, seen, a, lost)
    BY DEF InLine
  <2>2. Max({seen} \cup Numbers(buffered) \cup lost) = a
    <3>1. Numbered(Kept)
      BY FrameFacts DEF Numbered
    <3>2. buffered \in Seq(Kept) /\ seen \in Nat /\ a \in Nat
      BY <1>1 DEF SessionTypes
    <3> QED BY <2>1, <3>1, <3>2, LineEnd
  <2>3. ServerTypes'
    BY <1>17, <2>2 DEF Reconnect, ServerTypes
  <2>4. ResetConnection(proto) \in ProtocolState
    BY <1>1, ResetType DEF SessionTypes
  <2>5. SessionTypes'
    BY <1>1, <1>17, <2>4 DEF Reconnect, SessionTypes, Receiving
  <2>6. <<>> \in Seq(Served) /\ <<>> \in Seq(Served \cup Ends)
    OBVIOUS
  <2>7. TransportTypes'
    BY <1>17, <2>6 DEF Reconnect, NewTransport, TransportTypes
  <2> QED BY <2>3, <2>5, <2>7 DEF Types
<1>18. CASE ServeReply
  <2>1. PICK q \in unanswered, status \in {"ok", "error", "invalid"} :
          /\ Serve(Frame("phx_reply", q.topic, q.join_ref, q.ref, status, 0))
          /\ unanswered' = unanswered \ {q}
          /\ live' \subseteq live
          /\ UNCHANGED sent
    BY <1>18 DEF ServeReply
  <2>2. TransportTypes'
    BY <1>1, <2>1, ServedFrames, ServeTypes DEF ServerTypes
  <2>3. ServerTypes'
    BY <1>1, <2>1 DEF ServerTypes
  <2> QED BY <1>4, <2>1, <2>2, <2>3 DEF Serve, Types, historyVars
<1>19. CASE ServeTermination
  <2>1. PICK g \in live, t \in Topics, kind \in {"phx_close", "phx_error"} :
          /\ Serve(Frame(kind, t, g, 0, "none", 0))
          /\ unanswered' \subseteq unanswered
          /\ live' \subseteq live
          /\ UNCHANGED sent
    BY <1>19 DEF ServeTermination
  <2>2. TransportTypes'
    BY <1>1, <2>1, ServedFrames, ServeTypes DEF ServerTypes
  <2>3. ServerTypes'
    BY <1>1, <2>1 DEF ServerTypes
  <2> QED BY <1>4, <2>1, <2>2, <2>3 DEF Serve, Types, historyVars
<1>20. CASE ServeMessage
  <2>1. PICK t \in Topics : /\ sent < MaxMessages
                            /\ Serve(Frame("message", t, 0, 0, "none", sent + 1))
                            /\ sent' = sent + 1
                            /\ UNCHANGED <<unanswered, live>>
    BY <1>20 DEF ServeMessage
  <2>2. sent + 1 \in 1..MaxMessages
    BY <1>1, <2>1, Bounds DEF ServerTypes
  <2>3. TransportTypes'
    BY <1>1, <2>1, <2>2, ServedFrames, ServeTypes
  <2>4. ServerTypes'
    BY <1>1, <2>1, <2>2 DEF ServerTypes
  <2> QED BY <1>4, <2>1, <2>3, <2>4 DEF Serve, Types, historyVars
<1>21. CASE UNCHANGED vars
  BY <1>2, <1>3, <1>4, <1>21 DEF vars, Types, historyVars
<1>22. ASSUME NEW item, TookUndecoded(item) PROVE Types'
  <2>1. /\ events' \in Seq(Served \cup Ends)
        /\ UNCHANGED <<outbox, poll, open, closed, serverVars>>
    BY <1>22, Shifted, UndecodedEffect
  <2>2. item.number \in 0..MaxMessages
    BY <1>22, FrameFacts, UndecodedEffect
  <2>3. lost' \subseteq 1..MaxMessages
    <3>1. lost' = IF item.number = 0 THEN lost ELSE lost \cup {item.number}
      BY <1>22, UndecodedEffect
    <3>2. lost \subseteq 1..MaxMessages
      BY DEF Types, SessionTypes
    <3>3. item.number # 0 => item.number \in 1..MaxMessages
      BY <2>2, Bounds
    <3> QED BY <3>1, <3>2, <3>3
  <2>4. SessionTypes'
    BY <1>1, <1>22, <2>3, UndecodedEffect DEF SessionTypes, Receiving
  <2>5. TransportTypes'
    BY <1>1, <2>1 DEF TransportTypes
  <2> QED BY <1>3, <2>1, <2>4, <2>5 DEF Types
<1> QED BY <1>5, <1>6, <1>7, <1>8, <1>9, <1>10, <1>11, <1>12, <1>13, <1>14,
           <1>15, <1>16, <1>17, <1>18, <1>19, <1>20, <1>21, <1>22, Steps

---------------------------------------------------------------------------
(* Messages.                                                               *)

(* What every queue holds has a number.                                    *)
LEMMA QueuesNumbered ==
  /\ Numbered(Kept) /\ Numbered(Served) /\ Numbered(Served \cup Ends)
  /\ Numbered(Kept \cup (Served \cup Ends))
BY FrameFacts DEF Numbered

(* A step that leaves the queues alone leaves the line as it is.           *)
LEMMA LineKept ==
  ASSUME InLine, UNCHANGED <<buffered, events, outbox, seen, lost, sent>>,
         poll' = "fetching" => poll = "fetching"
  PROVE  InLine'
<1> QED BY DEF InLine, Line

(* The messages in order, after an answer to a GET or a failure of one.    *)
LEMMA PollLine ==
  ASSUME Types, InLine, Closed, Poll
  PROVE  InLine'
<1>1. PICK a \in 0..MaxMessages, b \in 0..MaxMessages, c \in 0..MaxMessages :
        /\ seen <= a /\ a <= b /\ b <= c /\ c <= sent
        /\ poll = "fetching" => c = sent
        /\ lost \subseteq 1..a /\ Line(buffered, seen, a, lost)
        /\ Line(events, a, b, lost) /\ Line(outbox, b, c, lost)
  BY DEF InLine
<1>2. /\ events \in Seq(Served \cup Ends) /\ outbox \in Seq(Served \cup Ends)
      /\ sent \in Nat /\ a \in Nat /\ b \in Nat /\ c \in Nat
  BY DEF Types, TransportTypes, ServerTypes
<1>3. UNCHANGED <<buffered, seen, lost, sent>> /\ outbox' = <<>>
  BY DEF Poll, PollStep, PollAnswered, PollRefused, PollFailed,
         sessionVars, serverVars, historyVars
<1>4. \A n \in Nat : Line(outbox', n, n, lost')
  BY <1>3, LineOfNone
<1>5. Line(buffered', seen', a, lost') /\ lost' \subseteq 1..a
  BY <1>1, <1>3
<1>6. CASE PollAnswered /\ open
  <2>1. Line(events \o outbox, a, c, lost)
    BY <1>1, <1>2, LineJoined, QueuesNumbered
  <2>2. events' = events \o outbox
    BY <1>6 DEF PollAnswered, Feed
  <2>3. Line(events', a, c, lost') /\ Line(outbox', c, c, lost')
    BY <1>2, <1>3, <1>4, <2>1, <2>2
  <2>4. poll' = "fetching" => c = sent'
    BY <1>1, <1>3, <1>6 DEF PollAnswered
  <2>5. a <= c
    BY <1>1, <1>2
  <2> HIDE DEF Line
  <2> QED BY <1>1, <1>2, <1>3, <1>5, <2>3, <2>4, <2>5 DEF InLine
<1>7. CASE (PollAnswered /\ ~open) \/ PollRefused \/ PollFailed
  <2>1. poll' = "ended"
    BY <1>7 DEF PollAnswered, PollRefused, PollFailed, Closed
  <2>2. \A how : Feed(<<End(how)>>) => Line(events', a, b, lost')
    <3> TAKE how
    <3> HAVE Feed(<<End(how)>>)
    <3> lost' = lost
      BY <1>3
    <3>1. CASE open
      <4> DEFINE d == End(how)
                 S == Served \cup Ends \cup {d}
      <4>1. d.number = 0
        BY DEF End
      <4> HIDE DEF d
      <4>2. d \in S /\ Numbered(S)
        BY <4>1, QueuesNumbered DEF Numbered
      <4>3. events \in Seq(S)
        BY <1>2
      <4>4. Line(Append(events, d), a, b, lost)
        BY <1>1, <1>2, <4>1, <4>2, <4>3, LineAppended
      <4>5. events \o <<d>> = Append(events, d)
        BY <4>3
      <4>6. events' = events \o <<d>>
        BY <3>1 DEF Feed, d
      <4> QED BY <4>4, <4>5, <4>6
    <3>2. CASE ~open
      BY <1>1, <3>2 DEF Feed
    <3> QED BY <3>1, <3>2
  <2>3. Line(events', a, b, lost')
    <3>1. CASE PollAnswered /\ ~open
      BY <1>1, <1>3, <3>1 DEF PollAnswered, Feed
    <3>2. CASE PollRefused \/ PollFailed
      BY <2>2, <3>2 DEF PollRefused, PollFailed
    <3> QED BY <1>7, <3>1, <3>2
  <2>4. Line(outbox', b, b, lost')
    BY <1>2, <1>4
  <2>5. b <= sent' /\ b <= b
    BY <1>1, <1>2, <1>3
  <2> QED BY <1>1, <1>3, <1>5, <2>1, <2>3, <2>4, <2>5 DEF InLine
<1> QED BY <1>6, <1>7 DEF Poll, PollStep

(* A frame of the server is no message, or the next one.                   *)
LEMMA ServeLine ==
  ASSUME Types, InLine, NEW f \in Served, Serve(f),
         \/ f.number = 0 /\ UNCHANGED sent
         \/ f.number = sent + 1 /\ sent' = sent + 1 /\ sent < MaxMessages
  PROVE  InLine'
<1>1. PICK a \in 0..MaxMessages, b \in 0..MaxMessages, c \in 0..MaxMessages :
        /\ seen <= a /\ a <= b /\ b <= c /\ c <= sent
        /\ poll = "fetching" => c = sent
        /\ lost \subseteq 1..a /\ Line(buffered, seen, a, lost)
        /\ Line(events, a, b, lost) /\ Line(outbox, b, c, lost)
  BY DEF InLine
<1>2. c = sent /\ outbox' = Append(outbox, f)
      /\ UNCHANGED <<buffered, events, seen, lost, poll>>
  BY <1>1 DEF Serve, sessionVars, historyVars
<1>3. /\ outbox \in Seq(Served) /\ Numbered(Served)
      /\ a \in Nat /\ b \in Nat /\ c \in Nat
      /\ b <= c /\ sent \in 0..MaxMessages
  BY <1>1, QueuesNumbered DEF Types, TransportTypes, ServerTypes
<1>4. Line(outbox', b, sent', lost')
  <2>1. CASE f.number = 0 /\ UNCHANGED sent
    BY <1>1, <1>2, <1>3, <2>1, LineAppended
  <2>2. CASE f.number = sent + 1 /\ sent' = sent + 1
    <3>1. f.number \notin lost
      BY <1>1, <1>2, <1>3, <2>2
    <3> QED BY <1>1, <1>2, <1>3, <2>2, <3>1, LineAppended
  <2> QED BY <2>1, <2>2
<1>5. sent' \in 0..MaxMessages /\ b <= sent'
  BY <1>1, <1>2, <1>3, Bounds
<1>6. /\ Line(buffered', seen', a, lost') /\ Line(events', a, b, lost')
      /\ lost' \subseteq 1..a
  BY <1>1, <1>2
<1> QED BY <1>1, <1>2, <1>4, <1>5, <1>6 DEF InLine

(* A frame that is taken: a message of it is returned when the buffer is   *)
(* empty, and goes behind what is in it otherwise.                         *)
LEMMA FrameLine ==
  ASSUME Types, InLine, NEW item, TookFrame(item)
  PROVE  InLine'
<1>1. PICK a \in 0..MaxMessages, b \in 0..MaxMessages, c \in 0..MaxMessages :
        /\ seen <= a /\ a <= b /\ b <= c /\ c <= sent
        /\ poll = "fetching" => c = sent
        /\ lost \subseteq 1..a /\ Line(buffered, seen, a, lost)
        /\ Line(events, a, b, lost) /\ Line(outbox, b, c, lost)
  BY DEF InLine
<1>2. /\ events \in Seq(Served \cup Ends) /\ events # <<>>
      /\ buffered \in Seq(Kept) /\ seen \in Nat
      /\ item = Head(events) /\ item.number \in 0..MaxMessages
      /\ Receiving
  BY FrameFacts DEF Types, SessionTypes, TransportTypes, TookFrame
<1>3. /\ events' = Tail(events)
      /\ UNCHANGED <<outbox, poll, sent, lost>>
  BY FrameEffect DEF TookFrame, serverVars
<1>4. /\ item.number = 0 => Line(events', a, b, lost')
      /\ item.number # 0 => /\ item.number = a + 1 /\ a + 1 <= b
                            /\ Line(events', a + 1, b, lost')
  <2>1. a + 1 \notin lost /\ a \in Nat /\ b \in Nat
    BY <1>1
  <2> QED BY <1>1, <1>2, <1>3, <2>1, LineShifted, QueuesNumbered
<1>5. /\ Line(outbox', b, c, lost') /\ c <= sent'
      /\ poll' = "fetching" => c = sent'
      /\ lost' \subseteq 1..a /\ lost' \subseteq 1..(a + 1)
  BY <1>1, <1>3
<1>6. CASE Returned(item) /\ item.number = 0
  <2>1. UNCHANGED <<buffered, seen>>
    BY <1>6 DEF Returned
  <2>2. Line(buffered', seen', a, lost') /\ seen' <= a
    BY <1>1, <1>3, <2>1
  <2> QED BY <1>1, <1>4, <1>5, <1>6, <2>2 DEF InLine
<1>7. CASE Returned(item) /\ item.number # 0
  <2>1. buffered' = <<>> /\ buffered = <<>> /\ seen' = a + 1
    BY <1>2, <1>4, <1>7 DEF Returned, Types, SessionTypes
  <2>2. Line(buffered', seen', a + 1, lost')
    BY <1>1, <2>1, LineOfNone
  <2>3. a + 1 \in 0..MaxMessages /\ seen' <= a + 1
    BY <1>1, <1>2, <1>4, <1>7, <2>1
  <2> QED BY <1>1, <1>4, <1>5, <1>7, <2>2, <2>3 DEF InLine
<1>8. CASE Continued(item)
  <2>1. PICK e \in Kept : e.number = item.number /\ buffered' = Append(buffered, e)
    BY <1>8 DEF Continued
  <2>2. UNCHANGED seen
    BY <1>8 DEF Continued
  <2>3. a + 1 \notin lost /\ a \in Nat
    BY <1>1
  <2>4. /\ item.number = 0 => Line(buffered', seen, a, lost')
        /\ item.number = a + 1 => Line(buffered', seen, a + 1, lost')
    BY <1>1, <1>2, <1>3, <2>1, <2>3, LineAppended, QueuesNumbered
  <2>5. CASE item.number = 0
    BY <1>1, <1>4, <1>5, <2>2, <2>4, <2>5 DEF InLine
  <2>6. CASE item.number # 0
    <3>1. /\ Line(buffered', seen', a + 1, lost')
          /\ Line(events', a + 1, b, lost') /\ a + 1 <= b
      BY <1>4, <2>2, <2>4, <2>6
    <3>2. a + 1 \in 0..MaxMessages /\ seen' <= a + 1
      BY <1>1, <1>2, <1>4, <2>2, <2>6
    <3> QED BY <1>1, <1>5, <3>1, <3>2 DEF InLine
  <2> QED BY <2>5, <2>6
<1> QED BY <1>6, <1>7, <1>8, FrameEffect

(* A frame that does not decode: a message of it was the next one, and     *)
(* those in the buffer are older.                                          *)
LEMMA UndecodedLine ==
  ASSUME Types, InLine, NEW item, TookUndecoded(item)
  PROVE  InLine'
<1>1. PICK a \in 0..MaxMessages, b \in 0..MaxMessages, c \in 0..MaxMessages :
        /\ seen <= a /\ a <= b /\ b <= c /\ c <= sent
        /\ poll = "fetching" => c = sent
        /\ lost \subseteq 1..a /\ Line(buffered, seen, a, lost)
        /\ Line(events, a, b, lost) /\ Line(outbox, b, c, lost)
  BY DEF InLine
<1>2. /\ events \in Seq(Served \cup Ends) /\ events # <<>>
      /\ outbox \in Seq(Served) /\ buffered \in Seq(Kept)
      /\ seen \in Nat /\ a \in Nat /\ b \in Nat /\ c \in Nat
      /\ item = Head(events) /\ item.number \in 0..MaxMessages
  BY FrameFacts, UndecodedEffect
     DEF Types, SessionTypes, TransportTypes
<1>3. /\ events' = Tail(events)
      /\ lost' = IF item.number = 0 THEN lost ELSE lost \cup {item.number}
      /\ UNCHANGED <<buffered, seen, outbox, poll, sent>>
  BY UndecodedEffect DEF serverVars
<1>4. a + 1 \notin lost
  BY <1>1
<1>5. /\ item.number = 0 => Line(events', a, b, lost)
      /\ item.number # 0 => /\ item.number = a + 1 /\ a + 1 <= b
                            /\ Line(events', a + 1, b, lost)
  BY <1>1, <1>2, <1>3, <1>4, LineShifted, QueuesNumbered
<1>6. CASE item.number = 0
  BY <1>1, <1>3, <1>5, <1>6 DEF InLine
<1>7. CASE item.number # 0
  <2> DEFINE L == lost \cup {a + 1}
  <2>1. lost' = L /\ a + 1 <= b /\ Line(events', a + 1, b, lost)
    BY <1>3, <1>5, <1>7
  <2>2. Line(buffered, seen, a + 1, L)
    BY <1>1, <1>2, LineLost, QueuesNumbered
  <2>3. events' \in Seq(Served \cup Ends) /\ a + 1 \in Nat
    BY <1>2, <1>3
  <2>4. Line(events', a + 1, b, L)
    <3> DEFINE t == events'
    <3>1. t \in Seq(Served \cup Ends) /\ Line(t, a + 1, b, lost)
      BY <2>1, <2>3
    <3> HIDE DEF t
    <3>2. \A n \in Nat : n <= a + 1 => Line(t, a + 1, b, lost \cup {n})
      BY <1>2, <2>1, <2>3, <3>1, LineLost, QueuesNumbered
    <3>3. Line(t, a + 1, b, lost \cup {a + 1})
      BY <2>3, <3>2
    <3> QED BY <3>3 DEF t
  <2>5. Line(outbox, b, c, L)
    BY <1>1, <1>2, <2>1, <2>3, LineLost, QueuesNumbered
  <2>6. a + 1 \in 0..MaxMessages /\ seen' <= a + 1 /\ L \subseteq 1..(a + 1)
    BY <1>1, <1>2, <1>3, <2>1
  <2> HIDE DEF L
  <2> QED BY <1>1, <1>3, <2>1, <2>2, <2>4, <2>5, <2>6 DEF InLine
<1> QED BY <1>6, <1>7

(* Every step keeps the messages in order.                                 *)
LEMMA StepLine == Types /\ InLine /\ Closed /\ [Next]_vars => InLine'
<1> SUFFICES ASSUME Types, InLine, Closed, [Next]_vars PROVE InLine'
  OBVIOUS
<1> USE DEF longPollVars, serverVars, historyVars, sessionVars
<1>1. ASSUME NEW q, NEW p, Request(q, p) PROVE InLine'
  BY <1>1, LineKept DEF Request
<1>2. ASSUME NEW t \in Topics, CallFails(t) PROVE InLine'
  BY <1>2, LineKept DEF CallFails
<1>3. CASE PostArrives \/ PostSucceeds \/ PostFails \/ DropFuture \/ NextEvent
  BY <1>3, LineKept DEF PostArrives, PostSucceeds, PostFails, DropFuture, NextEvent
<1>4. CASE TakeBuffered
  <2>1. PICK a \in 0..MaxMessages, b \in 0..MaxMessages, c \in 0..MaxMessages :
          /\ seen <= a /\ a <= b /\ b <= c /\ c <= sent
          /\ poll = "fetching" => c = sent
          /\ lost \subseteq 1..a /\ Line(buffered, seen, a, lost)
          /\ Line(events, a, b, lost) /\ Line(outbox, b, c, lost)
    BY DEF InLine
  <2>2. /\ buffered \in Seq(Kept) /\ buffered # <<>> /\ seen \in Nat
        /\ a \in Nat /\ Head(buffered) \in Kept
    BY <1>4 DEF Types, SessionTypes, TakeBuffered
  <2>3. /\ Head(buffered).number = 0 => Line(Tail(buffered), seen, a, lost)
        /\ Head(buffered).number # 0 =>
             /\ Head(buffered).number <= a
             /\ Line(Tail(buffered), Head(buffered).number, a, lost)
    BY <2>1, <2>2, LineShifted, QueuesNumbered
  <2>4. Head(buffered).kind = "Message" <=> Head(buffered).number # 0
    BY <2>2, FrameFacts DEF Kept
  <2>5. UNCHANGED <<events, outbox, poll, sent, lost>>
    BY <1>4 DEF TakeBuffered
  <2>6. Line(buffered', seen', a, lost') /\ seen' <= a
    BY <1>4, <2>1, <2>3, <2>4, <2>5 DEF TakeBuffered
  <2> QED BY <2>1, <2>5, <2>6 DEF InLine
<1>5. ASSUME NEW item, TookFrame(item) PROVE InLine'
  BY <1>5, FrameLine
<1>14. ASSUME NEW item, TookUndecoded(item) PROVE InLine'
  BY <1>14, UndecodedLine
<1>6. ASSUME NEW end, TookEnd(end) PROVE InLine'
  <2>1. UNCHANGED <<buffered, outbox, seen, lost, sent, poll>>
    BY <1>6 DEF TookEnd, Report
  <2>2. CASE events' = events
    BY <2>1, <2>2, LineKept
  <2>3. CASE events' = Tail(events) /\ events # <<>> /\ Head(events).number = 0
    <3>1. PICK a \in 0..MaxMessages, b \in 0..MaxMessages, c \in 0..MaxMessages :
            /\ seen <= a /\ a <= b /\ b <= c /\ c <= sent
            /\ poll = "fetching" => c = sent
            /\ lost \subseteq 1..a /\ Line(buffered, seen, a, lost)
            /\ Line(events, a, b, lost) /\ Line(outbox, b, c, lost)
      BY DEF InLine
    <3>2. events \in Seq(Served \cup Ends)
      BY DEF Types, TransportTypes
    <3>3. Line(events', a, b, lost')
      BY <2>1, <2>3, <3>1, <3>2, LineShifted, QueuesNumbered
    <3> QED BY <2>1, <3>1, <3>3 DEF InLine
  <2>4. \/ events' = events
        \/ events' = Tail(events) /\ events # <<>> /\ Head(events).number = 0
    BY <1>6, FrameFacts DEF TookEnd, Report, End
  <2> QED BY <2>2, <2>3, <2>4
<1>7. CASE Waited \/ CloseSession
  BY <1>7, LineKept DEF Waited, CloseSession, Close
<1>8. CASE Poll
  BY <1>8, PollLine
<1>9. CASE Reconnect
  <2>1. PICK a \in 0..MaxMessages : /\ seen <= a /\ lost \subseteq 1..a
                                    /\ Line(buffered, seen, a, lost)
    BY DEF InLine
  <2>2. buffered \in Seq(Kept) /\ seen \in Nat /\ a \in Nat
    BY DEF Types, SessionTypes
  <2>3. Max({seen} \cup Numbers(buffered) \cup lost) = a
    BY <2>1, <2>2, LineEnd, QueuesNumbered
  <2>4. /\ UNCHANGED <<buffered, seen, lost>> /\ sent' = a
        /\ events' = <<>> /\ outbox' = <<>>
    BY <1>9, <2>3 DEF Reconnect, NewTransport
  <2>5. /\ Line(buffered', seen', a, lost') /\ lost' \subseteq 1..a
        /\ Line(events', a, a, lost') /\ Line(outbox', a, a, lost')
    BY <2>1, <2>2, <2>4, LineOfNone
  <2>6. a <= a /\ a <= sent' /\ seen' <= a
    BY <2>1, <2>2, <2>4
  <2> QED BY <2>4, <2>5, <2>6 DEF InLine
<1>10. CASE ServeReply
  <2>1. PICK q \in unanswered, status \in {"ok", "error", "invalid"} :
          /\ Serve(Frame("phx_reply", q.topic, q.join_ref, q.ref, status, 0))
          /\ UNCHANGED sent
    BY <1>10 DEF ServeReply
  <2>2. Frame("phx_reply", q.topic, q.join_ref, q.ref, status, 0) \in Served
    BY <2>1, ServedFrames DEF Types, ServerTypes
  <2> QED BY <2>1, <2>2, ServeLine DEF Frame
<1>11. CASE ServeTermination
  <2>1. PICK g \in live, t \in Topics, kind \in {"phx_close", "phx_error"} :
          Serve(Frame(kind, t, g, 0, "none", 0)) /\ UNCHANGED sent
    BY <1>11 DEF ServeTermination
  <2>2. Frame(kind, t, g, 0, "none", 0) \in Served
    BY <2>1, ServedFrames DEF Types, ServerTypes
  <2> QED BY <2>1, <2>2, ServeLine DEF Frame
<1>12. CASE ServeMessage
  <2>1. PICK t \in Topics : /\ sent < MaxMessages
                            /\ Serve(Frame("message", t, 0, 0, "none", sent + 1))
                            /\ sent' = sent + 1
    BY <1>12 DEF ServeMessage
  <2>2. sent + 1 \in 1..MaxMessages
    BY <2>1, Bounds DEF Types, ServerTypes
  <2>3. Frame("message", t, 0, 0, "none", sent + 1) \in Served
    BY <2>2, ServedFrames
  <2> QED BY <2>1, <2>3, ServeLine DEF Frame
<1>13. CASE UNCHANGED vars
  BY <1>13, LineKept DEF vars
<1> QED BY <1>1, <1>2, <1>3, <1>4, <1>5, <1>6, <1>7, <1>8, <1>9, <1>10, <1>11,
           <1>12, <1>13, <1>14, Steps

---------------------------------------------------------------------------
(* The end of the connection.                                              *)

Refused == {"gone", "forbidden"}

(* A step that touches neither the transport nor the report.               *)
LEMMA ClosedKept ==
  ASSUME Closed, UNCHANGED <<open, closed, events, reported>>,
         stage' = "idle" \/ reported \notin {"gone", "forbidden", "clean"}
  PROVE  Closed'
BY DEF Closed, RefusalQueued

(* What an end is, by its name.                                            *)
LEMMA EndFacts ==
  /\ \A how, why : End(how) = End(why) => how = why
  /\ \A how : End(how).how = how
  /\ \A how : End(how) \notin Served
<1>1. \A how : End(how).how = how /\ End(how).event = "end"
  BY DEF End
<1>2. \A f \in Served : f.event # "end"
  BY DEF Served
<1> QED BY <1>1, <1>2

(* Every step keeps what the flag of the transport means.                  *)
LEMMA StepClosed == Types /\ Closed /\ [Next]_vars => Closed'
<1> SUFFICES ASSUME Types, Closed, [Next]_vars PROVE Closed'
  OBVIOUS
<1> USE DEF longPollVars, serverVars, historyVars, sessionVars
<1>1. ASSUME NEW q, NEW p, Request(q, p) PROVE Closed'
  BY <1>1, ClosedKept DEF Request, Return, Closed
<1>2. ASSUME NEW t \in Topics, CallFails(t) PROVE Closed'
  BY <1>2, ClosedKept DEF CallFails
<1>3. CASE PostArrives \/ PostSucceeds \/ PostFails \/ DropFuture \/ NextEvent
  BY <1>3, ClosedKept
     DEF PostArrives, PostSucceeds, PostFails, DropFuture, NextEvent, Closed
<1>4. CASE TakeBuffered
  BY <1>4, ClosedKept DEF TakeBuffered
<1>5. Receiving => stage # "idle" /\ reported \notin {"gone", "forbidden", "clean"}
  BY DEF Receiving, Closed
<1>6. events \in Seq(Served \cup Ends)
  BY DEF Types, TransportTypes
<1>7. ASSUME NEW item, TookFrame(item) PROVE Closed'
  <2>1. ToSet(events) = ToSet(Tail(events)) \cup {item} /\ item \in Served
    BY <1>6, <1>7, Shifted DEF TookFrame
  <2>2. events' = Tail(events) /\ UNCHANGED <<reported, open, closed>>
    BY <1>7, FrameEffect DEF TookFrame
  <2>3. RefusalQueued' <=> RefusalQueued
    BY <2>1, <2>2, EndFacts DEF RefusalQueued
  <2> QED BY <1>5, <1>7, <2>2, <2>3 DEF Closed, TookFrame
<1>15. ASSUME NEW item, TookUndecoded(item) PROVE Closed'
  <2>1. /\ ToSet(events) = ToSet(events') \cup {item} /\ item \in Served
        /\ stage' = "idle" /\ UNCHANGED <<reported, open, closed>>
    BY <1>15, UndecodedEffect
  <2>2. RefusalQueued' <=> RefusalQueued
    BY <2>1, EndFacts DEF RefusalQueued
  <2> QED BY <2>1, <2>2 DEF Closed
<1>8. ASSUME NEW end, TookEnd(end) PROVE Closed'
  <2>1. stage' = "idle" /\ reported' = end.how /\ UNCHANGED <<open, closed>>
    BY <1>8 DEF TookEnd, Report, Return
  <2>2. CASE end = End("clean") \/ end = End("ended")
    <3>1. end.how \notin {"gone", "forbidden", "failed"}
      BY <2>2, EndFacts
    <3>2. events' = events /\ (end.how = "clean" => closed)
      BY <1>8, <3>1, EndFacts, FrameFacts DEF TookEnd, Report, Ends
    <3> QED BY <1>5, <1>8, <2>1, <3>1, <3>2 DEF Closed, RefusalQueued, TookEnd
  <2>3. CASE end \in Ends /\ events # <<>> /\ end = Head(events)
    <3>1. PICK how \in {"gone", "forbidden", "failed"} : end = End(how)
      BY <2>3 DEF Ends
    <3>2. events' = Tail(events) /\ end.how = how
      BY <1>8, <3>1, EndFacts DEF TookEnd, Report
    <3>3. ToSet(events) = ToSet(events') \cup {End(how)}
      BY <1>6, <2>3, <3>1, <3>2, Shifted
    <3>4. /\ RefusalQueued' => RefusalQueued
          /\ RefusalQueued => RefusalQueued' \/ how \in Refused
          /\ how \in Refused => RefusalQueued
      BY <3>3, EndFacts DEF RefusalQueued, Refused
    <3> QED BY <1>5, <1>8, <2>1, <3>2, <3>4 DEF Closed, Refused, TookEnd
  <2> QED BY <1>8, <2>2, <2>3 DEF TookEnd
<1>9. CASE Waited
  BY <1>5, <1>9, ClosedKept DEF Waited
<1>10. CASE Poll
  <2>1. UNCHANGED <<open, stage, reported>>
    BY <1>10 DEF Poll, PollStep, PollAnswered, PollRefused, PollFailed
  <2>2. CASE PollAnswered
    <3>1. outbox \in Seq(Served) /\ outbox \in Seq(Served \cup Ends)
      BY DEF Types, TransportTypes
    <3>2. ToSet(outbox) \subseteq Served
      BY <3>1 DEF ToSet
    <3>3. ToSet(events \o outbox) = ToSet(events) \cup ToSet(outbox)
      BY <1>6, <3>1, Joined
    <3>4. RefusalQueued' <=> RefusalQueued
      BY <2>2, <3>2, <3>3, EndFacts DEF PollAnswered, Feed, RefusalQueued
    <3> QED BY <2>1, <2>2, <3>4 DEF PollAnswered, Closed
  <2>3. \A how \in {"gone", "forbidden", "failed"} :
          Feed(<<End(how)>>) =>
            ToSet(events') = IF open THEN ToSet(events) \cup {End(how)}
                                     ELSE ToSet(events)
    <3> SUFFICES ASSUME NEW how \in {"gone", "forbidden", "failed"},
                        Feed(<<End(how)>>), open
                 PROVE  ToSet(events') = ToSet(events) \cup {End(how)}
      BY DEF Feed
    <3> DEFINE d == End(how)
    <3>1. d \in Served \cup Ends /\ events' = events \o <<d>>
      BY DEF Ends, Feed
    <3> HIDE DEF d
    <3>2. events \o <<d>> = Append(events, d)
      BY <1>6
    <3>3. ToSet(Append(events, d)) = ToSet(events) \cup {d}
      BY <1>6, <3>1, Appended
    <3> QED BY <3>1, <3>2, <3>3 DEF d
  <2>4. CASE PollRefused
    <3>1. PICK how \in {"gone", "forbidden"} : Feed(<<End(how)>>)
      BY <2>4 DEF PollRefused
    <3>2. closed' = TRUE
      BY <2>4 DEF PollRefused
    <3>3. open => RefusalQueued'
      BY <2>3, <3>1 DEF RefusalQueued
    <3> QED BY <2>1, <3>2, <3>3 DEF Closed
  <2>5. CASE PollFailed
    <3>1. closed' = closed /\ Feed(<<End("failed")>>)
      BY <2>5 DEF PollFailed
    <3>2. ToSet(events') = IF open THEN ToSet(events) \cup {End("failed")}
                                   ELSE ToSet(events)
      BY <2>3, <3>1
    <3>3. RefusalQueued' <=> RefusalQueued
      BY <3>2, EndFacts DEF RefusalQueued
    <3> QED BY <2>1, <3>1, <3>3 DEF Closed
  <2> QED BY <1>10, <2>2, <2>4, <2>5 DEF Poll, PollStep
<1>11. CASE CloseSession
  BY <1>11 DEF CloseSession, Close, Closed
<1>12. CASE Reconnect
  <2>1. /\ events' = <<>> /\ open' = TRUE /\ closed' = FALSE
        /\ reported' = "none"
    BY <1>12 DEF Reconnect, NewTransport
  <2>2. ToSet(events') = {}
    BY <2>1, NothingQueued
  <2> QED BY <2>1, <2>2 DEF Closed, RefusalQueued
<1>13. CASE ServeReply \/ ServeTermination \/ ServeMessage
  <2>1. UNCHANGED <<open, closed, events, reported, stage>>
    BY <1>13 DEF ServeReply, ServeTermination, ServeMessage, Serve
  <2> QED BY <2>1, ClosedKept DEF Closed
<1>14. CASE UNCHANGED vars
  BY <1>14, ClosedKept DEF vars, Closed
<1> QED BY <1>1, <1>2, <1>3, <1>4, <1>7, <1>8, <1>9, <1>10, <1>11, <1>12,
           <1>13, <1>14, <1>15, Steps

---------------------------------------------------------------------------
(* Answers.                                                                *)

(* A reply is a frame of the server.                                       *)
LEMMA RepliesServed == Types => Replies \subseteq Served
<1> SUFFICES ASSUME Types PROVE Replies \subseteq Served
  OBVIOUS
<1>1. ToSet(events) \subseteq Served \cup Ends /\ ToSet(outbox) \subseteq Served
  BY DEF Types, TransportTypes, ToSet
<1>2. \A f \in Ends : f.event # "phx_reply"
  BY DEF Ends, End
<1> QED BY <1>1, <1>2 DEF Replies

(* What is no answer to a request leaves the pending table alone.          *)
LEMMA PendingKept ==
  ASSUME NEW p \in ProtocolState, NEW f, IsFrame(f),
         EventKind(p, f) \notin Waiting \cup {"InvalidReply"}
  PROVE  Receive(p, f).pending = p.pending
<1>1. EventKind(p, f) \in ReceivedKinds
  BY EventKindType
<1>2. EventKind(p, f) \in {"StaleMessage", "ChannelClosed", "ChannelError",
                           "Message", "UnmatchedReply"}
  BY <1>1 DEF ReceivedKinds, Waiting
<1>3. \A t, state : SetState(p, t, state).pending = p.pending
  BY DEF SetState, ProtocolState
<1> QED BY <1>2, <1>3 DEF Receive

(* A reply with the reference of the call under way ends it.               *)
LEMMA ReplyEndsWait ==
  ASSUME Types, Answerable, call # NoCall, NEW f \in Replies, f.ref = call.ref
  PROVE  Kind(f) \in Waiting \cup {"InvalidReply"}
<1>1. f \in Served /\ f.event = "phx_reply"
  BY RepliesServed DEF Replies
<1>2. f.topic = call.topic /\ f.join_ref = call.join_ref
  BY DEF Answerable, AnswersCall
<1>3. ~IsStale(proto, f)
  BY <1>2 DEF IsStale, Answerable, ChannelState, Absent
<1>4. Matching(proto, f) # {}
  BY DEF Matching, Answerable
<1> DEFINE e == CHOOSE e \in Matching(proto, f) : TRUE
<1>5. e.kind \in {"Join", "Leave", "Push", "Heartbeat"}
  BY <1>4, MatchedEntry DEF Types, SessionTypes, ProtocolState, PendingRecord
<1>6. Kind(f) = IF f.status = "invalid" THEN "InvalidReply"
                ELSE CASE e.kind = "Join" -> IF f.status = "ok" THEN "Joined"
                                                               ELSE "JoinError"
                       [] e.kind = "Leave" -> "Left"
                       [] e.kind = "Push"  -> "Reply"
                       [] e.kind = "Heartbeat" -> "HeartbeatAck"
  BY <1>1, <1>3, <1>4 DEF Kind, EventKind
<1> QED BY <1>5, <1>6 DEF Waiting

(* What a step takes from the queues of the connection.                    *)
LEMMA FrameReplies ==
  ASSUME Types, NEW item, TookFrame(item)
  PROVE  /\ Replies' \subseteq Replies /\ Replies \subseteq Replies' \cup {item}
         /\ item.event = "phx_reply" => item \in Replies
<1>1. events \in Seq(Served \cup Ends) /\ events # <<>> /\ item = Head(events)
  BY DEF Types, TransportTypes, TookFrame
<1>2. ToSet(events) = ToSet(Tail(events)) \cup {item}
  BY <1>1, Shifted
<1>3. events' = Tail(events) /\ outbox' = outbox
  BY FrameEffect DEF TookFrame
<1> QED BY <1>2, <1>3 DEF Replies

LEMMA UndecodedReplies ==
  ASSUME Types, NEW item, TookUndecoded(item)
  PROVE  Replies' \subseteq Replies
BY UndecodedEffect DEF Replies

LEMMA EndReplies ==
  ASSUME Types, NEW end, TookEnd(end)
  PROVE  Replies' = Replies
<1>1. outbox' = outbox /\ (events' = events
                           \/ (events' = Tail(events) /\ events # <<>>
                               /\ Head(events) \in Ends))
  BY EndFacts DEF TookEnd, Report
<1>2. CASE events' = events
  BY <1>1, <1>2 DEF Replies
<1>3. CASE events' = Tail(events) /\ events # <<>> /\ Head(events) \in Ends
  <2>1. events \in Seq(Served \cup Ends)
    BY DEF Types, TransportTypes
  <2>2. ToSet(events) = ToSet(Tail(events)) \cup {Head(events)}
    BY <1>3, <2>1, Shifted
  <2>3. Head(events).event # "phx_reply"
    BY <1>3 DEF Ends, End
  <2> QED BY <1>1, <1>3, <2>2, <2>3 DEF Replies
<1> QED BY <1>1, <1>2, <1>3

LEMMA PollReplies ==
  ASSUME Types, Poll
  PROVE  /\ Replies' \subseteq Replies
         /\ poll' = "fetching" /\ Closed => Replies' = Replies
<1>1. /\ events \in Seq(Served \cup Ends) /\ outbox \in Seq(Served \cup Ends)
      /\ outbox' = <<>> /\ ToSet(outbox') = {}
  BY NothingQueued
     DEF Types, TransportTypes, Poll, PollStep, PollAnswered, PollRefused, PollFailed
<1>2. CASE PollAnswered
  <2>1. ToSet(events \o outbox) = ToSet(events) \cup ToSet(outbox)
    BY <1>1, Joined
  <2>2. open => Replies' = Replies
    BY <1>1, <1>2, <2>1 DEF PollAnswered, Feed, Replies
  <2>3. ~open => Replies' \subseteq Replies
    BY <1>1, <1>2 DEF PollAnswered, Feed, Replies
  <2>4. poll' = "fetching" /\ Closed => open
    BY <1>2 DEF PollAnswered, Closed
  <2> QED BY <2>2, <2>3, <2>4
<1>3. CASE PollRefused \/ PollFailed
  <2>1. PICK how \in {"gone", "forbidden", "failed"} : Feed(<<End(how)>>)
    BY <1>3 DEF PollRefused, PollFailed
  <2> DEFINE d == End(how)
  <2>2. d \in Served \cup Ends /\ d.event # "phx_reply"
    BY DEF Ends, End
  <2>3. events' = events \/ events' = events \o <<d>>
    BY <2>1 DEF Feed
  <2> HIDE DEF d
  <2>4. events \o <<d>> = Append(events, d)
    BY <1>1
  <2>5. ToSet(Append(events, d)) = ToSet(events) \cup {d}
    BY <1>1, <2>2, Appended
  <2>6. ToSet(events') \subseteq ToSet(events) \cup {d}
    BY <2>3, <2>4, <2>5
  <2>7. Replies' \subseteq Replies
    BY <1>1, <2>2, <2>6 DEF Replies
  <2>8. poll' = "ended"
    BY <1>3 DEF PollRefused, PollFailed
  <2> QED BY <2>7, <2>8
<1> QED BY <1>2, <1>3 DEF Poll, PollStep

LEMMA ServeReplies ==
  ASSUME Types, NEW f \in Served, Serve(f)
  PROVE  Replies' = IF f.event = "phx_reply" THEN Replies \cup {f} ELSE Replies
<1>1. outbox \in Seq(Served)
  BY DEF Types, TransportTypes
<1>2. ToSet(outbox') = ToSet(outbox) \cup {f} /\ events' = events
  BY <1>1, Appended DEF Serve
<1> QED BY <1>2 DEF Replies

(* A step that adds no answer, and keeps the protocol and the call.        *)
LEMMA AnswerableKept ==
  ASSUME Answerable, UNCHANGED proto, call' = call \/ call' = NoCall,
         unanswered' \cup Replies' \subseteq unanswered \cup Replies
  PROVE  Answerable'
<1>1. \A r \in unanswered' \cup Replies' : r.ref <= proto'.next_reference
  BY DEF Answerable
<1>2. CASE call' = NoCall
  BY <1>1, <1>2 DEF Answerable
<1>3. CASE call' = call
  <2>1. \A r \in unanswered' \cup Replies' : call # NoCall => AnswersCall(r)
    BY DEF Answerable
  <2>2. \A r : AnswersCall(r) => AnswersCall(r)'
    BY <1>3 DEF AnswersCall
  <2> QED BY <1>1, <1>3, <2>1, <2>2 DEF Answerable
<1> QED BY <1>2, <1>3

(* A new request has a reference nothing has.                              *)
LEMMA RequestAnswerable ==
  ASSUME Types, Answerable, NEW q, NEW p, Asked(q, p), Request(q, p)
  PROVE  Answerable'
<1>1. /\ proto' = p /\ (call' = q \/ call' = NoCall)
      /\ unanswered' = unanswered /\ UNCHANGED <<events, outbox>>
  BY DEF Request, Return, serverVars, longPollVars
<1>2. Replies' = Replies
  BY <1>1 DEF Replies
<1>3. /\ proto.next_reference \in Nat /\ p.next_reference = q.ref
      /\ q.ref = proto.next_reference + 1
  BY DEF Types, SessionTypes, ProtocolState, Asked, NextRef
<1>4. \A r \in unanswered \cup Replies : r.ref \in Nat
  BY RepliesServed, Bounds DEF Types, ServerTypes, Requests, Served
<1>5. \A r \in unanswered \cup Replies : r.ref <= proto.next_reference
  BY DEF Answerable
<1>6. \A r \in unanswered \cup Replies : r.ref <= p.next_reference /\ r.ref # q.ref
  BY <1>3, <1>4, <1>5
<1>7. CASE call' = NoCall
  BY <1>1, <1>2, <1>6, <1>7 DEF Answerable
<1>8. CASE call' = q
  <2>1. \A r \in unanswered \cup Replies : AnswersCall(r)'
    BY <1>6, <1>8 DEF AnswersCall
  <2>2. q.ref <= p.next_reference
    BY <1>3
  <2>3. \E e \in p.pending : e.ref = q.ref
    BY DEF Asked
  <2>4. q.topic \in Topics => p.channels[q.topic].join_ref = q.join_ref
    BY DEF Asked
  <2> QED BY <1>1, <1>2, <1>6, <1>8, <2>1, <2>2, <2>3, <2>4 DEF Answerable
<1> QED BY <1>1, <1>7, <1>8

(* A frame that does not end the call leaves it pending and not stale.     *)
LEMMA FrameAnswerable ==
  ASSUME Types, Answerable, NEW item, TookFrame(item)
  PROVE  Answerable'
<1>1. /\ proto' = Receive(proto, item) /\ UNCHANGED unanswered
      /\ proto \in ProtocolState /\ IsFrame(item)
  BY FrameEffect, FrameFacts DEF TookFrame, serverVars, Types, SessionTypes
<1>2. /\ proto'.next_reference = proto.next_reference
      /\ \A e \in proto.pending : e.ref # item.ref => e \in proto'.pending
      /\ \A t \in Topics :
           \/ proto'.channels[t] = Absent
           \/ proto'.channels[t].join_ref = proto.channels[t].join_ref
  BY <1>1, ReceiveEffect
<1>3. \A r \in unanswered' \cup Replies' : /\ r \in unanswered \cup Replies
                                           /\ r.ref <= proto'.next_reference
  BY <1>1, <1>2, FrameReplies DEF Answerable
<1>4. CASE Returned(item)
  BY <1>3, <1>4 DEF Returned, Return, Answerable
<1>5. CASE Continued(item)
  <2>1. call # NoCall /\ call' = call
    BY <1>5 DEF Continued
  <2>2. \E e \in proto'.pending : e.ref = call.ref
    <3>1. PICK e \in proto.pending : e.ref = call.ref
      BY <2>1 DEF Answerable
    <3>2. CASE item.ref # call.ref
      BY <1>2, <3>1, <3>2
    <3>3. CASE item.ref = call.ref
      <4>1. Kind(item) \notin Waiting \cup {"InvalidReply"}
        BY <1>5, <3>3 DEF Continued
      <4>2. proto'.pending = proto.pending
        BY <1>1, <4>1, PendingKept DEF Kind
      <4> QED BY <3>1, <4>2
    <3> QED BY <3>2, <3>3
  <2>3. call.topic \in Topics =>
          \/ proto'.channels[call.topic] = Absent
          \/ proto'.channels[call.topic].join_ref = call.join_ref
    <3> SUFFICES ASSUME call.topic \in Topics,
                        proto'.channels[call.topic] # Absent
                 PROVE  proto'.channels[call.topic].join_ref = call.join_ref
      OBVIOUS
    <3>1. proto'.channels[call.topic].join_ref = proto.channels[call.topic].join_ref
      BY <1>2
    <3>2. CASE proto.channels[call.topic] # Absent
      BY <2>1, <3>1, <3>2 DEF Answerable
    <3>3. CASE proto.channels[call.topic] = Absent
      <4>1. proto'.channels[call.topic] \in ChannelRecord
        BY FrameEffect DEF ProtocolState
      <4>2. proto'.channels[call.topic].join_ref = 0
        BY <3>1, <3>3 DEF Absent
      <4> QED BY <4>1, <4>2, RecordFacts
    <3> QED BY <3>2, <3>3
  <2>4. \A r \in unanswered' \cup Replies' : AnswersCall(r)'
    BY <1>3, <2>1 DEF Answerable, AnswersCall
  <2>5. call.ref <= proto'.next_reference
    BY <1>2, <2>1 DEF Answerable
  <2> QED BY <1>3, <2>1, <2>2, <2>3, <2>4, <2>5 DEF Answerable
<1> QED BY <1>4, <1>5, FrameEffect

(* Every step keeps answers and the call they are for together.            *)
LEMMA StepAnswerable == Types /\ Answerable /\ [Next]_vars => Answerable'
<1> SUFFICES ASSUME Types, Answerable, [Next]_vars PROVE Answerable'
  OBVIOUS
<1>1. UNCHANGED <<events, outbox>> => Replies' = Replies
  BY DEF Replies
<1>2. ASSUME NEW q, NEW p, Asked(q, p), Request(q, p) PROVE Answerable'
  BY <1>2, RequestAnswerable
<1>3. ASSUME NEW t \in Topics, CallFails(t) PROVE Answerable'
  <2>1. /\ UNCHANGED <<events, outbox, unanswered>> /\ call' = call /\ call = NoCall
        /\ proto' = FailedLeave(proto)
    BY <1>3 DEF CallFails, longPollVars, serverVars, Types, SessionTypes
  <2>2. /\ proto.next_reference \in Nat
        /\ proto'.next_reference = proto.next_reference + 1
    BY <2>1 DEF FailedLeave, NextRef, ProtocolState, Types, SessionTypes
  <2>3. \A r \in unanswered \cup Replies : r.ref \in Nat
    BY RepliesServed, Bounds DEF Types, ServerTypes, Requests, Served
  <2>4. \A r \in unanswered \cup Replies : r.ref <= proto'.next_reference
    BY <2>2, <2>3 DEF Answerable
  <2> QED BY <1>1, <2>1, <2>4 DEF Answerable
<1>4. CASE PostArrives
  <2>1. /\ UNCHANGED <<events, outbox, proto, call>>
        /\ unanswered' = unanswered \cup {call} /\ call # NoCall
    BY <1>4 DEF PostArrives, longPollVars, Types, SessionTypes
  <2>2. \A r \in unanswered' \cup Replies' :
          AnswersCall(r)' /\ r.ref <= proto'.next_reference
    BY <1>1, <2>1 DEF Answerable, AnswersCall
  <2> QED BY <2>1, <2>2 DEF Answerable
<1>5. CASE PostSucceeds \/ PostFails \/ DropFuture \/ TakeBuffered \/ NextEvent
  <2>1. /\ UNCHANGED <<events, outbox, proto, unanswered>>
        /\ call' = call \/ call' = NoCall
    BY <1>5 DEF PostSucceeds, PostFails, DropFuture, TakeBuffered, NextEvent,
                Return, longPollVars, serverVars
  <2> QED BY <1>1, <2>1, AnswerableKept
<1>6. ASSUME NEW item, TookFrame(item) PROVE Answerable'
  BY <1>6, FrameAnswerable
<1>15. ASSUME NEW item, TookUndecoded(item) PROVE Answerable'
  BY <1>15, UndecodedEffect, UndecodedReplies, AnswerableKept DEF serverVars
<1>7. ASSUME NEW end, TookEnd(end) PROVE Answerable'
  BY <1>7, EndReplies, AnswerableKept DEF TookEnd, Report, Return, serverVars
<1>8. CASE Waited \/ CloseSession
  <2>1. UNCHANGED <<events, outbox, proto, unanswered, call>>
    BY <1>8 DEF Waited, CloseSession, Close, longPollVars, serverVars, sessionVars
  <2> QED BY <1>1, <2>1, AnswerableKept
<1>9. CASE Poll
  BY <1>9, PollReplies, AnswerableKept DEF Poll, serverVars, sessionVars
<1>10. CASE Reconnect
  <2>1. /\ events' = <<>> /\ outbox' = <<>> /\ unanswered' = {}
        /\ call' = NoCall
    BY <1>10 DEF Reconnect, NewTransport, Types, SessionTypes
  <2>2. Replies' = {}
    BY <2>1, NothingQueued DEF Replies
  <2> QED BY <2>1, <2>2 DEF Answerable
<1>11. CASE ServeReply
  <2>1. PICK q \in unanswered, status \in {"ok", "error", "invalid"} :
          /\ Serve(Frame("phx_reply", q.topic, q.join_ref, q.ref, status, 0))
          /\ unanswered' = unanswered \ {q}
    BY <1>11 DEF ServeReply
  <2> DEFINE f == Frame("phx_reply", q.topic, q.join_ref, q.ref, status, 0)
  <2>2. f \in Served
    BY ServedFrames DEF Types, ServerTypes
  <2>3. f.ref = q.ref /\ f.topic = q.topic /\ f.join_ref = q.join_ref
    BY DEF Frame
  <2>4. Serve(f)
    BY <2>1
  <2> HIDE DEF f
  <2>5. Replies' \subseteq Replies \cup {f}
    BY <2>2, <2>4, ServeReplies
  <2>6. UNCHANGED <<proto, call>>
    BY <2>4 DEF Serve, sessionVars
  <2>7. \A r \in unanswered' \cup Replies' :
          /\ r.ref <= proto'.next_reference
          /\ call # NoCall => AnswersCall(r)'
    BY <2>1, <2>3, <2>5, <2>6 DEF Answerable, AnswersCall
  <2> QED BY <2>6, <2>7 DEF Answerable
<1>12. CASE ServeTermination
  <2>1. PICK g \in live, t \in Topics, kind \in {"phx_close", "phx_error"} :
          /\ Serve(Frame(kind, t, g, 0, "none", 0))
          /\ unanswered' \subseteq unanswered
    BY <1>12 DEF ServeTermination
  <2> DEFINE f == Frame(kind, t, g, 0, "none", 0)
  <2>2. f \in Served /\ f.event # "phx_reply"
    BY ServedFrames DEF Types, ServerTypes, Frame
  <2>3. Serve(f)
    BY <2>1
  <2> HIDE DEF f
  <2>4. Replies' = Replies /\ UNCHANGED <<proto, call>>
    BY <2>2, <2>3, ServeReplies DEF Serve, sessionVars
  <2> QED BY <2>1, <2>4, AnswerableKept
<1>13. CASE ServeMessage
  <2>1. PICK t \in Topics : /\ sent < MaxMessages
                            /\ Serve(Frame("message", t, 0, 0, "none", sent + 1))
                            /\ UNCHANGED unanswered
    BY <1>13 DEF ServeMessage
  <2> DEFINE f == Frame("message", t, 0, 0, "none", sent + 1)
  <2>2. sent + 1 \in 1..MaxMessages
    BY <2>1, Bounds DEF Types, ServerTypes
  <2>3. f \in Served /\ f.event # "phx_reply"
    BY <2>2, ServedFrames DEF Frame
  <2>4. Serve(f)
    BY <2>1
  <2> HIDE DEF f
  <2>5. Replies' = Replies /\ UNCHANGED <<proto, call>>
    BY <2>3, <2>4, ServeReplies DEF Serve, sessionVars
  <2> QED BY <2>1, <2>5, AnswerableKept
<1>14. CASE UNCHANGED vars
  BY <1>1, <1>14, AnswerableKept DEF vars, longPollVars, serverVars, sessionVars
<1> QED BY <1>2, <1>3, <1>4, <1>5, <1>6, <1>7, <1>8, <1>9, <1>10, <1>11,
           <1>12, <1>13, <1>14, <1>15, Steps

---------------------------------------------------------------------------
(* What is owed.                                                           *)

(* A step that keeps what is owed, or that no call outlasts.               *)
LEMMA OwedKept ==
  ASSUME Owed,
         call' = NoCall \/ (/\ call' = call /\ call # NoCall
                            /\ stage \in {"posted", "receiving", "waiting"}),
         call \in unanswered => \/ call \in unanswered'
                                \/ \E f \in Replies' : f.ref = call.ref
                                \/ /\ call.kind \in {"Push", "Leave"}
                                   /\ call.join_ref \notin live',
         \/ poll' = "ended"
         \/ /\ poll' = poll
            /\ \A f \in Replies : f.ref = call.ref => f \in Replies',
         live' \subseteq live
  PROVE  Owed'
BY DEF Owed

(* Every step does.                                                        *)
LEMMA StepOwed ==
  Types /\ Closed /\ Answerable /\ Owed /\ [Next]_vars => Owed'
<1> SUFFICES ASSUME Types, Closed, Answerable, Owed, [Next]_vars PROVE Owed'
  OBVIOUS
<1>1. UNCHANGED <<events, outbox>> => Replies' = Replies
  BY DEF Replies
<1>2. stage = "idle" => call = NoCall
  BY DEF Types, SessionTypes
<1>3. ASSUME NEW q, NEW p, Request(q, p) PROVE Owed'
  BY <1>3 DEF Request, Return, Owed
<1>4. ASSUME NEW t \in Topics, CallFails(t) PROVE Owed'
  BY <1>2, <1>4 DEF CallFails, Owed
<1>5. CASE PostArrives
  BY <1>5 DEF PostArrives, Owed
<1>6. CASE PostSucceeds
  <2>1. /\ UNCHANGED <<events, outbox, poll, call, unanswered, live>>
        /\ stage = "posted"
    BY <1>6 DEF PostSucceeds, longPollVars, serverVars
  <2>2. Replies' = Replies
    BY <1>1, <2>1
  <2> QED BY <2>1, <2>2 DEF Owed
<1>7. CASE PostFails \/ DropFuture
  BY <1>7 DEF PostFails, DropFuture, Return, Owed
<1>8. CASE TakeBuffered \/ NextEvent \/ CloseSession \/ Reconnect
  BY <1>2, <1>8 DEF TakeBuffered, NextEvent, CloseSession, Reconnect,
                    sessionVars, Owed
<1>9. ASSUME NEW item, TookFrame(item) PROVE Owed'
  <2>1. CASE Returned(item)
    BY <2>1 DEF Returned, Return, Owed
  <2>2. CASE Continued(item)
    <3>1. call # NoCall /\ call' = call
      BY <2>2 DEF Continued
    <3>2. UNCHANGED <<unanswered, live, poll>> /\ Receiving
      BY <1>9 DEF TookFrame, serverVars
    <3>3. item.event = "phx_reply" => item.ref # call.ref
      <4> SUFFICES ASSUME item.event = "phx_reply", item.ref = call.ref
                   PROVE  FALSE
        OBVIOUS
      <4>1. Kind(item) \in Waiting \cup {"InvalidReply"}
        BY <1>9, <3>1, FrameReplies, ReplyEndsWait
      <4> QED BY <2>2, <4>1 DEF Continued
    <3>4. \A f \in Replies : f.ref = call.ref => f \in Replies'
      BY <1>9, <3>3, FrameReplies DEF Replies
    <3> QED BY <3>1, <3>2, <3>4, OwedKept DEF Receiving
  <2> QED BY <1>9, <2>1, <2>2, FrameEffect
<1>17. ASSUME NEW item, TookUndecoded(item) PROVE Owed'
  BY <1>17, UndecodedEffect DEF Owed
<1>10. ASSUME NEW end, TookEnd(end) PROVE Owed'
  BY <1>10 DEF TookEnd, Report, Return, Owed
<1>11. CASE Waited
  <2>1. /\ UNCHANGED <<events, outbox, poll, call, unanswered, live>>
        /\ Receiving
    BY <1>11 DEF Waited, longPollVars, serverVars
  <2>2. Replies' = Replies
    BY <1>1, <2>1
  <2> QED BY <2>1, <2>2 DEF Owed, Receiving
<1>12. CASE Poll
  <2>1. UNCHANGED <<stage, call, unanswered, live>>
    BY <1>12 DEF Poll, sessionVars, serverVars
  <2>2. poll' = "ended" \/ (poll' = "fetching" /\ Replies' = Replies)
    BY <1>12, PollReplies DEF Poll, PollStep, PollAnswered, PollRefused, PollFailed
  <2>3. poll = "fetching"
    BY <1>12 DEF Poll, PollStep, PollAnswered, PollRefused, PollFailed
  <2> QED BY <2>1, <2>2, <2>3 DEF Owed
<1>13. CASE ServeReply
  <2>1. PICK q \in unanswered, status \in {"ok", "error", "invalid"} :
          /\ Serve(Frame("phx_reply", q.topic, q.join_ref, q.ref, status, 0))
          /\ unanswered' = unanswered \ {q}
          /\ live' \subseteq live
    BY <1>13 DEF ServeReply
  <2> DEFINE f == Frame("phx_reply", q.topic, q.join_ref, q.ref, status, 0)
  <2>2. f \in Served /\ f.ref = q.ref /\ f.event = "phx_reply"
    BY ServedFrames DEF Types, ServerTypes, Frame
  <2>3. Serve(f)
    BY <2>1
  <2> HIDE DEF f
  <2>4. Replies' = Replies \cup {f} /\ UNCHANGED <<stage, call, poll>>
    BY <2>2, <2>3, ServeReplies DEF Serve, sessionVars
  <2>5. call \in unanswered => \/ call \in unanswered'
                               \/ \E r \in Replies' : r.ref = call.ref
    BY <2>1, <2>2, <2>4
  <2> QED BY <2>1, <2>4, <2>5 DEF Owed
<1>14. CASE ServeTermination
  <2>1. PICK g \in live, t \in Topics, kind \in {"phx_close", "phx_error"} :
          /\ \A q \in unanswered : q.ref # g
          /\ Serve(Frame(kind, t, g, 0, "none", 0))
          /\ live' = live \ {g}
          /\ unanswered' = {q \in unanswered : q.join_ref # g}
    BY <1>14 DEF ServeTermination
  <2> DEFINE f == Frame(kind, t, g, 0, "none", 0)
  <2>2. f \in Served /\ f.event # "phx_reply"
    BY ServedFrames DEF Types, ServerTypes, Frame
  <2>3. Serve(f)
    BY <2>1
  <2> HIDE DEF f
  <2>4. Replies' = Replies /\ UNCHANGED <<stage, call, poll>>
    BY <2>2, <2>3, ServeReplies DEF Serve, sessionVars
  <2>5. ASSUME call \in unanswered, call \notin unanswered'
        PROVE  call.kind \in {"Push", "Leave"} /\ call.join_ref \notin live'
    <3>1. call.join_ref = g /\ call.ref # g /\ g \in 1..MaxReference
      BY <2>1, <2>5 DEF Types, ServerTypes
    <3>2. call \in Requests
      BY <2>5 DEF Types, ServerTypes
    <3>3. /\ call.kind \in {"Join", "Push", "Leave", "Heartbeat"}
          /\ call.kind = "Join" => call.join_ref = call.ref
          /\ call.kind = "Heartbeat" => call.join_ref = 0
      BY <3>2 DEF Requests
    <3>4. g # 0
      BY <3>1, Bounds
    <3> QED BY <2>1, <3>1, <3>3, <3>4
  <2> QED BY <2>1, <2>4, <2>5 DEF Owed
<1>15. CASE ServeMessage
  <2>1. PICK t \in Topics : /\ sent < MaxMessages
                            /\ Serve(Frame("message", t, 0, 0, "none", sent + 1))
                            /\ UNCHANGED <<unanswered, live>>
    BY <1>15 DEF ServeMessage
  <2> DEFINE f == Frame("message", t, 0, 0, "none", sent + 1)
  <2>2. sent + 1 \in 1..MaxMessages
    BY <2>1, Bounds DEF Types, ServerTypes
  <2>3. f \in Served /\ f.event # "phx_reply"
    BY <2>2, ServedFrames DEF Frame
  <2>4. Serve(f)
    BY <2>1
  <2> HIDE DEF f
  <2>5. Replies' = Replies /\ UNCHANGED <<stage, call, poll>>
    BY <2>3, <2>4, ServeReplies DEF Serve, sessionVars
  <2> QED BY <2>1, <2>5 DEF Owed
<1>16. CASE UNCHANGED vars
  BY <1>1, <1>16 DEF vars, longPollVars, serverVars, sessionVars, Owed
<1> QED BY <1>3, <1>4, <1>5, <1>6, <1>7, <1>8, <1>9, <1>10, <1>11, <1>12,
           <1>13, <1>14, <1>15, <1>16, <1>17, Steps

---------------------------------------------------------------------------
(* The theorems.                                                           *)

(* The invariant holds at first.                                           *)
LEMMA InitialInvariant == Init => IInv
<1> SUFFICES ASSUME Init PROVE IInv
  OBVIOUS
<1>1. /\ buffered = <<>> /\ events = <<>> /\ outbox = <<>>
      /\ seen = 0 /\ lost = {} /\ sent = 0 /\ call = NoCall /\ unanswered = {}
      /\ open = TRUE /\ closed = FALSE /\ reported = "none"
  BY DEF Init, InitTransport
<1>2. Types
  BY InitialTypes
<1>3. InLine
  <2>1. /\ Line(buffered, 0, 0, lost) /\ Line(events, 0, 0, lost)
        /\ Line(outbox, 0, 0, lost)
    BY <1>1, LineOfNone
  <2>2. 0 \in 0..MaxMessages
    BY Bounds
  <2> QED BY <1>1, <2>1, <2>2 DEF InLine
<1>4. ToSet(events) = {} /\ ToSet(outbox) = {}
  BY <1>1, NothingQueued
<1>5. Closed
  BY <1>1, <1>4 DEF Closed, RefusalQueued
<1>6. Answerable
  BY <1>1, <1>4 DEF Answerable, Replies
<1>7. Owed
  BY <1>1 DEF Owed
<1> QED BY <1>2, <1>3, <1>5, <1>6, <1>7 DEF IInv

(* The invariant is inductive.                                             *)
THEOREM Inductive == Spec => []IInv
<1>1. IInv /\ [Next]_vars => IInv'
  BY StepTypes, StepLine, StepClosed, StepAnswerable, StepOwed DEF IInv
<1> QED BY <1>1, InitialInvariant, PTL DEF Spec

(* next_event returns the messages in the order the server sent them, each *)
(* once; and while the connection lives none is missing, but those whose   *)
(* frame did not decode: Session's buffer, the channel and the polling     *)
(* task together are one queue.                                            *)
THEOREM MessagesStayInOrder == Spec => []MessagesInOrder
<1>1. IInv => MessagesInOrder
  <2> SUFFICES ASSUME IInv PROVE MessagesInOrder
    OBVIOUS
  <2>1. PICK a \in 0..MaxMessages, b \in 0..MaxMessages, c \in 0..MaxMessages :
          /\ seen <= a /\ a <= b /\ b <= c /\ c <= sent
          /\ poll = "fetching" => c = sent
          /\ Line(buffered, seen, a, lost) /\ Line(events, a, b, lost)
          /\ Line(outbox, b, c, lost)
    BY DEF IInv, InLine
  <2> DEFINE S == Kept \cup (Served \cup Ends)
             unseen == buffered \o events \o outbox
  <2>2. buffered \in Seq(S) /\ events \in Seq(S) /\ outbox \in Seq(S)
    BY DEF IInv, Types, SessionTypes, TransportTypes
  <2>3. /\ seen \in Nat /\ sent \in Nat /\ a \in Nat /\ b \in Nat /\ c \in Nat
    BY DEF IInv, Types, SessionTypes, ServerTypes
  <2>4. Numbered(S)
    BY QueuesNumbered
  <2> HIDE DEF S
  <2>5. Line(buffered \o events, seen, b, lost) /\ buffered \o events \in Seq(S)
    BY <2>1, <2>2, <2>3, <2>4, LineJoined, Joined
  <2>6. seen <= b /\ seen <= c
    BY <2>1, <2>3
  <2>7. Line(unseen, seen, c, lost) /\ unseen \in Seq(S)
    BY <2>1, <2>2, <2>3, <2>4, <2>5, <2>6, LineJoined, Joined
  <2> HIDE DEF unseen
  <2>8. \A i \in DOMAIN unseen : unseen[i].number \in Nat
    <3>1. \A i \in DOMAIN unseen : unseen[i] \in S
      BY <2>7
    <3> QED BY <2>4, <3>1 DEF Numbered
  <2>9. Numbers(unseen) = ((seen + 1)..c) \ lost
    <3>1. \A n \in Numbers(unseen) : n \in ((seen + 1)..c) \ lost
      BY <2>3, <2>7, <2>8 DEF Numbers, Line
    <3>2. ASSUME NEW n \in ((seen + 1)..c) \ lost
          PROVE  n \in Numbers(unseen)
      <4>1. PICK i \in DOMAIN unseen : unseen[i].number = n
        BY <2>7 DEF Line
      <4>2. n # 0
        BY <2>3
      <4> QED BY <4>1, <4>2 DEF Numbers
    <3> QED BY <3>1, <3>2
  <2>10. \A i, j \in DOMAIN unseen :
           i < j /\ unseen[j].number > 0 => unseen[i].number < unseen[j].number
    BY <2>7 DEF Line
  <2>11. c \in seen..sent /\ (poll = "fetching" => c = sent)
    BY <2>1, <2>3, <2>6
  <2> QED BY <2>9, <2>10, <2>11 DEF MessagesInOrder, unseen
<1> QED BY <1>1, Inductive, PTL

(* wait_for_reference does not wait for a reply that cannot come: it is    *)
(* owed, or queued and will be recognised, unless the connection or the    *)
(* generation has ended.                                                   *)
THEOREM WaitingIsOwed == Spec => []WaitsAreOwed
<1>1. IInv => WaitsAreOwed
  <2> SUFFICES ASSUME IInv PROVE WaitsAreOwed
    OBVIOUS
  <2>1. Types /\ Owed
    BY DEF IInv
  <2>2. \A f \in Replies : f \in OnTheWay /\ f.event = "phx_reply"
    BY DEF Replies, OnTheWay, Message
  <2> QED BY <2>1, <2>2, TypesHold DEF WaitsAreOwed, Owed
<1> QED BY <1>1, Inductive, PTL

(* receive reports a clean end only of a transport that was closed, by the *)
(* application or by a refusal the channel still holds.                    *)
THEOREM CleanIsClosed == Spec => []CleanMeansClosed
<1>1. IInv => CleanMeansClosed
  BY DEF IInv, Closed, RefusalQueued, CleanMeansClosed
<1> QED BY <1>1, Inductive, PTL
=============================================================================
