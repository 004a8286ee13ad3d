---------------------------- MODULE DriverProofs ----------------------------
(***************************************************************************)
(* What is proved about Driver, for any requests, workloads and number of  *)
(* connections: that a response is held once until it is given, that a     *)
(* push is not sent twice, that the push buffer keeps its limits, that a   *)
(* waiting channel has its watchdog and a wanted one is on its way, that   *)
(* the visible status agrees with the protocol, and that the timeout of an *)
(* old join spares a new one.                                              *)
(***************************************************************************)
EXTENDS Driver, FiniteSetTheorems, NaturalsInduction, WellFoundedInduction, TLAPS

---------------------------------------------------------------------------
(* Queues.                                                                 *)

(* A queue with one more element at its end.                               *)
LEMMA Appended ==
  ASSUME NEW S, NEW s \in Seq(S), NEW c \in S
  PROVE  /\ Append(s, c) \in Seq(S) /\ Append(s, c) # <<>>
         /\ Len(Append(s, c)) = Len(s) + 1
         /\ ToSet(Append(s, c)) = ToSet(s) \cup {c}
         /\ IsInjective(s) /\ c \notin ToSet(s) => IsInjective(Append(s, c))
<1> DEFINE t == Append(s, c)
<1>1. /\ t \in Seq(S) /\ Len(s) \in Nat /\ t # <<>> /\ Len(t) = Len(s) + 1
      /\ DOMAIN s = 1..Len(s) /\ DOMAIN t = 1..(Len(s) + 1)
      /\ t[Len(s) + 1] = c /\ \A i \in 1..Len(s) : t[i] = s[i]
  OBVIOUS
<1>2. DOMAIN t = DOMAIN s \cup {Len(s) + 1} /\ Len(s) + 1 \notin DOMAIN s
  BY <1>1
<1> HIDE DEF t
<1> QED BY <1>1, <1>2 DEF ToSet, IsInjective, t

(* A queue whose first element is taken.                                   *)
LEMMA Shifted ==
  ASSUME NEW S, NEW s \in Seq(S), s # <<>>
  PROVE  /\ Tail(s) \in Seq(S) /\ Head(s) \in S
         /\ Len(Tail(s)) = Len(s) - 1 /\ Len(s) > 0
         /\ \A i \in 1..(Len(s) - 1) : Tail(s)[i] = s[i + 1]
         /\ Head(s) = s[1]
         /\ ToSet(s) = ToSet(Tail(s)) \cup {Head(s)}
         /\ IsInjective(s) =>
              IsInjective(Tail(s)) /\ Head(s) \notin ToSet(Tail(s))
<1> DEFINE t == Tail(s)
<1>1. /\ t \in Seq(S) /\ Len(s) \in Nat \ {0} /\ Head(s) \in S
      /\ DOMAIN s = 1..Len(s) /\ DOMAIN t = 1..(Len(s) - 1)
      /\ Len(t) = Len(s) - 1 /\ Len(s) > 0
      /\ Head(s) = s[1] /\ \A i \in 1..(Len(s) - 1) : t[i] = s[i + 1]
  OBVIOUS
<1> HIDE DEF t
<1>2. /\ 1 \in DOMAIN s
      /\ \A i \in DOMAIN s : i = 1 \/ (i - 1 \in DOMAIN t /\ t[i - 1] = s[i])
      /\ \A i \in DOMAIN t : i \in Nat /\ i + 1 \in DOMAIN s /\ t[i] = s[i + 1]
                             /\ i + 1 # 1
  BY <1>1
<1>3. ToSet(s) = ToSet(t) \cup {Head(s)}
  <2>1. ToSet(s) \subseteq ToSet(t) \cup {Head(s)}
    BY <1>1, <1>2 DEF ToSet
  <2>2. ToSet(t) \cup {Head(s)} \subseteq ToSet(s)
    BY <1>1, <1>2 DEF ToSet
  <2> QED BY <2>1, <2>2
<1>4. ASSUME IsInjective(s)
      PROVE  IsInjective(t) /\ Head(s) \notin ToSet(t)
  <2>1. ASSUME NEW i \in DOMAIN t, NEW j \in DOMAIN t, t[i] = t[j]
        PROVE  i = j
    <3>1. i + 1 = j + 1
      BY <1>2, <1>4, <2>1 DEF IsInjective
    <3> QED BY <1>2, <3>1
  <2>2. ASSUME NEW i \in DOMAIN t
        PROVE  t[i] # s[1]
    BY <1>2, <1>4 DEF IsInjective
  <2> QED BY <1>1, <2>1, <2>2 DEF ToSet, IsInjective
<1> QED BY <1>1, <1>3, <1>4 DEF t

(* One queue behind another.                                               *)
LEMMA Joined ==
  ASSUME NEW S, NEW s \in Seq(S), NEW t \in Seq(S)
  PROVE  /\ s \o t \in Seq(S) /\ Len(s \o t) = Len(s) + Len(t)
         /\ DOMAIN (s \o t) = 1..(Len(s) + Len(t))
         /\ \A i \in 1..Len(s) : (s \o t)[i] = s[i]
         /\ \A i \in 1..Len(t) : (s \o t)[Len(s) + i] = t[i]
OBVIOUS

(* A queue without the element at one position.                            *)
LEMMA Removed ==
  ASSUME NEW S, NEW s \in Seq(S), NEW k \in DOMAIN s
  PROVE  /\ RemoveAt(s, k) \in Seq(S) /\ Len(RemoveAt(s, k)) = Len(s) - 1
         /\ ToSet(RemoveAt(s, k)) \subseteq ToSet(s)
         /\ ToSet(s) \subseteq ToSet(RemoveAt(s, k)) \cup {s[k]}
         /\ IsInjective(s) =>
              IsInjective(RemoveAt(s, k)) /\ s[k] \notin ToSet(RemoveAt(s, k))
<1> DEFINE u == SubSeq(s, 1, k - 1)
           v == SubSeq(s, k + 1, Len(s))
           t == u \o v
           at(i) == IF i < k THEN i ELSE i + 1
<1>1. /\ Len(s) \in Nat /\ DOMAIN s = 1..Len(s) /\ k \in 1..Len(s)
      /\ \A i \in 1..Len(s) : s[i] \in S
  OBVIOUS
<1>2. /\ u \in Seq(S) /\ Len(u) = k - 1 /\ \A i \in 1..(k - 1) : u[i] = s[i]
  BY <1>1
<1>3. /\ v \in Seq(S) /\ Len(v) = Len(s) - k
      /\ \A i \in 1..(Len(s) - k) : v[i] = s[k + i]
  <2>1. /\ k + 1 \in Nat /\ k + 1 >= 1 /\ Len(s) - (k + 1) + 1 = Len(s) - k
        /\ \A i \in 1..(Len(s) - k) : (k + 1) + i - 1 = k + i
        /\ k <= Len(s)
    BY <1>1
  <2>2. /\ v \in Seq(S)
        /\ Len(v) = IF k + 1 <= Len(s) THEN Len(s) - (k + 1) + 1 ELSE 0
        /\ \A i \in 1..(Len(s) - (k + 1) + 1) : v[i] = s[(k + 1) + i - 1]
    BY <1>1, <2>1
  <2> HIDE DEF v
  <2>3. Len(v) = Len(s) - k
    BY <1>1, <2>1, <2>2
  <2> QED BY <2>1, <2>2, <2>3
<1> HIDE DEF u, v
<1>4. /\ t \in Seq(S) /\ Len(t) = Len(s) - 1 /\ DOMAIN t = 1..(Len(s) - 1)
      /\ \A i \in 1..(k - 1) : t[i] = u[i]
      /\ \A i \in k..(Len(s) - 1) : t[i] = v[i - (k - 1)]
  <2>1. /\ t \in Seq(S) /\ Len(t) = Len(u) + Len(v)
        /\ DOMAIN t = 1..(Len(u) + Len(v))
        /\ \A i \in 1..Len(u) : t[i] = u[i]
        /\ \A i \in 1..Len(v) : t[Len(u) + i] = v[i]
    <3>1. u \in Seq(S) /\ v \in Seq(S)
      BY <1>2, <1>3
    <3> QED BY <3>1, Joined
  <2> HIDE DEF t
  <2>2. Len(t) = Len(s) - 1
    BY <1>1, <1>2, <1>3, <2>1
  <2>3. ASSUME NEW i \in k..(Len(s) - 1)
        PROVE  t[i] = v[i - (k - 1)]
    <3>1. i - (k - 1) \in 1..Len(v) /\ Len(u) + (i - (k - 1)) = i
      BY <1>1, <1>2, <1>3
    <3> QED BY <2>1, <3>1
  <2> QED BY <1>2, <2>1, <2>2, <2>3
<1> HIDE DEF t
<1>5. \A i \in DOMAIN t : i \in Nat /\ at(i) \in DOMAIN s /\ at(i) # k
                          /\ t[i] = s[at(i)]
  <2> SUFFICES ASSUME NEW i \in DOMAIN t
               PROVE  i \in Nat /\ at(i) \in DOMAIN s /\ at(i) # k /\ t[i] = s[at(i)]
    OBVIOUS
  <2>1. CASE i < k
    BY <1>1, <1>2, <1>4, <2>1
  <2>2. CASE i >= k
    <3>1. /\ i \in k..(Len(s) - 1) /\ i - (k - 1) \in 1..(Len(s) - k)
          /\ k + (i - (k - 1)) = i + 1
      BY <1>1, <1>4, <2>2
    <3> QED BY <1>1, <1>3, <1>4, <2>2, <3>1
  <2> QED BY <1>1, <1>4, <2>1, <2>2
<1>6. \A i, j \in DOMAIN t : at(i) = at(j) => i = j
  BY <1>1, <1>4
<1>7. \A j \in DOMAIN s : j # k => \E i \in DOMAIN t : at(i) = j
  <2> SUFFICES ASSUME NEW j \in DOMAIN s, j # k
               PROVE  \E i \in DOMAIN t : at(i) = j
    OBVIOUS
  <2>1. CASE j < k
    BY <1>1, <1>4, <2>1
  <2>2. CASE j > k
    <3>1. j - 1 \in DOMAIN t /\ at(j - 1) = j
      BY <1>1, <1>4, <2>2
    <3> QED BY <3>1
  <2> QED BY <1>1, <2>1, <2>2
<1> HIDE DEF at
<1>8. ToSet(t) \subseteq ToSet(s) /\ ToSet(s) \subseteq ToSet(t) \cup {s[k]}
  <2>1. ToSet(t) \subseteq ToSet(s)
    BY <1>5 DEF ToSet
  <2>2. \A j \in DOMAIN s : s[j] \in ToSet(t) \cup {s[k]}
    BY <1>5, <1>7 DEF ToSet
  <2> QED BY <2>1, <2>2 DEF ToSet
<1>9. IsInjective(s) => IsInjective(t) /\ s[k] \notin ToSet(t)
  BY <1>5, <1>6 DEF IsInjective, ToSet
<1>10. t = RemoveAt(s, k)
  BY DEF t, u, v, RemoveAt
<1> QED BY <1>4, <1>8, <1>9, <1>10

(* An empty queue.                                                         *)
LEMMA NothingQueued ==
  ASSUME NEW S
  PROVE  <<>> \in Seq(S) /\ ToSet(<<>>) = {} /\ IsInjective(<<>>) /\ Len(<<>>) = 0
BY DEF ToSet, IsInjective

---------------------------------------------------------------------------
(* Induction: a set with 0 and all successors has all numbers.             *)

Less == {pair \in Nat \X Nat : pair[1] < pair[2]}

(* Induction over the numbers, with a set for the predicate.               *)
LEMMA Induction ==
  ASSUME NEW S, 0 \in S, \A n \in S \cap Nat : n + 1 \in S
  PROVE  Nat \subseteq S
<1> DEFINE T == Nat \ S
<1> SUFFICES ASSUME T # {}
             PROVE  FALSE
  OBVIOUS
<1>1. T \subseteq Nat
  OBVIOUS
<1>2. IsWellFoundedOn(Less, Nat)
  BY NatLessThanWellFounded DEF OpToRel, Less
<1> HIDE DEF T
<1>3. \E x \in T : \A y \in T : ~(<<y, x>> \in Less)
  BY <1>1, <1>2, WFMin
<1>4. PICK x \in T : \A y \in T : ~(y < x)
  BY <1>1, <1>3 DEF Less
<1>5. x \in Nat /\ x \notin S /\ x # 0
  BY <1>4 DEF T
<1>6. x - 1 \in Nat /\ x - 1 < x /\ (x - 1) + 1 = x
  BY <1>5
<1>7. x - 1 \in S
  BY <1>4, <1>6 DEF T
<1> QED BY <1>5, <1>6, <1>7

(* The steps of a flush, from the first to the last.                       *)
FlushSteps(e, d, n, ok) ==
  /\ e[0] = d /\ e[n] = Flush(d, n, ok)
  /\ \A k \in 1..n : e[k] = SendPush([e[k - 1] EXCEPT !.queued = Tail(@)],
                                     d.queued[k], ok \/ k < n)

(* A flush, a recursive function, is a sequence of single pushes.          *)
LEMMA FlushHasSteps ==
  ASSUME NEW d, NEW n \in Nat, NEW ok
  PROVE  \E e : FlushSteps(e, d, n, ok)
<1> DEFINE Step(e, k) == SendPush([e EXCEPT !.queued = Tail(@)],
                                  d.queued[k], ok \/ k < n)
           Run(e, m) == e = [k \in 0..m |-> IF k = 0 THEN d ELSE Step(e[k - 1], k)]
           S == {m \in Nat : \E e : Run(e, m)}
<1>1. 0 \in S
  <2>1. Run([k \in 0..0 |-> d], 0)
    OBVIOUS
  <2> QED BY <2>1
<1>2. ASSUME NEW m \in S
      PROVE  m + 1 \in S
  <2> PICK e : Run(e, m)
    OBVIOUS
  <2> DEFINE f == [k \in 0..(m + 1) |-> IF k = m + 1 THEN Step(e[m], m + 1) ELSE e[k]]
  <2> HIDE DEF Step
  <2>1. \A k \in 0..(m + 1) : f[k] = IF k = 0 THEN d ELSE Step(f[k - 1], k)
    OBVIOUS
  <2> HIDE DEF f
  <2>2. f = [k \in 0..(m + 1) |-> f[k]]
    BY DEF f
  <2>3. Run(f, m + 1)
    BY <2>1, <2>2
  <2> QED BY <2>3
<1>3. n \in S
  BY <1>1, <1>2, Induction
<1> DEFINE e == CHOOSE e : Run(e, n)
<1>4. Run(e, n)
  BY <1>3
<1>5. e[n] = Flush(d, n, ok)
  BY DEF Flush
<1> HIDE DEF e, Step
<1>6. e[0] = d /\ \A k \in 1..n : e[k] = Step(e[k - 1], k)
  BY <1>4
<1> QED BY <1>5, <1>6 DEF Step, FlushSteps

---------------------------------------------------------------------------
(* The calls of protocol.rs, as ProtocolProofs has them, for one topic.    *)

Chan(p) == p.channels[Topic]

Active == {"Joining", "Joined", "Leaving"}

(* Requests of the topic only; at most one of them is no push, and it says *)
(* what the channel waits for, or did when it closed or failed.            *)
Tidy(p) ==
  /\ \A e \in p.pending : e.topic = Topic
  /\ \A e \in p.pending :
       /\ e.kind \in {"Join", "Leave", "Push"}
       /\ e.kind = "Join"  => /\ Chan(p).state \in {"Joining", "Closed", "Errored"}
                              /\ e.ref = Chan(p).join_ref
       /\ e.kind = "Leave" => Chan(p).state \in {"Leaving", "Closed", "Errored"}
  /\ \A e, f \in p.pending : e.kind # "Push" /\ f.kind # "Push" => e = f

(* A protocol state has a channel and a counter.                           *)
LEMMA ProtoFacts ==
  ASSUME NEW p \in P!ProtocolState
  PROVE  /\ p.next_reference \in Nat
         /\ P!NextRef(p) \in Nat \ {0} /\ P!NextRef(p) > p.next_reference
         /\ P!NextRef(p) = p.next_reference + 1
         /\ Chan(p).join_ref \in Nat
         /\ Chan(p).state \in {"Absent", "Closed", "Errored", "Disconnected"}
                                \cup Active
         /\ Chan(p).state = "Absent" <=> Chan(p) = P!Absent
         /\ Chan(p).state = "Absent" <=> Chan(p).join_ref = 0
         /\ P!ChannelState(p, Topic) = Chan(p).state
BY DEF P!ProtocolState, P!ChannelRecord, P!Absent, P!ActiveStates, Active,
       P!InactiveStates, P!NextRef, Chan, P!ChannelState

(* A new pending request, with a new state of its channel.                 *)
LEMMA TrackEffect ==
  ASSUME NEW p \in P!ProtocolState, NEW kind \in {"Join", "Leave", "Push"},
         NEW c \in P!ChannelRecord
  PROVE  LET q == P!Track(p, kind, Topic, c)
         IN  /\ q \in P!ProtocolState /\ Chan(q) = c
             /\ q.next_reference = P!NextRef(p)
             /\ q.pending = p.pending \cup {P!Pending(kind, Topic, P!NextRef(p))}
BY DEF P!Track, P!ProtocolState, P!PendingRecord, P!Pending, P!NextRef, Chan

(* discard_channel                                                         *)
LEMMA DiscardEffect ==
  ASSUME NEW p \in P!ProtocolState, Tidy(p)
  PROVE  LET q == P!Discard(p, Topic)
         IN  /\ q \in P!ProtocolState /\ Chan(q) = P!Absent /\ Tidy(q)
             /\ q.next_reference = p.next_reference /\ q.pending = {}
BY DEF P!Discard, P!ProtocolState, P!ChannelRecord, Chan, Tidy

(* join or rejoin of a channel that is not active                          *)
LEMMA RejoinEffect ==
  ASSUME NEW p \in P!ProtocolState, Tidy(p), Chan(p).state \notin Active
  PROVE  LET q == P!Rejoin(p, Topic)
         IN  /\ q \in P!ProtocolState /\ Tidy(q)
             /\ Chan(q) = [state |-> "Joining", join_ref |-> P!NextRef(p)]
             /\ q.next_reference = P!NextRef(p)
             /\ \A e \in q.pending : e \in p.pending \/
                                    (e.kind = "Join" /\ e.ref = P!NextRef(p))
<1> DEFINE c == [state |-> "Joining", join_ref |-> P!NextRef(p)]
           r == IF P!ChannelState(p, Topic) \in P!InactiveStates
                  THEN P!Discard(p, Topic) ELSE p
<1>1. /\ r \in P!ProtocolState /\ r.next_reference = p.next_reference
      /\ r.pending \subseteq p.pending
      /\ \A e \in r.pending : e.kind = "Push" /\ e.topic = Topic
  <2>1. CASE P!ChannelState(p, Topic) \in P!InactiveStates
    BY <2>1, DiscardEffect
  <2>2. CASE P!ChannelState(p, Topic) \notin P!InactiveStates
    <3>1. Chan(p).state = "Absent"
      BY <2>2, ProtoFacts DEF P!InactiveStates
    <3> QED BY <2>2, <3>1 DEF Tidy
  <2> QED BY <2>1, <2>2
<1>2. P!Rejoin(p, Topic) = P!Track(r, "Join", Topic, c) /\ P!NextRef(r) = P!NextRef(p)
  BY <1>1 DEF P!Rejoin, P!Join, P!NextRef
<1>3. c \in P!ChannelRecord /\ c.state = "Joining"
              /\ c.join_ref = P!NextRef(p)
  BY ProtoFacts DEF P!ChannelRecord, P!ActiveStates
<1> HIDE DEF r, c
<1> DEFINE q == P!Track(r, "Join", Topic, c)
<1>4. /\ q \in P!ProtocolState /\ Chan(q) = c /\ q.next_reference = P!NextRef(p)
      /\ q.pending = r.pending \cup {P!Pending("Join", Topic, P!NextRef(p))}
  BY <1>1, <1>2, <1>3, TrackEffect
<1> HIDE DEF q
<1>5. Tidy(q)
  BY <1>1, <1>3, <1>4 DEF Tidy, P!Pending
<1> QED BY <1>1, <1>2, <1>4, <1>5 DEF c, q, P!Pending

(* leave of a joined channel                                               *)
LEMMA LeaveEffect ==
  ASSUME NEW p \in P!ProtocolState, Tidy(p), Chan(p).state = "Joined"
  PROVE  LET q == P!Leave(p, Topic)
         IN  /\ q \in P!ProtocolState /\ Tidy(q)
             /\ Chan(q) = [state |-> "Leaving", join_ref |-> Chan(p).join_ref]
             /\ q.next_reference = P!NextRef(p)
             /\ \A e \in q.pending : e \in p.pending \/
                                    (e.kind = "Leave" /\ e.ref = P!NextRef(p))
<1> DEFINE c == [Chan(p) EXCEPT !.state = "Leaving"]
           q == P!Track(p, "Leave", Topic, c)
<1>1. c \in P!ChannelRecord
      /\ c = [state |-> "Leaving", join_ref |-> Chan(p).join_ref]
  BY DEF P!ProtocolState, P!ChannelRecord, Chan, P!ActiveStates, P!Absent
<1>2. P!Leave(p, Topic) = q
  BY DEF P!Leave, Chan
<1> HIDE DEF c
<1>3. /\ q \in P!ProtocolState /\ Chan(q) = c /\ q.next_reference = P!NextRef(p)
      /\ q.pending = p.pending \cup {P!Pending("Leave", Topic, P!NextRef(p))}
  BY <1>1, TrackEffect
<1> HIDE DEF q
<1>4. Tidy(q)
  BY <1>1, <1>3 DEF Tidy, P!Pending
<1> QED BY <1>1, <1>2, <1>3, <1>4 DEF P!Pending

(* push on a joined channel                                                *)
LEMMA PushEffect ==
  ASSUME NEW p \in P!ProtocolState, Tidy(p)
  PROVE  LET q == P!Push(p, Topic)
         IN  /\ q \in P!ProtocolState /\ Tidy(q) /\ Chan(q) = Chan(p)
             /\ q.next_reference = P!NextRef(p)
             /\ q.pending = p.pending \cup {P!Pending("Push", Topic, P!NextRef(p))}
<1> DEFINE q == P!Track(p, "Push", Topic, Chan(p))
<1>1. Chan(p) \in P!ChannelRecord /\ P!Push(p, Topic) = q
  BY DEF P!ProtocolState, Chan, P!Push
<1>2. /\ q \in P!ProtocolState /\ Chan(q) = Chan(p)
      /\ q.next_reference = P!NextRef(p)
      /\ q.pending = p.pending \cup {P!Pending("Push", Topic, P!NextRef(p))}
  BY <1>1, TrackEffect
<1> HIDE DEF q
<1>3. Tidy(q)
  BY <1>2 DEF Tidy, P!Pending
<1> QED BY <1>1, <1>2, <1>3

(* forget_push                                                             *)
LEMMA ForgetEffect ==
  ASSUME NEW p \in P!ProtocolState, Tidy(p), NEW r
  PROVE  LET q == P!Forget(p, "Push", r)
         IN  /\ q \in P!ProtocolState /\ Tidy(q) /\ Chan(q) = Chan(p)
             /\ q.next_reference = p.next_reference
             /\ \A e \in q.pending : e \in p.pending /\ (e.kind = "Push" => e.ref # r)
BY DEF P!Forget, P!ProtocolState, Tidy, Chan

(* reset_connection                                                        *)
LEMMA ResetEffect ==
  ASSUME NEW p \in P!ProtocolState
  PROVE  LET q == P!ResetConnection(p)
         IN  /\ q \in P!ProtocolState /\ Tidy(q)
             /\ Chan(q).state = IF Chan(p).state = "Absent" THEN "Absent"
                                                            ELSE "Disconnected"
             /\ Chan(q).join_ref = Chan(p).join_ref
             /\ q.next_reference = p.next_reference /\ q.pending = {}
<1> DEFINE c == IF Chan(p).state = "Absent" THEN Chan(p)
                ELSE [Chan(p) EXCEPT !.state = "Disconnected"]
           q == P!ResetConnection(p)
<1>1. c \in P!ChannelRecord /\ c.join_ref = Chan(p).join_ref
      /\ c.state = IF Chan(p).state = "Absent" THEN "Absent" ELSE "Disconnected"
  BY DEF P!ProtocolState, P!ChannelRecord, Chan, P!ActiveStates, P!Absent,
         P!InactiveStates
<1>2. q = [p EXCEPT !.pending = {}, !.channels = [t \in {Topic} |-> c]]
  BY DEF P!ResetConnection, Chan
<1> HIDE DEF c, q
<1>3. q \in P!ProtocolState /\ q.next_reference = p.next_reference
      /\ q.pending = {} /\ Chan(q) = c
  BY <1>1, <1>2 DEF P!ProtocolState, Chan
<1> QED BY <1>1, <1>3 DEF Tidy, q

(* The transition of the channel, if the topic is known.                   *)
LEMMA SetStateEffect ==
  ASSUME NEW p \in P!ProtocolState, NEW state \in {"Closed", "Errored", "Joined"}
  PROVE  LET q == P!SetState(p, Topic, state)
         IN  /\ q \in P!ProtocolState
             /\ q.next_reference = p.next_reference /\ q.pending = p.pending
             /\ Chan(q).join_ref = Chan(p).join_ref
             /\ Chan(q).state = IF Chan(p).state = "Absent" THEN "Absent" ELSE state
<1> DEFINE c == [Chan(p) EXCEPT !.state = state]
<1>1. CASE Chan(p).state = "Absent"
  BY <1>1 DEF P!SetState, P!ChannelState, Chan
<1>2. CASE Chan(p).state # "Absent"
  <2>1. c \in P!ChannelRecord /\ c.state = state /\ c.join_ref = Chan(p).join_ref
    BY <1>2 DEF P!ProtocolState, P!ChannelRecord, Chan, P!ActiveStates, P!Absent,
                P!InactiveStates
  <2>2. P!SetState(p, Topic, state) = [p EXCEPT !.channels[Topic] = c]
    BY <1>2 DEF P!SetState, P!ChannelState, Chan, P!ProtocolState
  <2> HIDE DEF c
  <2> QED BY <1>2, <2>1, <2>2 DEF P!ProtocolState, Chan
<1> QED BY <1>1, <1>2

(* What `receive` makes of a reply, a close or an error of the topic.      *)
LEMMA ReceiveEffect ==
  ASSUME NEW p \in P!ProtocolState, Tidy(p), NEW f, f.topic = Topic,
         f.event \in {"phx_reply", "phx_close", "phx_error"}
  PROVE  LET q == P!Receive(p, f)
             kind == P!EventKind(p, f)
             Left(state) == Chan(q).state =
                              IF Chan(p).state = "Absent" THEN "Absent" ELSE state
         IN  /\ q \in P!ProtocolState /\ Tidy(q)
             /\ q.next_reference = p.next_reference
             /\ q.pending \subseteq p.pending
             /\ \/ Chan(q).join_ref = Chan(p).join_ref
                \/ kind = "Left"
             /\ kind \in {"Joined", "JoinError", "Left", "Reply", "InvalidReply",
                          "ChannelClosed", "ChannelError", "StaleMessage",
                          "UnmatchedReply"}
             /\ kind = "Joined" => f.event = "phx_reply" /\ Chan(q).state = "Joined"
             /\ kind = "JoinError" => Chan(q).state = "Errored"
             /\ kind = "Left" => Chan(q) = P!Absent
             /\ kind \in {"Reply", "InvalidReply"} => Chan(q) = Chan(p)
             /\ kind = "Reply" => \A e \in q.pending : e.ref # f.ref
             /\ kind = "ChannelClosed" => Left("Closed")
             /\ kind = "ChannelError" => Left("Errored")
             /\ kind \in {"StaleMessage", "UnmatchedReply"} => q = p
             /\ kind # "StaleMessage" =>
                  \/ Chan(p).state = "Absent" \/ f.join_ref = 0
                  \/ f.join_ref = Chan(p).join_ref
             /\ kind \in {"Joined", "JoinError", "Left", "Reply", "InvalidReply"} =>
                  \E e \in p.pending :
                    /\ e.ref = f.ref /\ f.event = "phx_reply"
                    /\ kind \in {"Joined", "JoinError"} => e.kind = "Join"
                    /\ kind = "Left" => e.kind = "Leave"
                    /\ kind = "Reply" => e.kind = "Push"
             /\ kind \in {"ChannelClosed", "ChannelError"} =>
                  f.event # "phx_reply"
<1> DEFINE q == P!Receive(p, f)
           kind == P!EventKind(p, f)
           e == CHOOSE e \in P!Matching(p, f) : TRUE
           taken == P!Take(p, f)
<1>1. /\ taken \in P!ProtocolState /\ Chan(taken) = Chan(p)
      /\ taken.next_reference = p.next_reference
      /\ taken.pending = {g \in p.pending : g.ref # f.ref}
  BY DEF P!Take, P!Matching, P!ProtocolState, Chan
<1>2. Tidy(taken)
  BY <1>1 DEF Tidy
<1> HIDE DEF taken
<1>8. ~P!IsStale(p, f) =>
        \/ Chan(p).state = "Absent" \/ f.join_ref = 0
        \/ f.join_ref = Chan(p).join_ref
  BY DEF P!IsStale, P!ChannelState, Chan
<1>3. CASE P!IsStale(p, f)
  <2>1. kind = "StaleMessage" /\ q = p
    BY <1>3 DEF P!EventKind, P!Receive
  <2> QED BY <2>1
<1>4. CASE ~P!IsStale(p, f) /\ f.event = "phx_close"
  <2>1. kind = "ChannelClosed" /\ q = P!SetState(p, Topic, "Closed")
    BY <1>4 DEF P!EventKind, P!Receive
  <2> HIDE DEF q, kind
  <2>2. /\ q \in P!ProtocolState
        /\ q.next_reference = p.next_reference /\ q.pending = p.pending
        /\ Chan(q).join_ref = Chan(p).join_ref
        /\ Chan(q).state = IF Chan(p).state = "Absent" THEN "Absent" ELSE "Closed"
    BY <2>1, SetStateEffect
  <2>3. Tidy(q)
    BY <2>2 DEF Tidy
  <2> QED BY <1>4, <1>8, <2>1, <2>2, <2>3 DEF q, kind
<1>5. CASE ~P!IsStale(p, f) /\ f.event = "phx_error"
  <2>1. kind = "ChannelError" /\ q = P!SetState(p, Topic, "Errored")
    BY <1>5 DEF P!EventKind, P!Receive
  <2> HIDE DEF q, kind
  <2>2. /\ q \in P!ProtocolState
        /\ q.next_reference = p.next_reference /\ q.pending = p.pending
        /\ Chan(q).join_ref = Chan(p).join_ref
        /\ Chan(q).state = IF Chan(p).state = "Absent" THEN "Absent" ELSE "Errored"
    BY <2>1, SetStateEffect
  <2>3. Tidy(q)
    BY <2>2 DEF Tidy
  <2> QED BY <1>5, <1>8, <2>1, <2>2, <2>3 DEF q, kind
<1>6. CASE ~P!IsStale(p, f) /\ f.event = "phx_reply" /\ P!Matching(p, f) = {}
  <2>1. kind = "UnmatchedReply" /\ q = p
    BY <1>6 DEF P!EventKind, P!Receive
  <2> QED BY <1>8, <1>6, <2>1
<1>7. CASE ~P!IsStale(p, f) /\ f.event = "phx_reply" /\ P!Matching(p, f) # {}
  <2>1. e \in p.pending /\ e.ref = f.ref /\ e.topic = Topic
        /\ e.kind \in {"Join", "Leave", "Push"}
    BY <1>7 DEF P!Matching, Tidy
  <2>2. /\ kind \in {"InvalidReply", "Joined", "JoinError", "Left", "Reply"}
        /\ kind \in {"Joined", "JoinError"} => e.kind = "Join"
        /\ kind = "Left" => e.kind = "Leave"
        /\ kind = "Reply" => e.kind = "Push"
    BY <1>7, <2>1 DEF P!EventKind
  <2>3. q = CASE kind = "Joined"    -> P!SetState(taken, Topic, "Joined")
              [] kind = "JoinError" -> P!SetState(taken, Topic, "Errored")
              [] kind = "Left"      -> P!RemoveLeft(taken, Topic, f)
              [] OTHER              -> taken
    BY <2>1, <2>2 DEF P!Receive, taken
  <2> HIDE DEF q, kind, e
  <2>4. \A g \in taken.pending : e.kind # "Push" => g.kind = "Push"
    BY <1>1, <2>1 DEF Tidy
  <2>5. CASE kind \in {"Joined", "JoinError"}
    <3>1. Chan(p).state \in {"Joining", "Closed", "Errored"}
      BY <2>1, <2>2, <2>5 DEF Tidy
    <3>2. /\ q \in P!ProtocolState
          /\ q.next_reference = p.next_reference /\ q.pending = taken.pending
          /\ Chan(q).join_ref = Chan(p).join_ref
          /\ Chan(q).state = IF kind = "Joined" THEN "Joined" ELSE "Errored"
      BY <1>1, <2>3, <2>5, <3>1, SetStateEffect
    <3>3. Tidy(q)
      BY <1>2, <2>2, <2>4, <2>5, <3>2 DEF Tidy
    <3> QED BY <1>8, <1>1, <1>7, <2>1, <2>2, <2>5, <3>2, <3>3 DEF q, kind
  <2>6. CASE kind = "Left"
    <3>1. q = [taken EXCEPT !.channels[Topic] = P!Absent]
      BY <2>3, <2>6 DEF P!RemoveLeft
    <3>2. /\ q \in P!ProtocolState /\ Chan(q) = P!Absent
          /\ q.next_reference = p.next_reference /\ q.pending = taken.pending
      BY <1>1, <3>1 DEF P!ProtocolState, P!ChannelRecord, Chan
    <3>3. Tidy(q)
      BY <1>2, <2>2, <2>4, <2>6, <3>2 DEF Tidy
    <3> QED BY <1>8, <1>1, <1>7, <2>1, <2>2, <2>6, <3>2, <3>3 DEF q, kind
  <2>7. CASE kind \in {"InvalidReply", "Reply"}
    BY <1>8, <1>1, <1>2, <1>7, <2>1, <2>2, <2>3, <2>7 DEF q, kind
  <2> QED BY <2>2, <2>5, <2>6, <2>7
<1> QED BY <1>3, <1>4, <1>5, <1>6, <1>7

---------------------------------------------------------------------------
(***************************************************************************)
(* The driver state.  `Steady` holds after each of the operators a handler *)
(* is composed of; W are the requests the server owes besides those the    *)
(* handler has just sent.                                                  *)
(***************************************************************************)
Statuses == {"WaitingForSocket", "WaitingToJoin", "Joining", "Joined",
             "Leaving", "Left", "Errored", "Closed"}

Answers == {"none", "ok", "failed", "interrupted"}

Drivers ==
  [proto : P!ProtocolState,
   registered : BOOLEAN, desired : BOOLEAN, ever_joined : BOOLEAN,
   active_payload : Nat, rejoin_scheduled : BOOLEAN,
   join_waiters : SUBSET Joins, queued : Seq(Pushes),
   deferred_leave : [id : Leaves, open : BOOLEAN] \cup {NoLeave},
   status : Statuses,
   pending_joins : SUBSET Nat, pending_calls : SUBSET [ref : Nat, id : Calls],
   pending_leaves : SUBSET [ref : Nat, id : Leaves, open : BOOLEAN],
   loads : SUBSET Nat, rejoins : Nat,
   op_timeouts : SUBSET [kind : {"Join", "Leave"}, ref : Nat],
   capacity : Nat, answer : [Ids -> Answers],
   wire : SUBSET [kind : {"Join", "Leave", "Push", "Cast"}, ref : Nat,
                  join_ref : Nat],
   sent : Seq(Pushes)]

Fields == {"proto", "registered", "desired", "ever_joined", "active_payload",
           "rejoin_scheduled", "join_waiters", "queued", "deferred_leave",
           "status", "pending_joins", "pending_calls", "pending_leaves",
           "loads", "rejoins", "op_timeouts", "capacity", "answer", "wire",
           "sent"}

(* Two driver states that differ in some fields only.                      *)
Alike(d, e, names) == \A f \in Fields \ names : e[f] = d[f]

(* References in use were allocated.                                       *)
Numbered(d) ==
  LET Given == 1..d.proto.next_reference
  IN  /\ JoinRef(d) <= d.proto.next_reference
      /\ \A e \in d.proto.pending : e.ref \in Given
      /\ d.pending_joins \subseteq Given
      /\ \A call \in d.pending_calls : call.ref \in Given
      /\ \A pending \in d.pending_leaves : pending.ref \in Given
      /\ \A timeout \in d.op_timeouts : timeout.ref \in Given

(* The record waits for a load and a timer that are there, and for no load *)
(* while the channel is active.                                            *)
Timed(d) ==
  /\ IsFiniteSet(d.loads) /\ 0 \notin d.loads
  /\ d.active_payload \in d.loads \cup {0}
  /\ d.active_payload # 0 => Chan(d.proto).state \notin Active
  /\ d.rejoin_scheduled => d.rejoins > 0

(* A topic without a record is unknown to the protocol as well.            *)
Unrecorded(d) ==
  ~d.registered =>
    /\ ~d.desired /\ ~d.ever_joined /\ d.active_payload = 0
    /\ ~d.rejoin_scheduled /\ d.join_waiters = {} /\ d.queued = <<>>
    /\ d.deferred_leave = NoLeave /\ d.status = "Closed"
    /\ Chan(d.proto) = P!Absent /\ d.proto.pending = {}

(* WaitingHasWatchdog, for any driver state.                               *)
Watched(d) ==
  /\ Chan(d.proto).state = "Joining" =>
       /\ JoinRef(d) \in d.pending_joins
       /\ [kind |-> "Join", ref |-> JoinRef(d)] \in d.op_timeouts
  /\ Chan(d.proto).state = "Leaving" =>
       \E pending \in d.pending_leaves :
         /\ pending.ref > JoinRef(d)
         /\ [kind |-> "Leave", ref |-> pending.ref] \in d.op_timeouts

(* TrackedPushesHaveCallers, for any driver state.                         *)
Tracked(d) ==
  \A e \in d.proto.pending :
    e.kind = "Push" => \E call \in d.pending_calls : call.ref = e.ref

(* A request q on the wire is what the protocol has pending under its      *)
(* reference; a join of the present generation is the one it waits for.    *)
(* Kind "Left" is the close the server owes a generation that was left.    *)
Sent(d, q) ==
  /\ IF q.kind = "Left" THEN q.ref = 0 ELSE q.ref \in 1..d.proto.next_reference
  /\ q.join_ref \in 1..d.proto.next_reference
  /\ q.kind = "Join" => q.join_ref = q.ref
  /\ q.kind = "Join" /\ q.ref = JoinRef(d) => Chan(d.proto).state = "Joining"
  /\ q.kind \in {"Leave", "Left"} /\ q.join_ref = JoinRef(d) =>
       Chan(d.proto).state # "Joining"
  /\ \A e \in d.proto.pending : e.ref = q.ref => e.kind = q.kind

Owing(d, W) == \A q \in d.wire \cup W : q.kind # "Cast" => Sent(d, q)

Steady(d, W) ==
  /\ d \in Drivers /\ Tidy(d.proto) /\ Numbered(d) /\ Timed(d)
  /\ Unrecorded(d) /\ Watched(d) /\ Tracked(d) /\ Owing(d, W)

(* What the application sees and the record wants.                         *)
Soft == {"answer", "capacity", "sent", "status", "desired", "ever_joined",
         "active_payload", "rejoin_scheduled", "rejoins", "loads",
         "join_waiters", "queued", "deferred_leave", "registered"}

(* What leaves the protocol and its tables alone keeps what was true of    *)
(* them.                                                                   *)
LEMMA SoftSteady ==
  ASSUME NEW W, NEW d, NEW e, Steady(d, W), e \in Drivers,
         Alike(d, e, Soft), Timed(e), Unrecorded(e)
  PROVE  Steady(e, W)
<1>1. /\ e.proto = d.proto /\ e.pending_joins = d.pending_joins
      /\ e.pending_calls = d.pending_calls
      /\ e.pending_leaves = d.pending_leaves
      /\ e.op_timeouts = d.op_timeouts /\ e.wire = d.wire
  BY DEF Alike, Fields, Soft
<1>2. Numbered(e) /\ Watched(e) /\ Tracked(e)
  BY <1>1 DEF Steady, Numbered, Watched, Tracked, JoinRef
<1>3. Owing(e, W)
  BY <1>1 DEF Steady, Owing, Sent, JoinRef
<1> QED BY <1>1, <1>2, <1>3 DEF Steady

(* Fewer differences are differences.                                      *)
LEMMA AlikeThen ==
  ASSUME NEW d, NEW c, NEW e, NEW S, NEW T, Alike(d, c, S), Alike(c, e, T)
  PROVE  Alike(d, e, S \cup T)
BY DEF Alike

(* The fields of two driver states that are alike.                         *)
LEMMA AlikeFields ==
  ASSUME NEW d, NEW e, NEW S, Alike(d, e, S)
  PROVE  /\ "proto" \notin S => e.proto = d.proto
         /\ "registered" \notin S => e.registered = d.registered
         /\ "desired" \notin S => e.desired = d.desired
         /\ "ever_joined" \notin S => e.ever_joined = d.ever_joined
         /\ "active_payload" \notin S => e.active_payload = d.active_payload
         /\ "rejoin_scheduled" \notin S => e.rejoin_scheduled = d.rejoin_scheduled
         /\ "join_waiters" \notin S => e.join_waiters = d.join_waiters
         /\ "queued" \notin S => e.queued = d.queued
         /\ "deferred_leave" \notin S => e.deferred_leave = d.deferred_leave
         /\ "status" \notin S => e.status = d.status
         /\ "pending_joins" \notin S => e.pending_joins = d.pending_joins
         /\ "pending_calls" \notin S => e.pending_calls = d.pending_calls
         /\ "pending_leaves" \notin S => e.pending_leaves = d.pending_leaves
         /\ "loads" \notin S => e.loads = d.loads
         /\ "rejoins" \notin S => e.rejoins = d.rejoins
         /\ "op_timeouts" \notin S => e.op_timeouts = d.op_timeouts
         /\ "capacity" \notin S => e.capacity = d.capacity
         /\ "answer" \notin S => e.answer = d.answer
         /\ "wire" \notin S => e.wire = d.wire
         /\ "sent" \notin S => e.sent = d.sent
BY DEF Alike, Fields

---------------------------------------------------------------------------
(***************************************************************************)
(* Where a response is held.                                               *)
(***************************************************************************)
Has(d, i) ==
  \/ i \in d.join_waiters
  \/ i \in ToSet(d.queued)
  \/ \E call \in d.pending_calls : call.id = i
  \/ d.deferred_leave.open /\ d.deferred_leave.id = i
  \/ \E pending \in d.pending_leaves : pending.open /\ pending.id = i

(* It is held once, and not answered; a push is sent once, and not before  *)
(* it leaves the push buffer.                                              *)
Once(d) ==
  /\ IsInjective(d.queued)
  /\ \A call, other \in d.pending_calls : call.id = other.id => call = other
  /\ \A call \in d.pending_calls : call.id \notin ToSet(d.queued)
  /\ \A pending, other \in d.pending_leaves :
       pending.open /\ other.open /\ pending.id = other.id => pending = other
  /\ d.deferred_leave.open =>
       \A pending \in d.pending_leaves :
         pending.open => pending.id # d.deferred_leave.id
  /\ \A i \in Ids : Has(d, i) => d.answer[i] = "none"
  /\ IsInjective(d.sent)
  /\ \A i \in ToSet(d.queued) : i \notin ToSet(d.sent)

(* From d to e no response is lost, invented or given twice; those in S    *)
(* come with the command that is handled.                                  *)
Takes(d, e, S) ==
  /\ \A i \in Ids :
       IF Has(d, i) \/ i \in S
         THEN Has(e, i) <=> e.answer[i] = "none"
         ELSE ~Has(e, i) /\ e.answer[i] = d.answer[i]
  /\ \A i \in ToSet(e.sent) : i \in ToSet(d.sent) \/ Has(d, i) \/ i \in S

(* Leaves whose caller is gone.                                            *)
Closed(d) ==
  {i \in Leaves : \/ d.deferred_leave.id = i /\ ~d.deferred_leave.open
                  \/ \E pending \in d.pending_leaves :
                       pending.id = i /\ ~pending.open}

(* All of this about a part of a handler.                                  *)
Moves(d, e, S) == Once(e) /\ Takes(d, e, S) /\ Closed(e) \subseteq Closed(d)

Holding == {"join_waiters", "queued", "deferred_leave", "pending_calls",
            "pending_leaves", "answer", "sent"}

(* Who is held is a request.                                               *)
LEMMA HeldIds ==
  ASSUME NEW d \in Drivers
  PROVE  /\ \A i : Has(d, i) => i \in Ids
         /\ ToSet(d.queued) \subseteq Pushes /\ ToSet(d.sent) \subseteq Pushes
<1>1. ToSet(d.queued) \subseteq Pushes /\ ToSet(d.sent) \subseteq Pushes
  BY DEF ToSet, Drivers
<1> QED BY <1>1 DEF Has, Drivers, Ids, Pushes, NoLeave

(* A step that concerns no response.                                       *)
LEMMA KeepsAll ==
  ASSUME NEW d, NEW e, Once(d), Alike(d, e, Fields \ Holding)
  PROVE  Moves(d, e, {})
<1>1. /\ e.join_waiters = d.join_waiters /\ e.queued = d.queued
      /\ e.deferred_leave = d.deferred_leave
      /\ e.pending_calls = d.pending_calls
      /\ e.pending_leaves = d.pending_leaves
      /\ e.answer = d.answer /\ e.sent = d.sent
  BY DEF Alike, Fields, Holding
<1>2. \A i : Has(e, i) <=> Has(d, i)
  BY <1>1 DEF Has
<1> QED BY <1>1, <1>2 DEF Once, Takes, Moves, Closed

(* One part of a handler after another.                                    *)
LEMMA MovesThen ==
  ASSUME NEW d, NEW c, NEW e, NEW S, NEW T, NEW U, U = S \cup T,
         Moves(d, c, S), Moves(c, e, T), e \in Drivers
  PROVE  Moves(d, e, U)
<1>1. ASSUME NEW i \in Ids
      PROVE  IF Has(d, i) \/ i \in U
               THEN Has(e, i) <=> e.answer[i] = "none"
               ELSE ~Has(e, i) /\ e.answer[i] = d.answer[i]
  BY DEF Moves, Takes
<1>2. ASSUME NEW i \in ToSet(e.sent)
      PROVE  i \in ToSet(d.sent) \/ Has(d, i) \/ i \in U
  <2>1. i \in Ids
    BY HeldIds DEF Ids
  <2> QED BY <2>1 DEF Moves, Takes
<1> QED BY <1>1, <1>2 DEF Moves, Takes

(* Responses are taken from where they wait, and answered.                 *)
LEMMA SettlesEach ==
  ASSUME NEW d \in Drivers, NEW e \in Drivers, Once(d),
         e.join_waiters \subseteq d.join_waiters,
         e.queued = d.queued \/ e.queued = <<>>,
         e.deferred_leave \in {d.deferred_leave, NoLeave},
         e.pending_calls \subseteq d.pending_calls,
         e.pending_leaves \subseteq d.pending_leaves, e.sent = d.sent,
         \A i \in Ids : IF Has(d, i) /\ ~Has(e, i) THEN e.answer[i] # "none"
                                               ELSE e.answer[i] = d.answer[i]
  PROVE  Moves(d, e, {})
<1>1. IsInjective(e.queued) /\ ToSet(e.queued) \subseteq ToSet(d.queued)
  BY NothingQueued DEF Once
<1>2. \A i \in Ids : Has(e, i) => Has(d, i)
  BY <1>1 DEF Has, NoLeave
<1>3. Once(e)
  BY <1>1, <1>2 DEF Once, NoLeave
<1>4. Takes(d, e, {})
  BY <1>2 DEF Once, Takes
<1>5. Closed(e) \subseteq Closed(d)
  <2>1. NoLeave.id \notin Leaves
    BY DriverAssumption DEF NoLeave
  <2> QED BY <2>1 DEF Closed
<1> QED BY <1>3, <1>4, <1>5 DEF Moves

(* The responses S, all with the same result.                              *)
LEMMA Settles ==
  ASSUME NEW d \in Drivers, NEW e \in Drivers, Once(d), NEW S,
         NEW result \in Answers \ {"none"},
         e.join_waiters \subseteq d.join_waiters,
         e.queued = d.queued \/ e.queued = <<>>,
         e.deferred_leave \in {d.deferred_leave, NoLeave},
         e.pending_calls \subseteq d.pending_calls,
         e.pending_leaves \subseteq d.pending_leaves, e.sent = d.sent,
         e.answer = [i \in Ids |-> IF i \in S THEN result ELSE d.answer[i]],
         \A i \in Ids : i \in S <=> Has(d, i) /\ ~Has(e, i)
  PROVE  Moves(d, e, {})
BY SettlesEach

(* A new request is answered at once.                                      *)
LEMMA SettlesNew ==
  ASSUME NEW d \in Drivers, NEW e \in Drivers, Once(d), NEW id, ~Has(d, id),
         NEW result \in Answers \ {"none"}, Alike(d, e, {"answer"}),
         e.answer = [i \in Ids |-> IF i \in {id} THEN result ELSE d.answer[i]]
  PROVE  Moves(d, e, {id})
<1>1. /\ e.join_waiters = d.join_waiters /\ e.queued = d.queued
      /\ e.deferred_leave = d.deferred_leave
      /\ e.pending_calls = d.pending_calls
      /\ e.pending_leaves = d.pending_leaves /\ e.sent = d.sent
  BY DEF Alike, Fields
<1>2. \A i : Has(e, i) <=> Has(d, i)
  BY <1>1 DEF Has
<1> QED BY <1>1, <1>2 DEF Once, Takes, Moves, Closed

---------------------------------------------------------------------------
(* The helpers the handlers share.                                         *)

(* Answers are given.                                                      *)
LEMMA AnswerEffect ==
  ASSUME NEW W, NEW d, Steady(d, W), NEW requests, NEW result \in Answers
  PROVE  LET e == Answer(d, requests, result)
         IN  /\ Steady(e, W) /\ Alike(d, e, {"answer"})
             /\ e.answer = [i \in Ids |-> IF i \in requests THEN result
                                                            ELSE d.answer[i]]
<1> DEFINE e == Answer(d, requests, result)
<1>1. e \in Drivers
  BY DEF Answer, Steady, Drivers
<1>2. /\ Alike(d, e, {"answer"})
      /\ e.answer = [i \in Ids |-> IF i \in requests THEN result ELSE d.answer[i]]
  BY DEF Answer, Steady, Drivers, Alike, Fields
<1> HIDE DEF e
<1>3. Alike(d, e, Soft)
  BY <1>2 DEF Alike, Soft
<1>4. Timed(e) /\ Unrecorded(e)
  BY <1>2, AlikeFields DEF Steady, Timed, Unrecorded
<1> QED BY <1>1, <1>2, <1>3, <1>4, SoftSteady DEF e

(* A new request is answered at once.                                      *)
LEMMA AnswerNew ==
  ASSUME NEW W, NEW d, Steady(d, W), Once(d), NEW id, ~Has(d, id),
         NEW result \in Answers \ {"none"}
  PROVE  LET e == Answer(d, {id}, result)
         IN  /\ Steady(e, W) /\ Alike(d, e, {"answer"})
             /\ Moves(d, e, {id})
<1> DEFINE e == Answer(d, {id}, result)
<1>1. /\ Steady(e, W) /\ Alike(d, e, {"answer"})
      /\ e.answer = [i \in Ids |-> IF i \in {id} THEN result ELSE d.answer[i]]
  BY AnswerEffect
<1> HIDE DEF e
<1>2. Moves(d, e, {id})
  BY <1>1, SettlesNew DEF Steady
<1> QED BY <1>1, <1>2 DEF e

(* A status is published.                                                  *)
LEMMA SetStatusEffect ==
  ASSUME NEW W, NEW d, Steady(d, W), NEW status \in Statuses
  PROVE  LET e == SetStatus(d, status)
         IN  /\ Steady(e, W) /\ Alike(d, e, {"status"})
             /\ e.status = IF d.registered THEN status ELSE d.status
             /\ Once(d) => Moves(d, e, {})
<1> DEFINE e == SetStatus(d, status)
<1>1. /\ e \in Drivers /\ Alike(d, e, {"status"})
      /\ e.status = IF d.registered THEN status ELSE d.status
  BY DEF SetStatus, Steady, Drivers, Alike, Fields
<1> HIDE DEF e
<1>2. Alike(d, e, Soft) /\ Alike(d, e, Fields \ Holding)
  BY <1>1 DEF Alike, Soft, Fields, Holding
<1>3. Timed(e) /\ Unrecorded(e)
  BY <1>1, AlikeFields DEF Steady, Timed, Unrecorded
<1>4. Steady(e, W)
  BY <1>1, <1>2, <1>3, SoftSteady
<1> QED BY <1>1, <1>2, <1>4, KeepsAll DEF e

(* stop_channel                                                            *)
Stopped == {"desired", "active_payload", "rejoin_scheduled",
            "deferred_leave", "join_waiters", "queued", "answer"}

(* stop_channel, of any driver state: the channel wants nothing, holds     *)
(* nothing, and its callers are told.                                      *)
LEMMA StopEffect ==
  ASSUME NEW W, NEW d, Steady(d, W)
  PROVE  LET e == StopChannel(d)
         IN  /\ Steady(e, W) /\ Alike(d, e, Stopped)
             /\ ~e.desired /\ e.active_payload = 0 /\ ~e.rejoin_scheduled
             /\ e.deferred_leave = NoLeave /\ e.join_waiters = {} /\ e.queued = <<>>
             /\ Once(d) => Moves(d, e, {})
<1> DEFINE c == [d EXCEPT !.desired = FALSE, !.active_payload = 0,
                          !.rejoin_scheduled = FALSE, !.deferred_leave = NoLeave,
                          !.join_waiters = {}, !.queued = <<>>]
           e == StopChannel(d)
<1>1. <<>> \in Seq(Pushes)
  OBVIOUS
<1>2. c \in Drivers
  BY <1>1 DEF Steady, Drivers
<1>3. /\ Alike(d, c, Stopped)
      /\ ~c.desired /\ c.active_payload = 0 /\ ~c.rejoin_scheduled
      /\ c.deferred_leave = NoLeave /\ c.join_waiters = {} /\ c.queued = <<>>
      /\ c.answer = d.answer
  BY DEF Steady, Drivers, Alike, Fields, Stopped
<1>4. e = Answer(c, Held(d), "interrupted")
  BY DEF StopChannel
<1> HIDE DEF c, e
<1>5. Timed(c) /\ Unrecorded(c)
  BY <1>3, AlikeFields DEF Steady, Timed, Unrecorded, Stopped
<1>6. Alike(d, c, Soft)
  BY <1>3 DEF Alike, Soft, Stopped
<1>7. Steady(c, W)
  BY <1>2, <1>5, <1>6, SoftSteady
<1>8. /\ Steady(e, W) /\ Alike(c, e, {"answer"})
      /\ e.answer = [i \in Ids |-> IF i \in Held(d) THEN "interrupted"
                                                    ELSE d.answer[i]]
  <2>1. "interrupted" \in Answers
    BY DEF Answers
  <2> QED BY <1>3, <1>4, <1>7, <2>1, AnswerEffect
<1>9. /\ ~e.desired /\ e.active_payload = 0 /\ ~e.rejoin_scheduled
      /\ e.deferred_leave = NoLeave /\ e.join_waiters = {} /\ e.queued = <<>>
  BY <1>3, <1>8, AlikeFields
<1>10. Alike(d, e, Stopped)
  BY <1>3, <1>8 DEF Alike, Stopped
<1>11. ASSUME Once(d)
       PROVE  Moves(d, e, {})
  <2>1. /\ e.pending_calls = d.pending_calls
        /\ e.pending_leaves = d.pending_leaves /\ e.sent = d.sent
    BY <1>10, AlikeFields DEF Stopped
  <2>2. d \in Drivers /\ e \in Drivers
    BY <1>8 DEF Steady
  <2>3. ToSet(e.queued) = {} /\ ToSet(d.queued) \subseteq Pushes
    BY <1>9, <2>2, NothingQueued, HeldIds
  <2>4. \A i : Has(e, i) <=> \/ \E call \in d.pending_calls : call.id = i
                             \/ \E pending \in d.pending_leaves :
                                  pending.open /\ pending.id = i
    BY <1>9, <2>1, <2>3 DEF Has, NoLeave
  <2>5. \A i \in Ids : i \in Held(d) => Has(d, i)
    BY DEF Held, Has, OpenLeave
  <2>6. \A i \in Ids : i \in Held(d) => ~Has(e, i)
    <3> SUFFICES ASSUME NEW i \in Ids, i \in Held(d), Has(e, i)
                 PROVE  FALSE
      OBVIOUS
    <3>1. CASE \E call \in d.pending_calls : call.id = i
      <4>1. i \in Calls /\ i \notin ToSet(d.queued)
        BY <1>11, <2>2, <3>1 DEF Once, Drivers
      <4>2. i \notin d.join_waiters /\ i \notin OpenLeave(d.deferred_leave)
        BY <2>2, <4>1, DriverAssumption
           DEF Drivers, OpenLeave, Pushes, NoLeave
      <4> QED BY <4>1, <4>2 DEF Held
    <3>2. CASE \E pending \in d.pending_leaves : pending.open /\ pending.id = i
      <4>1. i \in Leaves /\ i \notin OpenLeave(d.deferred_leave)
        BY <1>11, <2>2, <3>2 DEF Once, Drivers, OpenLeave
      <4> QED BY <2>2, <2>3, <4>1, DriverAssumption DEF Held, Drivers
    <3> QED BY <2>4, <3>1, <3>2
  <2>7. \A i \in Ids : Has(d, i) /\ ~Has(e, i) => i \in Held(d)
    BY <2>4 DEF Held, Has, OpenLeave
  <2>8. "interrupted" \in Answers \ {"none"}
    BY DEF Answers
  <2> HIDE DEF Held
  <2> QED BY <1>8, <1>9, <1>11, <2>1, <2>2, <2>5, <2>6, <2>7, <2>8, Settles
<1> QED BY <1>8, <1>9, <1>10, <1>11 DEF e

(* There is an id for another load.                                        *)
LEMMA FreshLoad ==
  ASSUME NEW d, IsFiniteSet(d.loads), d.loads \subseteq Nat
  PROVE  FreshPayload(d) \in Nat \ {0} /\ FreshPayload(d) \notin d.loads
<1> DEFINE n == Cardinality(d.loads)
<1>1. n \in Nat
  BY FS_CardinalityType
<1> HIDE DEF n
<1>2. ~(1..(n + 1) \subseteq d.loads)
  <2> SUFFICES ASSUME 1..(n + 1) \subseteq d.loads
               PROVE  FALSE
    OBVIOUS
  <2>1. Cardinality(1..(n + 1)) = n + 1
    BY <1>1, FS_Interval
  <2>2. Cardinality(1..(n + 1)) <= n
    BY FS_Subset DEF n
  <2> QED BY <1>1, <2>1, <2>2
<1>3. \E id \in 1..(n + 1) : id \notin d.loads
  BY <1>2
<1>4. FreshPayload(d) \in 1..(n + 1) /\ FreshPayload(d) \notin d.loads
  BY <1>3 DEF FreshPayload, n
<1> QED BY <1>1, <1>4

(* load_payload                                                            *)
LEMMA LoadEffect ==
  ASSUME NEW W, NEW d, Steady(d, W)
  PROVE  LET e == LoadPayload(d)
         IN  /\ Steady(e, W) /\ Alike(d, e, {"status", "active_payload", "loads"})
             /\ d.desired /\ Chan(d.proto).state \notin Active =>
                  e.active_payload # 0
             /\ e.active_payload = 0 => d.active_payload = 0
             /\ \/ e = d
                \/ e.status = "WaitingToJoin" /\ Chan(d.proto).state \notin Active
             /\ Once(d) => Moves(d, e, {})
<1> DEFINE e == LoadPayload(d)
           begins == /\ d.registered /\ d.desired /\ d.active_payload = 0
                     /\ Chan(d.proto).state \notin Active
           id == FreshPayload(d)
<1>1. State(d) = Chan(d.proto).state /\ P!ActiveStates = Active
  BY DEF State, P!ChannelState, Chan, P!ActiveStates, Active
<1>2. CASE ~begins
  <2>1. e = d
    BY <1>1, <1>2 DEF LoadPayload
  <2>2. Alike(d, d, Fields \ Holding)
    BY DEF Alike
  <2>3. d.desired => d.registered
    BY DEF Steady, Unrecorded
  <2> QED BY <1>2, <2>1, <2>2, <2>3, KeepsAll DEF Alike
<1>3. CASE begins
  <2>1. id \in Nat \ {0} /\ id \notin d.loads
    BY FreshLoad DEF Steady, Timed, Drivers
  <2>2. e = [d EXCEPT !.status = "WaitingToJoin", !.active_payload = id,
                      !.loads = @ \cup {id}]
    BY <1>1, <1>3 DEF LoadPayload
  <2> HIDE DEF id, e
  <2>3. "WaitingToJoin" \in Statuses
    BY DEF Statuses
  <2>4. d.loads \cup {id} \in SUBSET Nat
    BY <2>1 DEF Steady, Drivers
  <2>5. e \in Drivers
    BY <2>1, <2>2, <2>3, <2>4 DEF Steady, Drivers
  <2>6. /\ Alike(d, e, {"status", "active_payload", "loads"})
        /\ e.status = "WaitingToJoin" /\ e.active_payload = id
        /\ e.loads = d.loads \cup {id}
    BY <2>2 DEF Steady, Drivers, Alike, Fields
  <2>7. IsFiniteSet(e.loads)
    BY <2>6, FS_AddElement DEF Steady, Timed
  <2>8. Timed(e) /\ Unrecorded(e)
    BY <1>3, <2>1, <2>6, <2>7, AlikeFields DEF Steady, Timed, Unrecorded
  <2>9. Alike(d, e, Soft) /\ Alike(d, e, Fields \ Holding)
    BY <2>6 DEF Alike, Soft, Fields, Holding
  <2>10. Steady(e, W)
    BY <2>5, <2>8, <2>9, SoftSteady
  <2> QED BY <1>3, <2>1, <2>6, <2>9, <2>10, KeepsAll DEF e
<1> QED BY <1>2, <1>3

(* schedule_rejoin                                                         *)
LEMMA ScheduleEffect ==
  ASSUME NEW W, NEW d, Steady(d, W)
  PROVE  LET e == ScheduleRejoin(d)
         IN  /\ Steady(e, W) /\ Alike(d, e, {"rejoin_scheduled", "rejoins"})
             /\ d.desired => e.rejoins > 0
             /\ Once(d) => Moves(d, e, {})
<1> DEFINE e == ScheduleRejoin(d)
<1>1. CASE ~(d.registered /\ d.desired /\ ~d.rejoin_scheduled)
  <2>1. e = d
    BY <1>1 DEF ScheduleRejoin
  <2>2. Alike(d, d, Fields \ Holding)
    BY DEF Alike
  <2>3. d.desired => d.registered
    BY DEF Steady, Unrecorded
  <2> QED BY <1>1, <2>1, <2>2, <2>3, KeepsAll DEF Alike, Steady, Timed
<1>2. CASE d.registered /\ d.desired /\ ~d.rejoin_scheduled
  <2>1. e = [d EXCEPT !.rejoin_scheduled = TRUE, !.rejoins = @ + 1]
    BY <1>2 DEF ScheduleRejoin
  <2> HIDE DEF e
  <2>2. d.rejoins + 1 \in Nat /\ d.rejoins + 1 > 0
    BY DEF Steady, Drivers
  <2>3. e \in Drivers
    BY <2>1, <2>2 DEF Steady, Drivers
  <2>4. /\ Alike(d, e, {"rejoin_scheduled", "rejoins"})
        /\ e.rejoin_scheduled /\ e.rejoins = d.rejoins + 1
    BY <2>1 DEF Steady, Drivers, Alike, Fields
  <2>5. Timed(e) /\ Unrecorded(e)
    BY <1>2, <2>2, <2>4, AlikeFields DEF Steady, Timed, Unrecorded
  <2>6. Alike(d, e, Soft) /\ Alike(d, e, Fields \ Holding)
    BY <2>4 DEF Alike, Soft, Fields, Holding
  <2>7. Steady(e, W)
    BY <2>5, <2>6, <2>3, SoftSteady
  <2> QED BY <2>2, <2>6, <2>7, <2>4, KeepsAll DEF e
<1> QED BY <1>1, <1>2

(* What the server may owe, and requests on the wire.                      *)
Owings == [kind : {"Join", "Leave", "Push", "Cast", "Left"}, ref : Nat,
           join_ref : Nat]

Wires == [kind : {"Join", "Leave", "Push", "Cast"}, ref : Nat, join_ref : Nat]

(* Requests end: the protocol and its tables keep what is left of them.    *)
LEMMA EndSteady ==
  ASSUME NEW W, NEW V, V \subseteq W, NEW d, NEW e, Steady(d, W), e \in Drivers,
         Tidy(e.proto), e.proto.next_reference = d.proto.next_reference,
         e.proto.pending \subseteq d.proto.pending,
         JoinRef(e) \in {JoinRef(d), 0},
         e.pending_joins \subseteq d.pending_joins,
         e.pending_calls \subseteq d.pending_calls,
         \A pending \in e.pending_leaves :
           \E other \in d.pending_leaves : other.ref = pending.ref,
         e.op_timeouts \subseteq d.op_timeouts, e.wire = d.wire,
         Timed(e), Unrecorded(e), Watched(e), Tracked(e),
         Chan(e.proto).state = "Joining" => Chan(d.proto).state = "Joining",
         \/ Chan(e.proto).state = "Joining"
         \/ \A q \in d.wire \cup V : q.kind = "Join" => q.ref # JoinRef(e)
  PROVE  Steady(e, V)
<1>1. d.proto.next_reference \in Nat
  BY ProtoFacts DEF Steady, Drivers
<1>2. Numbered(e)
  BY <1>1 DEF Steady, Numbered
<1>3. Owing(e, V)
  <2> SUFFICES ASSUME NEW q \in e.wire \cup V, q.kind # "Cast"
               PROVE  Sent(e, q)
    BY DEF Owing
  <2>1. Sent(d, q)
    BY DEF Steady, Owing
  <2>2. q.join_ref # 0
    BY <1>1, <2>1 DEF Sent
  <2> QED BY <2>1, <2>2 DEF Sent
<1> QED BY <1>2, <1>3 DEF Steady

(* A request is sent, under a fresh reference.                             *)
LEMMA SendSteady ==
  ASSUME NEW W, NEW d, NEW e, Steady(d, W), e \in Drivers,
         NEW kind \in {"Join", "Leave", "Push"}, NEW join_ref,
         Tidy(e.proto), e.proto.next_reference = P!NextRef(d.proto),
         \A x \in e.proto.pending :
           x \in d.proto.pending \/ (x.kind = kind /\ x.ref = P!NextRef(d.proto)),
         kind = "Join" => JoinRef(e) = P!NextRef(d.proto) /\ join_ref = JoinRef(e)
                          /\ Chan(e.proto).state = "Joining",
         kind # "Join" => JoinRef(e) \in {JoinRef(d), 0} /\ join_ref = JoinRef(d)
                          /\ Chan(d.proto).state = "Joined"
                          /\ Chan(e.proto).state # "Joining",
         \A ref \in e.pending_joins :
           ref \in d.pending_joins \/ ref = P!NextRef(d.proto),
         \A call \in e.pending_calls :
           call \in d.pending_calls \/ call.ref = P!NextRef(d.proto),
         \A pending \in e.pending_leaves :
           pending \in d.pending_leaves \/ pending.ref = P!NextRef(d.proto),
         \A timeout \in e.op_timeouts :
           timeout \in d.op_timeouts \/ timeout.ref = P!NextRef(d.proto),
         e.wire = d.wire \cup {[kind |-> kind, ref |-> P!NextRef(d.proto),
                                join_ref |-> join_ref]},
         Timed(e), Unrecorded(e), Watched(e), Tracked(e)
  PROVE  Steady(e, W)
<1> DEFINE n == d.proto.next_reference
           new == P!NextRef(d.proto)
<1>1. /\ n \in Nat /\ new = n + 1 /\ JoinRef(d) \in Nat /\ JoinRef(d) <= n
      /\ Chan(d.proto).state = "Joined" => JoinRef(d) # 0
  BY ProtoFacts DEF Steady, Drivers, Numbered, JoinRef, Chan
<1> HIDE DEF new, n
<1>2. \A r : r \in 1..n => r \in 1..new /\ r # new
  BY <1>1
<1>3. new \in 1..new /\ JoinRef(d) <= new /\ new # 0 /\ new # JoinRef(d)
  BY <1>1
<1>4. Numbered(e)
  <2>1. JoinRef(e) <= new
    BY <1>1, <1>3 DEF new
  <2> QED BY <1>2, <1>3, <2>1 DEF Steady, Numbered, new, n
<1>5. ASSUME NEW q \in d.wire \cup W, q.kind # "Cast"
      PROVE  Sent(e, q)
  <2>1. Sent(d, q)
    BY <1>5 DEF Steady, Owing
  <2>2. /\ IF q.kind = "Left" THEN q.ref = 0 ELSE q.ref \in 1..n
        /\ q.join_ref \in 1..n
    BY <2>1 DEF Sent, n
  <2>3. /\ IF q.kind = "Left" THEN q.ref = 0 ELSE q.ref \in 1..new
        /\ q.ref # new /\ q.join_ref \in 1..new
        /\ q.join_ref # new /\ (q.kind = "Join" => q.ref # 0)
    BY <1>1, <1>2, <1>3, <2>2
  <2>5. q.join_ref # 0
    BY <1>1, <2>2
  <2>4. \A x \in e.proto.pending : x.ref = q.ref => x.kind = q.kind
    BY <2>1, <2>3 DEF Sent, new
  <2> QED BY <2>1, <2>3, <2>4, <2>5 DEF Sent, new
<1>6. Sent(e, [kind |-> kind, ref |-> new, join_ref |-> join_ref])
  <2>1. join_ref \in 1..new
    BY <1>1, <1>3 DEF new
  <2>2. ASSUME NEW x \in e.proto.pending, x.ref = new
        PROVE  x.kind = kind
    <3>1. x \notin d.proto.pending
      BY <1>2, <2>2 DEF Steady, Numbered, n
    <3> QED BY <3>1
  <2> QED BY <1>3, <2>1, <2>2 DEF Sent, new
<1>7. Owing(e, W)
  BY <1>5, <1>6 DEF Owing, new
<1> QED BY <1>4, <1>7 DEF Steady

(* The state of the channel, in the words of the handlers.                 *)
LEMMA StateFacts ==
  ASSUME NEW W, NEW d, Steady(d, W)
  PROVE  /\ State(d) = Chan(d.proto).state /\ P!ActiveStates = Active
         /\ JoinRef(d) = Chan(d.proto).join_ref
         /\ d.proto \in P!ProtocolState /\ Tidy(d.proto)
         /\ d.proto.next_reference \in Nat
         /\ P!NextRef(d.proto) = d.proto.next_reference + 1
         /\ P!NextRef(d.proto) \in Nat /\ JoinRef(d) \in Nat
         /\ Chan(d.proto).state \in {"Absent", "Closed", "Errored", "Disconnected"}
                                      \cup Active
         /\ Chan(d.proto).state \in Active => d.registered
<1>1. d.proto \in P!ProtocolState
  BY DEF Steady, Drivers
<1>2. Chan(d.proto).state \in Active => d.registered
  BY DEF Steady, Unrecorded, Active, P!Absent
<1> QED BY <1>1, <1>2, ProtoFacts
        DEF State, P!ChannelState, Chan, P!ActiveStates, Active, Steady, JoinRef

(* The leave of a joined channel.                                          *)
LeaveEntry(d, pending) ==
  [ref |-> P!NextRef(d.proto), id |-> pending.id, open |-> pending.open]

(* A leave of a joined channel is sent and has its watchdog.               *)
LEMMA StartLeaveEffect ==
  ASSUME NEW W, NEW d, Steady(d, W), Chan(d.proto).state = "Joined",
         NEW pending \in [id : Leaves, open : BOOLEAN]
  PROVE  LET e == StartLeave(d, pending)
         IN  /\ Steady(e, W)
             /\ Alike(d, e, {"proto", "pending_leaves", "op_timeouts", "wire"})
             /\ Chan(e.proto).state = "Leaving" /\ JoinRef(e) = JoinRef(d)
             /\ e.pending_leaves = d.pending_leaves \cup {LeaveEntry(d, pending)}
<1> DEFINE e == StartLeave(d, pending)
           new == P!NextRef(d.proto)
           entry == [ref |-> new, id |-> pending.id, open |-> pending.open]
           timer == [kind |-> "Leave", ref |-> new]
           q == P!Leave(d.proto, Topic)
           frame == [kind |-> "Leave", ref |-> new, join_ref |-> JoinRef(d)]
<1>1. /\ q \in P!ProtocolState /\ Tidy(q)
      /\ Chan(q) = [state |-> "Leaving", join_ref |-> JoinRef(d)]
      /\ q.next_reference = new
      /\ \A x \in q.pending : x \in d.proto.pending \/ (x.kind = "Leave" /\ x.ref = new)
  BY StateFacts, LeaveEffect
<1>2. new \in Nat /\ JoinRef(d) \in Nat /\ new > JoinRef(d)
  BY StateFacts DEF Steady, Numbered
<1>3. JoinRef(e) = JoinRef(d) /\ e.proto = q
  BY <1>1 DEF StartLeave, Send, JoinRef, Steady, Drivers, Chan
<1>4. /\ entry \in [ref : Nat, id : Leaves, open : BOOLEAN]
      /\ timer \in [kind : {"Join", "Leave"}, ref : Nat]
      /\ frame \in [kind : {"Join", "Leave", "Push", "Cast"}, ref : Nat,
                    join_ref : Nat]
  BY <1>2
<1>5. e = [d EXCEPT !.proto = q, !.pending_leaves = @ \cup {entry},
                    !.op_timeouts = @ \cup {timer}, !.wire = @ \cup {frame}]
  <2>1. q.channels[Topic].join_ref = JoinRef(d)
    BY <1>1 DEF Chan
  <2> HIDE DEF q, new
  <2> QED BY <2>1 DEF StartLeave, Send, Steady, Drivers, new, q
<1> HIDE DEF e, entry, timer, frame, q, new
<1>6. /\ d.pending_leaves \cup {entry} \subseteq
           [ref : Nat, id : Leaves, open : BOOLEAN]
      /\ d.op_timeouts \cup {timer} \subseteq [kind : {"Join", "Leave"}, ref : Nat]
      /\ d.wire \cup {frame} \subseteq
           [kind : {"Join", "Leave", "Push", "Cast"}, ref : Nat, join_ref : Nat]
  BY <1>4 DEF Steady, Drivers
<1>7. e \in Drivers
  BY <1>1, <1>5, <1>6 DEF Steady, Drivers
<1>8. /\ Alike(d, e, {"proto", "pending_leaves", "op_timeouts", "wire"})
      /\ e.proto = q /\ e.pending_leaves = d.pending_leaves \cup {entry}
      /\ e.op_timeouts = d.op_timeouts \cup {timer}
      /\ e.wire = d.wire \cup {frame}
  BY <1>5 DEF Steady, Drivers, Alike, Fields
<1>9. d.registered /\ d.active_payload = 0
  BY StateFacts DEF Steady, Timed, Active
<1>10. Timed(e) /\ Unrecorded(e)
  BY <1>8, <1>9, AlikeFields DEF Steady, Timed, Unrecorded
<1>11. Watched(e)
  <2>1. entry.ref > JoinRef(e) /\ [kind |-> "Leave", ref |-> entry.ref] = timer
    BY <1>2, <1>3 DEF entry, timer
  <2>2. Chan(e.proto).state = "Leaving"
    BY <1>1, <1>8
  <2> QED BY <1>8, <2>1, <2>2 DEF Watched
<1>12. Tracked(e)
  BY <1>1, <1>8, AlikeFields DEF Steady, Tracked
<1>13. Steady(e, W)
  <2>1. /\ e.pending_joins = d.pending_joins /\ e.pending_calls = d.pending_calls
        /\ entry.ref = new /\ timer.ref = new
    BY <1>8, AlikeFields DEF entry, timer
  <2>2. Chan(e.proto).state = "Leaving"
    BY <1>1, <1>8
  <2>3. e.wire = d.wire \cup {[kind |-> "Leave", ref |-> new, join_ref |-> JoinRef(d)]}
    BY <1>8 DEF frame
  <2> QED BY <1>1, <1>3, <1>7, <1>8, <1>10, <1>11, <1>12, <2>1, <2>2, <2>3, SendSteady
          DEF new
<1>14. entry = LeaveEntry(d, pending)
  BY DEF entry, new, LeaveEntry
<1> QED BY <1>1, <1>3, <1>8, <1>13, <1>14 DEF e

(* A push on a joined channel.                                             *)
LEMMA SendPushEffect ==
  ASSUME NEW W, NEW d, Steady(d, W), Once(d), Chan(d.proto).state = "Joined",
         NEW id \in Pushes, ~Has(d, id), d.answer[id] = "none",
         id \notin ToSet(d.sent), NEW ok \in BOOLEAN
  PROVE  LET e == SendPush(d, id, ok)
         IN  /\ Steady(e, W) /\ Moves(d, e, {id})
             /\ Alike(d, e, {"proto", "pending_calls", "answer", "wire", "sent"})
             /\ Chan(e.proto) = Chan(d.proto)
<1> DEFINE e == SendPush(d, id, ok)
           new == P!NextRef(d.proto)
<1>1. {"ok", "failed", "interrupted"} \subseteq Answers \ {"none"} /\ id \in Ids
  BY DEF Answers, Ids
<1>2. CASE id \in BinaryRefused
  <2>1. e = Answer(d, {id}, "failed")
    BY <1>2 DEF SendPush
  <2>2. Steady(e, W) /\ Alike(d, e, {"answer"}) /\ Moves(d, e, {id})
    BY <1>1, <2>1, AnswerNew
  <2> HIDE DEF e
  <2>3. e.proto = d.proto
    BY <2>2, AlikeFields
  <2> QED BY <2>2, <2>3 DEF Alike, e
<1>3. CASE id \notin BinaryRefused /\ id \in Calls
  <2> DEFINE q == P!Push(d.proto, Topic)
             call == [ref |-> new, id |-> id]
             frame == [kind |-> "Push", ref |-> new, join_ref |-> JoinRef(d)]
  <2>1. /\ q \in P!ProtocolState /\ Tidy(q) /\ Chan(q) = Chan(d.proto)
        /\ q.next_reference = new
        /\ q.pending = d.proto.pending \cup {P!Pending("Push", Topic, new)}
    BY StateFacts, PushEffect
  <2>2. new \in Nat /\ JoinRef(d) \in Nat
    BY StateFacts
  <2>3. call \in [ref : Nat, id : Calls] /\ call.ref = new /\ call.id = id
        /\ frame \in [kind : {"Join", "Leave", "Push", "Cast"}, ref : Nat,
                      join_ref : Nat]
    BY <1>3, <2>2
  <2>4. e = [d EXCEPT !.proto = q, !.pending_calls = @ \cup {call},
                      !.sent = Append(@, id), !.wire = @ \cup {frame}]
    <3>1. q.channels[Topic].join_ref = JoinRef(d)
      BY <2>1 DEF Chan, JoinRef
    <3> HIDE DEF q, new
    <3> QED BY <1>3, <3>1 DEF SendPush, Send, Steady, Drivers, new, q
  <2> DEFINE log == Append(d.sent, id)
  <2>5. /\ log \in Seq(Pushes) /\ ToSet(log) = ToSet(d.sent) \cup {id}
        /\ IsInjective(log)
    <3>1. d.sent \in Seq(Pushes) /\ IsInjective(d.sent)
      BY DEF Steady, Drivers, Once
    <3> QED BY <3>1, Appended
  <2> HIDE DEF e, call, frame, q, new, log
  <2>6. /\ d.pending_calls \cup {call} \subseteq [ref : Nat, id : Calls]
        /\ d.wire \cup {frame} \subseteq
             [kind : {"Join", "Leave", "Push", "Cast"}, ref : Nat, join_ref : Nat]
    BY <2>3 DEF Steady, Drivers
  <2>7. e \in Drivers
    BY <2>1, <2>4, <2>5, <2>6 DEF Steady, Drivers, log
  <2>8. /\ Alike(d, e, {"proto", "pending_calls", "answer", "wire", "sent"})
        /\ e.proto = q /\ e.pending_calls = d.pending_calls \cup {call}
        /\ e.sent = log /\ e.answer = d.answer
        /\ e.wire = d.wire \cup {frame}
    BY <2>4 DEF Steady, Drivers, Alike, Fields, log
  <2>9. /\ e.join_waiters = d.join_waiters /\ e.queued = d.queued
        /\ e.deferred_leave = d.deferred_leave
        /\ e.pending_joins = d.pending_joins /\ e.pending_leaves = d.pending_leaves
        /\ e.op_timeouts = d.op_timeouts /\ e.registered = d.registered
    BY <2>8, AlikeFields
  <2>10. d.registered /\ d.active_payload = 0
    BY StateFacts DEF Steady, Timed, Active
  <2>11. Timed(e) /\ Unrecorded(e)
    BY <2>8, <2>9, <2>10, AlikeFields DEF Steady, Timed, Unrecorded
  <2>12. Watched(e) /\ JoinRef(e) = JoinRef(d) /\ Chan(e.proto).state = "Joined"
    BY <2>1, <2>8 DEF Watched, JoinRef, Chan
  <2>13. Tracked(e)
    BY <2>1, <2>3, <2>8 DEF Steady, Tracked, P!Pending
  <2>14. Steady(e, W)
    <3>1. \A x \in e.proto.pending :
            x \in d.proto.pending \/ (x.kind = "Push" /\ x.ref = new)
      BY <2>1, <2>8 DEF P!Pending
    <3>2. e.wire = d.wire \cup {[kind |-> "Push", ref |-> new,
                                 join_ref |-> JoinRef(d)]}
      BY <2>8 DEF frame
    <3> QED BY <2>1, <2>3, <2>7, <2>8, <2>9, <2>11, <2>12, <2>13, <3>1, <3>2,
               SendSteady DEF new
  <2>15. \A i : Has(e, i) <=> Has(d, i) \/ i = id
    BY <2>3, <2>8, <2>9 DEF Has
  <2>16. Once(e)
    <3>1. \A other \in d.pending_calls : other.id # id
      BY DEF Has
    <3>2. id \notin ToSet(d.queued)
      BY DEF Has
    <3> QED BY <2>3, <2>5, <2>8, <2>9, <2>15, <3>1, <3>2 DEF Once
  <2>17. Takes(d, e, {id}) /\ Closed(e) \subseteq Closed(d)
    BY <2>5, <2>8, <2>9, <2>15 DEF Takes, Closed, Once
  <2> QED BY <2>1, <2>8, <2>14, <2>16, <2>17 DEF e, Moves
<1>4. CASE id \notin BinaryRefused /\ id \notin Calls
  <2> DEFINE result == IF ok THEN "ok" ELSE "interrupted"
             frame == [kind |-> "Cast", ref |-> 0, join_ref |-> JoinRef(d)]
             log == Append(d.sent, id)
             given == [i \in Ids |-> IF i \in {id} THEN result ELSE d.answer[i]]
  <2>1. JoinRef(d) \in Nat
    BY StateFacts
  <2>2. frame \in [kind : {"Join", "Leave", "Push", "Cast"}, ref : Nat,
                   join_ref : Nat]
    BY <2>1
  <2>3. result \in Answers \ {"none"}
    BY <1>1
  <2>4. e = [d EXCEPT !.sent = log, !.answer = given, !.wire = @ \cup {frame}]
    BY <1>4 DEF SendPush, Answer, Send, Steady, Drivers, JoinRef
  <2>5. /\ log \in Seq(Pushes) /\ ToSet(log) = ToSet(d.sent) \cup {id}
        /\ IsInjective(log)
    <3>1. d.sent \in Seq(Pushes) /\ IsInjective(d.sent)
      BY DEF Steady, Drivers, Once
    <3> QED BY <3>1, Appended
  <2> HIDE DEF result
  <2>6. given \in [Ids -> Answers]
    BY <2>3 DEF Steady, Drivers
  <2>7. \A i \in Ids : given[i] = IF i = id THEN result ELSE d.answer[i]
    OBVIOUS
  <2> HIDE DEF e, frame, log, given
  <2>8. d.wire \cup {frame} \subseteq
          [kind : {"Join", "Leave", "Push", "Cast"}, ref : Nat, join_ref : Nat]
    BY <2>2 DEF Steady, Drivers
  <2>9. e \in Drivers
    BY <2>4, <2>5, <2>6, <2>8 DEF Steady, Drivers
  <2>10. /\ Alike(d, e, {"answer", "wire", "sent"})
         /\ e.sent = log /\ e.answer = given /\ e.wire = d.wire \cup {frame}
    BY <2>4 DEF Steady, Drivers, Alike, Fields
  <2>11. /\ e.proto = d.proto /\ e.registered = d.registered
         /\ e.join_waiters = d.join_waiters /\ e.queued = d.queued
         /\ e.deferred_leave = d.deferred_leave
         /\ e.pending_joins = d.pending_joins /\ e.pending_calls = d.pending_calls
         /\ e.pending_leaves = d.pending_leaves /\ e.op_timeouts = d.op_timeouts
    BY <2>10, AlikeFields
  <2>12. Numbered(e) /\ Watched(e) /\ Tracked(e)
    BY <2>11 DEF Steady, Numbered, Watched, Tracked, JoinRef
  <2>13. Timed(e) /\ Unrecorded(e)
    BY <2>10, AlikeFields DEF Steady, Timed, Unrecorded
  <2>14. Owing(e, W)
    BY <2>10, <2>11 DEF Steady, Owing, Sent, JoinRef, frame
  <2>15. Steady(e, W)
    BY <2>9, <2>11, <2>12, <2>13, <2>14 DEF Steady
  <2>16. \A i : Has(e, i) <=> Has(d, i)
    BY <2>11 DEF Has
  <2>17. Once(e)
    <3>1. id \notin ToSet(d.queued)
      BY DEF Has
    <3> QED BY <2>5, <2>7, <2>10, <2>11, <2>16, <3>1 DEF Once
  <2>18. Takes(d, e, {id}) /\ Closed(e) \subseteq Closed(d)
    BY <1>1, <2>3, <2>5, <2>7, <2>10, <2>11, <2>16 DEF Takes, Closed, Once
  <2>19. Alike(d, e, {"proto", "pending_calls", "answer", "wire", "sent"})
    BY <2>10 DEF Alike
  <2> QED BY <2>11, <2>15, <2>17, <2>18, <2>19 DEF e, Moves
<1> QED BY <1>2, <1>3, <1>4

(* A push waits for the channel to be joined, or is refused.               *)
LEMMA QueueEffect ==
  ASSUME NEW W, NEW d, Steady(d, W), Once(d), NEW id \in Pushes, ~Has(d, id),
         d.answer[id] = "none", id \notin ToSet(d.sent)
  PROVE  LET e == Queue(d, id)
         IN  /\ Steady(e, W) /\ Moves(d, e, {id})
             /\ Alike(d, e, {"queued", "answer"})
             /\ Len(d.queued) <= d.capacity => Len(e.queued) <= d.capacity
<1> DEFINE e == Queue(d, id)
<1>1. {"ok", "failed", "interrupted"} \subseteq Answers \ {"none"} /\ id \in Ids
  BY DEF Answers, Ids
<1>2. CASE \E result \in {"failed", "interrupted"} : e = Answer(d, {id}, result)
  <2> PICK result \in {"failed", "interrupted"} : e = Answer(d, {id}, result)
    BY <1>2
  <2>1. Steady(e, W) /\ Alike(d, e, {"answer"}) /\ Moves(d, e, {id})
    BY <1>1, AnswerNew
  <2> HIDE DEF e
  <2>2. e.queued = d.queued
    BY <2>1, AlikeFields
  <2> QED BY <2>1, <2>2 DEF Alike, e
<1>3. CASE ~\E result \in {"failed", "interrupted"} : e = Answer(d, {id}, result)
  <2> DEFINE queue == Append(d.queued, id)
  <2>1. /\ d.registered /\ ~(d.ever_joined /\ ~d.desired)
        /\ ~(Len(d.queued) >= d.capacity) /\ e = [d EXCEPT !.queued = queue]
    BY <1>3 DEF Queue
  <2>2. d.queued \in Seq(Pushes) /\ d.capacity \in Nat /\ Len(d.queued) \in Nat
    BY DEF Steady, Drivers
  <2>3. /\ queue \in Seq(Pushes) /\ Len(queue) = Len(d.queued) + 1
        /\ ToSet(queue) = ToSet(d.queued) \cup {id}
        /\ IsInjective(queue)
    BY <2>2, Appended DEF Has, Once
  <2>4. Len(queue) <= d.capacity
    BY <2>1, <2>2, <2>3
  <2> HIDE DEF e, queue
  <2>5. /\ e \in Drivers /\ Alike(d, e, {"queued"}) /\ e.queued = queue
    BY <2>1, <2>3 DEF Steady, Drivers, Alike, Fields
  <2>6. Timed(e) /\ Unrecorded(e)
    BY <2>1, <2>5, AlikeFields DEF Steady, Timed, Unrecorded
  <2>7. Alike(d, e, Soft) /\ Alike(d, e, {"queued", "answer"})
    BY <2>5 DEF Alike, Soft
  <2>8. Steady(e, W)
    BY <2>5, <2>6, <2>7, SoftSteady
  <2>9. /\ e.join_waiters = d.join_waiters /\ e.deferred_leave = d.deferred_leave
        /\ e.pending_calls = d.pending_calls
        /\ e.pending_leaves = d.pending_leaves
        /\ e.answer = d.answer /\ e.sent = d.sent
    BY <2>5, AlikeFields
  <2>10. \A i : Has(e, i) <=> Has(d, i) \/ i = id
    BY <2>3, <2>5, <2>9 DEF Has
  <2>11. Once(e)
    <3>1. \A other \in d.pending_calls : other.id # id
      BY DEF Has
    <3> QED BY <2>3, <2>5, <2>9, <2>10, <3>1 DEF Once
  <2>12. Takes(d, e, {id}) /\ Closed(e) \subseteq Closed(d)
    BY <2>9, <2>10 DEF Takes, Closed, Once
  <2> QED BY <2>4, <2>5, <2>7, <2>8, <2>11, <2>12 DEF e, Moves
<1> QED BY <1>2, <1>3

(* One step of a flush: the first push leaves the buffer and is sent.      *)
Flushing == {"proto", "pending_calls", "answer", "wire", "sent", "queued"}

(* One push of a flush moves a request from the buffer to the pending      *)
(* calls.                                                                  *)
LEMMA FlushStep ==
  ASSUME NEW W, NEW d, Steady(d, W), Once(d), Chan(d.proto).state = "Joined",
         d.queued # <<>>, NEW ok \in BOOLEAN
  PROVE  LET e == SendPush([d EXCEPT !.queued = Tail(@)], Head(d.queued), ok)
         IN  /\ Steady(e, W) /\ Moves(d, e, {}) /\ Alike(d, e, Flushing)
             /\ Chan(e.proto) = Chan(d.proto) /\ e.queued = Tail(d.queued)
<1> DEFINE c == [d EXCEPT !.queued = Tail(@)]
           id == Head(d.queued)
           e == SendPush(c, id, ok)
           rest == Tail(d.queued)
<1>1. /\ rest \in Seq(Pushes) /\ id \in Pushes
      /\ ToSet(d.queued) = ToSet(rest) \cup {id}
      /\ IsInjective(rest) /\ id \notin ToSet(rest)
  <2>1. d.queued \in Seq(Pushes)
    BY DEF Steady, Drivers
  <2> QED BY <2>1, Shifted DEF Once
<1>2. c = [d EXCEPT !.queued = rest]
  OBVIOUS
<1> HIDE DEF c, id, rest
<1>3. c \in Drivers /\ Alike(d, c, {"queued"}) /\ c.queued = rest
  BY <1>1, <1>2 DEF Steady, Drivers, Alike, Fields
<1>4. d.registered
  BY StateFacts DEF Active
<1>5. Timed(c) /\ Unrecorded(c)
  BY <1>3, <1>4, AlikeFields DEF Steady, Timed, Unrecorded
<1>6. Alike(d, c, Soft)
  BY <1>3 DEF Alike, Soft
<1>7. Steady(c, W)
  BY <1>3, <1>5, <1>6, SoftSteady
<1>8. /\ c.join_waiters = d.join_waiters /\ c.deferred_leave = d.deferred_leave
      /\ c.pending_calls = d.pending_calls
      /\ c.pending_leaves = d.pending_leaves
      /\ c.answer = d.answer /\ c.sent = d.sent /\ c.proto = d.proto
  BY <1>3, AlikeFields
<1>9. \A i : Has(c, i) => Has(d, i)
  BY <1>1, <1>3, <1>8 DEF Has
<1>10. \A i : Has(d, i) => Has(c, i) \/ i = id
  BY <1>1, <1>3, <1>8 DEF Has
<1>11. Once(c)
  BY <1>1, <1>3, <1>8, <1>9 DEF Once
<1>12. ~Has(c, id) /\ c.answer[id] = "none" /\ id \notin ToSet(c.sent) /\ Has(d, id)
  <2>1. id \in ToSet(d.queued) /\ id \in Ids
    BY <1>1 DEF Ids
  <2>2. Has(d, id) /\ d.answer[id] = "none" /\ id \notin ToSet(d.sent)
    BY <2>1 DEF Once, Has
  <2>3. id \notin d.join_waiters /\ ~(d.deferred_leave.open /\ d.deferred_leave.id = id)
        /\ \A pending \in d.pending_leaves : pending.id # id
    BY <1>1, DriverAssumption DEF Steady, Drivers, NoLeave
  <2>4. \A call \in d.pending_calls : call.id # id
    BY <2>1 DEF Once
  <2> QED BY <1>1, <1>3, <1>8, <2>2, <2>3, <2>4 DEF Has
<1>13. /\ Steady(e, W) /\ Moves(c, e, {id})
       /\ Alike(c, e, {"proto", "pending_calls", "answer", "wire", "sent"})
       /\ Chan(e.proto) = Chan(d.proto)
  <2>1. Chan(c.proto).state = "Joined" /\ Chan(c.proto) = Chan(d.proto)
    BY <1>8
  <2>2. ~Has(c, id) /\ c.answer[id] = "none" /\ id \notin ToSet(c.sent)
        /\ id \in Pushes
    BY <1>1, <1>12
  <2> QED BY <1>7, <1>11, <2>1, <2>2, SendPushEffect
<1> HIDE DEF e
<1>14. Takes(d, e, {})
  <2>1. \A i \in Ids : Has(d, i) \/ i \in {} <=> Has(c, i) \/ i \in {id}
    BY <1>9, <1>10, <1>12
  <2>2. \A i \in Ids : IF Has(d, i) \/ i \in {}
                         THEN Has(e, i) <=> e.answer[i] = "none"
                         ELSE ~Has(e, i) /\ e.answer[i] = d.answer[i]
    BY <1>8, <1>13, <2>1 DEF Moves, Takes
  <2>3. \A i \in ToSet(e.sent) : i \in ToSet(d.sent) \/ Has(d, i)
    BY <1>8, <1>9, <1>12, <1>13 DEF Moves, Takes
  <2> QED BY <2>2, <2>3 DEF Takes
<1>15. Closed(c) = Closed(d)
  BY <1>8 DEF Closed
<1>16. Alike(d, e, Flushing) /\ e.queued = rest
  <2>1. e.queued = c.queued
    BY <1>13, AlikeFields
  <2> QED BY <1>3, <1>13, <2>1 DEF Alike, Flushing
<1> QED BY <1>13, <1>14, <1>15, <1>16 DEF Moves, e, c, id, rest

(* The pushes of the buffer go out, or the first n of them.                *)
LEMMA FlushEffect ==
  ASSUME NEW W, NEW d, Steady(d, W), Once(d), Chan(d.proto).state = "Joined",
         NEW n \in 0..Len(d.queued), NEW ok \in BOOLEAN
  PROVE  LET e == Flush(d, n, ok)
         IN  /\ Steady(e, W) /\ Moves(d, e, {}) /\ Alike(d, e, Flushing)
             /\ Chan(e.proto) = Chan(d.proto)
             /\ Len(e.queued) = Len(d.queued) - n
<1>1. Len(d.queued) \in Nat /\ n \in Nat /\ n <= Len(d.queued)
  BY DEF Steady, Drivers
<1> PICK e : FlushSteps(e, d, n, ok)
  BY <1>1, FlushHasSteps
<1> DEFINE At(k) == /\ Steady(e[k], W) /\ Moves(d, e[k], {})
                    /\ Alike(d, e[k], Flushing)
                    /\ Chan(e[k].proto) = Chan(d.proto)
                    /\ Len(e[k].queued) = Len(d.queued) - k
                    /\ \A i \in 1..(Len(d.queued) - k) :
                         e[k].queued[i] = d.queued[k + i]
           S == {k \in Nat : k <= n => At(k)}
<1>2. 0 \in S
  <2>1. Alike(d, d, Fields \ Holding) /\ Alike(d, d, Flushing)
    BY DEF Alike
  <2>2. Moves(d, d, {})
    BY <2>1, KeepsAll
  <2>3. \A i \in 1..(Len(d.queued) - 0) : 0 + i = i
    BY <1>1
  <2>4. e[0] = d
    BY DEF FlushSteps
  <2> QED BY <1>1, <2>1, <2>2, <2>3, <2>4
<1>3. ASSUME NEW k \in S, k + 1 <= n
      PROVE  At(k + 1)
  <2> DEFINE c == e[k]
             f == e[k + 1]
             id == d.queued[k + 1]
  <2>1. k \in Nat /\ k <= n /\ k + 1 \in 1..n /\ (k + 1) - 1 = k
    BY <1>1, <1>3
  <2>2. /\ Steady(c, W) /\ Moves(d, c, {}) /\ Alike(d, c, Flushing)
        /\ Chan(c.proto) = Chan(d.proto)
        /\ Len(c.queued) = Len(d.queued) - k
        /\ \A i \in 1..(Len(d.queued) - k) : c.queued[i] = d.queued[k + i]
    BY <2>1
  <2>3. f = SendPush([c EXCEPT !.queued = Tail(@)], id, ok \/ (k + 1) < n)
    BY <2>1 DEF FlushSteps
  <2> HIDE DEF c, f
  <2>4. c.queued \in Seq(Pushes) /\ Len(c.queued) > 0 /\ c.queued # <<>>
    <3>1. c.queued \in Seq(Pushes)
      BY <2>2 DEF Steady, Drivers
    <3>2. Len(c.queued) > 0
      BY <1>1, <2>1, <2>2
    <3> QED BY <3>1, <3>2
  <2>5. /\ Head(c.queued) = c.queued[1]
        /\ Len(Tail(c.queued)) = Len(c.queued) - 1
        /\ \A i \in 1..(Len(c.queued) - 1) : Tail(c.queued)[i] = c.queued[i + 1]
    BY <2>4, Shifted
  <2>6. Head(c.queued) = id
    <3>1. 1 \in 1..(Len(d.queued) - k)
      BY <1>1, <2>1
    <3> QED BY <2>2, <2>5, <3>1
  <2>7. (ok \/ (k + 1) < n) \in BOOLEAN
    OBVIOUS
  <2> HIDE DEF id
  <2>8. /\ Steady(f, W) /\ Moves(c, f, {}) /\ Alike(c, f, Flushing)
        /\ Chan(f.proto) = Chan(c.proto) /\ f.queued = Tail(c.queued)
    BY <2>2, <2>3, <2>4, <2>6, <2>7, FlushStep DEF Moves
  <2>9. Moves(d, f, {})
    BY <2>2, <2>8, MovesThen DEF Steady
  <2>10. Alike(d, f, Flushing)
    BY <2>2, <2>8 DEF Alike
  <2>11. Len(f.queued) = Len(d.queued) - (k + 1)
    BY <1>1, <2>1, <2>2, <2>5, <2>8
  <2>12. ASSUME NEW i \in 1..(Len(d.queued) - (k + 1))
         PROVE  f.queued[i] = d.queued[(k + 1) + i]
    <3>1. /\ i \in 1..(Len(c.queued) - 1) /\ i + 1 \in 1..(Len(d.queued) - k)
          /\ k + (i + 1) = (k + 1) + i
      <4>1. Len(c.queued) = Len(d.queued) - k /\ i \in Nat
        BY <2>2
      <4> DEFINE m == Len(d.queued)
                 l == Len(c.queued)
      <4>2. i \in 1..(m - (k + 1)) /\ m \in Nat /\ l = m - k /\ k \in Nat
        BY <1>1, <2>1, <4>1
      <4> HIDE DEF m, l
      <4>3. i \in 1..(l - 1) /\ i + 1 \in 1..(m - k) /\ k + (i + 1) = (k + 1) + i
        BY <4>2
      <4> QED BY <4>3 DEF m, l
    <3> QED BY <2>2, <2>5, <2>8, <3>1
  <2> QED BY <2>2, <2>8, <2>9, <2>10, <2>11, <2>12 DEF f
<1>4. \A k \in S \cap Nat : k + 1 \in S
  BY <1>3
<1> HIDE DEF At
<1>5. n \in S
  BY <1>1, <1>2, <1>4, Induction
<1>6. At(n)
  BY <1>1, <1>5
<1>7. e[n] = Flush(d, n, ok)
  BY DEF FlushSteps
<1> QED BY <1>6, <1>7 DEF At

---------------------------------------------------------------------------
(***************************************************************************)
(* What is true between handlers.                                          *)
(***************************************************************************)
(* The push buffer of a joined channel is empty, and never too long.       *)
Buffered(d) ==
  /\ Chan(d.proto).state = "Joined" => d.queued = <<>>
  /\ Len(d.queued) <= d.capacity

(* The status agrees with the protocol.                                    *)
Shown(d) ==
  d.registered => (d.status = "Joined" <=> Chan(d.proto).state = "Joined")

(* A channel that is wanted is joined or on its way.                       *)
OnItsWay(d) ==
  d.desired /\ d.status # "Left" =>
    \/ Chan(d.proto).state \in Active
    \/ d.active_payload # 0 \/ d.rejoins > 0

(* The join that is pending is the one the channel waits for.              *)
Clear(d) ==
  d.registered /\ d.pending_joins # {} =>
    Chan(d.proto).state = "Joining" /\ d.pending_joins = {JoinRef(d)}

(* All that a handler from d to e keeps.  (A leave that times out may clear *)
(* the way no longer: its caller is told so, or was gone.)                 *)
Keeps(d, e) ==
  /\ e.capacity = d.capacity
  /\ Buffered(d) => Buffered(e)
  /\ Shown(d) => Shown(e)
  /\ Clear(d) => \/ Clear(e)
                 \/ Closed(d) # {}
                 \/ \E i \in Leaves : e.answer[i] = "failed"

Done(d, e, S) ==
  /\ Moves(d, e, S) /\ Keeps(d, e)
  /\ e.registered = d.registered
  /\ ~d.registered => e.pending_joins \subseteq d.pending_joins

(* What such a step need not look at.                                      *)
Aside == Fields \ {"capacity", "registered", "proto", "queued", "status",
                   "pending_joins", "desired", "active_payload", "rejoins"}

(* A step that leaves alone what is looked at between two rests.           *)
LEMMA DoneAside ==
  ASSUME NEW d, NEW e, NEW S, Moves(d, e, S), Alike(d, e, Aside)
  PROVE  Done(d, e, S) /\ (OnItsWay(d) => OnItsWay(e))
<1>1. /\ e.capacity = d.capacity /\ e.registered = d.registered
      /\ e.proto = d.proto /\ e.queued = d.queued /\ e.status = d.status
      /\ e.pending_joins = d.pending_joins /\ e.desired = d.desired
      /\ e.active_payload = d.active_payload /\ e.rejoins = d.rejoins
  BY DEF Alike, Fields, Aside
<1> QED BY <1>1 DEF Done, Keeps, Buffered, Shown, Clear, OnItsWay, JoinRef

(* A request that is new to the driver.                                    *)
New(d, id) ==
  /\ id \in Ids /\ ~Has(d, id) /\ d.answer[id] = "none"
  /\ id \notin ToSet(d.sent)

(* A request that is refused at once is answered, and that is all.         *)
LEMMA RefusalKeeps ==
  ASSUME NEW W, NEW d, Steady(d, W), Once(d), NEW id, New(d, id),
         NEW result \in Answers \ {"none"}
  PROVE  LET e == Answer(d, {id}, result)
         IN  /\ Steady(e, W) /\ Done(d, e, {id}) /\ (OnItsWay(d) => OnItsWay(e))
             /\ Alike(d, e, {"answer"})
<1> DEFINE e == Answer(d, {id}, result)
<1>1. Steady(e, W) /\ Alike(d, e, {"answer"}) /\ Moves(d, e, {id})
  BY AnswerNew DEF New
<1> HIDE DEF e
<1>2. Alike(d, e, Aside)
  BY <1>1 DEF Alike, Aside, Fields
<1> QED BY <1>1, <1>2, DoneAside DEF e

---------------------------------------------------------------------------
(* The commands of the application.                                        *)

(* The caller of a join waits.                                             *)
Awaited(d, id, status) ==
  [d EXCEPT !.desired = TRUE, !.status = status, !.join_waiters = @ \cup {id}]

(* A new caller of a join waits, and the channel is wanted.                *)
LEMMA WaiterEffect ==
  ASSUME NEW W, NEW d, Steady(d, W), Once(d), d.registered,
         NEW id \in Joins, New(d, id), NEW status \in Statuses
  PROVE  LET e == Awaited(d, id, status)
         IN  /\ Steady(e, W) /\ Moves(d, e, {id})
             /\ Alike(d, e, {"desired", "status", "join_waiters"})
             /\ e.desired /\ e.status = status
<1> DEFINE e == Awaited(d, id, status)
<1>1. e \in Drivers
  BY DEF Awaited, Steady, Drivers
<1>2. /\ Alike(d, e, {"desired", "status", "join_waiters"})
      /\ e.desired /\ e.status = status
      /\ e.join_waiters = d.join_waiters \cup {id}
  BY DEF Awaited, Steady, Drivers, Alike, Fields
<1> HIDE DEF e
<1>3. Alike(d, e, Soft)
  BY <1>2 DEF Alike, Soft
<1>4. Timed(e) /\ Unrecorded(e)
  BY <1>2, AlikeFields DEF Steady, Timed, Unrecorded
<1>5. Steady(e, W)
  BY <1>1, <1>3, <1>4, SoftSteady
<1>6. /\ e.queued = d.queued /\ e.deferred_leave = d.deferred_leave
      /\ e.pending_calls = d.pending_calls
      /\ e.pending_leaves = d.pending_leaves
      /\ e.answer = d.answer /\ e.sent = d.sent
  BY <1>2, AlikeFields
<1>7. \A i : Has(e, i) <=> Has(d, i) \/ i = id
  BY <1>2, <1>6 DEF Has
<1>8. Once(e)
  BY <1>6, <1>7 DEF Once, New
<1>9. Takes(d, e, {id}) /\ Closed(e) \subseteq Closed(d)
  BY <1>6, <1>7 DEF Takes, Closed, Once, New
<1> QED BY <1>2, <1>5, <1>8, <1>9 DEF Moves, e

(* handle_join                                                             *)
LEMMA JoinCommandKeeps ==
  ASSUME NEW W, NEW d, Steady(d, W), Once(d), NEW id \in Joins, New(d, id)
  PROVE  LET e == JoinCommand(d, id)
         IN  Steady(e, W) /\ Done(d, e, {id}) /\ (OnItsWay(d) => OnItsWay(e))
<1> DEFINE e == JoinCommand(d, id)
<1>1. {"ok", "failed", "interrupted"} \subseteq Answers \ {"none"}
      /\ {"Joined", "WaitingToJoin"} \subseteq Statuses
  BY DEF Answers, Statuses
<1>2. CASE ~d.registered
  <2>1. e = Answer(d, {id}, "failed")
    BY <1>2 DEF JoinCommand
  <2> QED BY <1>1, <2>1, RefusalKeeps
<1>3. CASE d.registered /\ Chan(d.proto).state = "Joined"
  <2> DEFINE c == [d EXCEPT !.desired = TRUE, !.status = "Joined"]
  <2>1. e = Answer(c, {id}, "failed")
    BY <1>3, StateFacts DEF JoinCommand
  <2>2. c \in Drivers /\ Alike(d, c, {"desired", "status"}) /\ c.status = "Joined"
    BY <1>1 DEF Steady, Drivers, Alike, Fields
  <2> HIDE DEF c
  <2>3. Alike(d, c, Soft) /\ Alike(d, c, Fields \ Holding)
    BY <2>2 DEF Alike, Soft, Fields, Holding
  <2>4. Timed(c) /\ Unrecorded(c)
    BY <1>3, <2>2, AlikeFields DEF Steady, Timed, Unrecorded
  <2>5. Steady(c, W) /\ Moves(d, c, {})
    BY <2>2, <2>3, <2>4, SoftSteady, KeepsAll
  <2>6. ~Has(c, id) /\ Once(c)
    BY <2>5 DEF Moves, Takes, New
  <2>7. Steady(e, W) /\ Alike(c, e, {"answer"}) /\ Moves(c, e, {id})
    BY <1>1, <2>1, <2>5, <2>6, AnswerNew
  <2> HIDE DEF e
  <2>8. Moves(d, e, {id})
    BY <2>5, <2>7, MovesThen DEF Steady
  <2>9. Alike(d, e, {"desired", "status", "answer"})
    BY <2>2, <2>7 DEF Alike
  <2>10. /\ e.status = "Joined" /\ e.proto = d.proto /\ e.queued = d.queued
         /\ e.capacity = d.capacity /\ e.registered = d.registered
         /\ e.pending_joins = d.pending_joins
    BY <2>2, <2>7, <2>9, AlikeFields
  <2>11. Done(d, e, {id}) /\ (OnItsWay(d) => OnItsWay(e))
    BY <1>3, <2>8, <2>10
       DEF Done, Keeps, Buffered, Shown, Clear, OnItsWay, JoinRef, Active
  <2> QED BY <2>7, <2>11 DEF e
<1>4. CASE d.registered /\ Chan(d.proto).state # "Joined"
  <2> DEFINE c == Awaited(d, id, "WaitingToJoin")
  <2>1. e = LoadPayload(c)
    BY <1>4, StateFacts DEF JoinCommand, Awaited
  <2>2. /\ Steady(c, W) /\ Moves(d, c, {id})
        /\ Alike(d, c, {"desired", "status", "join_waiters"})
        /\ c.desired /\ c.status = "WaitingToJoin"
    BY <1>1, <1>4, WaiterEffect
  <2> HIDE DEF c
  <2>3. /\ Steady(e, W) /\ Alike(c, e, {"status", "active_payload", "loads"})
        /\ Chan(c.proto).state \notin Active => e.active_payload # 0
        /\ e = c \/ e.status = "WaitingToJoin"
        /\ Moves(c, e, {})
    BY <2>1, <2>2, LoadEffect DEF Moves
  <2> HIDE DEF e
  <2>4. Moves(d, e, {id})
    BY <2>2, <2>3, MovesThen DEF Steady
  <2>5. Alike(d, e, {"desired", "status", "join_waiters", "active_payload", "loads"})
    BY <2>2, <2>3 DEF Alike
  <2>6. /\ e.status = "WaitingToJoin" /\ e.proto = d.proto /\ e.queued = d.queued
        /\ e.capacity = d.capacity /\ e.registered = d.registered
        /\ e.pending_joins = d.pending_joins /\ c.proto = d.proto
    BY <2>2, <2>3, <2>5, AlikeFields
  <2>7. Done(d, e, {id}) /\ OnItsWay(e)
    BY <1>4, <2>3, <2>4, <2>6
       DEF Done, Keeps, Buffered, Shown, Clear, OnItsWay, JoinRef
  <2> QED BY <2>3, <2>7 DEF e
<1> QED BY <1>2, <1>3, <1>4

(* A join while no socket is connected.                                    *)
LEMMA OfflineJoinKeeps ==
  ASSUME NEW W, NEW d, Steady(d, W), Once(d), NEW id \in Joins, New(d, id),
         Chan(d.proto).state \notin Active
  PROVE  LET e == OfflineJoin(d, id)
         IN  /\ Steady(e, W) /\ Done(d, e, {id})
             /\ e.proto = d.proto /\ e.wire = d.wire
<1> DEFINE e == OfflineJoin(d, id)
<1>1. {"ok", "failed", "interrupted"} \subseteq Answers \ {"none"}
      /\ "WaitingForSocket" \in Statuses
  BY DEF Answers, Statuses
<1>2. CASE ~d.registered
  <2>1. e = Answer(d, {id}, "failed")
    BY <1>2 DEF OfflineJoin
  <2> HIDE DEF e
  <2>2. Steady(e, W) /\ Done(d, e, {id}) /\ Alike(d, e, {"answer"})
    BY <1>1, <2>1, RefusalKeeps
  <2> QED BY <2>2, AlikeFields DEF e
<1>3. CASE d.registered
  <2>1. e = Awaited(d, id, "WaitingForSocket")
    BY <1>3 DEF OfflineJoin, Awaited
  <2> HIDE DEF e
  <2>2. /\ Steady(e, W) /\ Moves(d, e, {id})
        /\ Alike(d, e, {"desired", "status", "join_waiters"})
        /\ e.desired /\ e.status = "WaitingForSocket"
    BY <1>1, <1>3, <2>1, WaiterEffect
  <2>3. /\ e.proto = d.proto /\ e.queued = d.queued
        /\ e.capacity = d.capacity /\ e.registered = d.registered
        /\ e.pending_joins = d.pending_joins /\ e.wire = d.wire
    BY <2>2, AlikeFields
  <2>4. Done(d, e, {id})
    BY <1>3, <2>2, <2>3
       DEF Done, Keeps, Buffered, Shown, Clear, JoinRef, Active
  <2> QED BY <2>2, <2>3, <2>4 DEF e
<1> QED BY <1>2, <1>3

(* push_or_queue                                                           *)
LEMMA QueueKeeps ==
  ASSUME NEW W, NEW d, Steady(d, W), Once(d), NEW id \in Pushes, New(d, id),
         Chan(d.proto).state # "Joined"
  PROVE  LET e == Queue(d, id)
         IN  /\ Steady(e, W) /\ Done(d, e, {id}) /\ (OnItsWay(d) => OnItsWay(e))
             /\ e.proto = d.proto /\ e.wire = d.wire
<1> DEFINE e == Queue(d, id)
<1>1. /\ Steady(e, W) /\ Moves(d, e, {id})
      /\ Alike(d, e, {"queued", "answer"})
      /\ Len(d.queued) <= d.capacity => Len(e.queued) <= d.capacity
  BY QueueEffect DEF New
<1> HIDE DEF e
<1>2. /\ e.proto = d.proto /\ e.wire = d.wire /\ e.status = d.status
      /\ e.capacity = d.capacity /\ e.registered = d.registered
      /\ e.pending_joins = d.pending_joins /\ e.desired = d.desired
      /\ e.active_payload = d.active_payload /\ e.rejoins = d.rejoins
  BY <1>1, AlikeFields
<1>3. Done(d, e, {id}) /\ (OnItsWay(d) => OnItsWay(e))
  BY <1>1, <1>2 DEF Done, Keeps, Buffered, Shown, Clear, OnItsWay, JoinRef
<1> QED BY <1>1, <1>2, <1>3 DEF e

(* The push command: called, buffered or refused, in every case held once. *)
LEMMA PushCommandKeeps ==
  ASSUME NEW W, NEW d, Steady(d, W), Once(d), NEW id \in Pushes, New(d, id),
         NEW ok \in BOOLEAN
  PROVE  LET e == PushCommand(d, id, ok)
         IN  Steady(e, W) /\ Done(d, e, {id}) /\ (OnItsWay(d) => OnItsWay(e))
<1> DEFINE e == PushCommand(d, id, ok)
<1>1. CASE Chan(d.proto).state # "Joined"
  <2>1. e = Queue(d, id)
    BY <1>1, StateFacts DEF PushCommand
  <2> QED BY <1>1, <2>1, QueueKeeps
<1>2. CASE Chan(d.proto).state = "Joined"
  <2>1. e = SendPush(d, id, ok)
    BY <1>2, StateFacts DEF PushCommand
  <2> HIDE DEF e
  <2>2. /\ Steady(e, W) /\ Moves(d, e, {id})
        /\ Alike(d, e, {"proto", "pending_calls", "answer", "wire", "sent"})
        /\ Chan(e.proto) = Chan(d.proto)
    BY <1>2, <2>1, SendPushEffect DEF New
  <2>3. /\ e.queued = d.queued /\ e.status = d.status
        /\ e.capacity = d.capacity /\ e.registered = d.registered
        /\ e.pending_joins = d.pending_joins
    BY <2>2, AlikeFields
  <2>4. JoinRef(e) = JoinRef(d)
    BY <2>2 DEF JoinRef, Chan
  <2>5. Done(d, e, {id}) /\ OnItsWay(e)
    BY <1>2, <2>2, <2>3, <2>4
       DEF Done, Keeps, Buffered, Shown, Clear, OnItsWay, Active
  <2> QED BY <2>2, <2>5 DEF e
<1> QED BY <1>1, <1>2

(* A leave is entered, in the table or as a deferred one.                  *)
LEMMA LeaveEntered ==
  ASSUME NEW d, NEW e, Once(d), NEW id \in Leaves, New(d, id),
         NEW entry, entry.id = id, entry.open,
         e.join_waiters = d.join_waiters, e.queued = d.queued,
         e.pending_calls = d.pending_calls,
         e.answer = d.answer, e.sent = d.sent,
         \/ /\ e.deferred_leave = d.deferred_leave
            /\ e.pending_leaves = d.pending_leaves \cup {entry}
         \/ /\ d.deferred_leave = NoLeave /\ e.deferred_leave = entry
            /\ e.pending_leaves = d.pending_leaves
  PROVE  Moves(d, e, {id})
<1>1. \A i : Has(e, i) <=> Has(d, i) \/ i = id
  BY DEF Has, NoLeave
<1>2. \A other \in d.pending_leaves : other.open => other.id # id
  BY DEF New, Has
<1>3. d.deferred_leave.open => d.deferred_leave.id # id
  BY DEF New, Has
<1>4. Once(e)
  BY <1>1, <1>2, <1>3 DEF Once, New
<1>5. Takes(d, e, {id}) /\ Closed(e) \subseteq Closed(d)
  BY <1>1 DEF Takes, Closed, Once, New
<1> QED BY <1>4, <1>5 DEF Moves

(* handle_leave                                                            *)
LEMMA LeaveCommandKeeps ==
  ASSUME NEW W, NEW d, Steady(d, W), Once(d), NEW id \in Leaves, New(d, id)
  PROVE  LET e == LeaveCommand(d, id)
         IN  Steady(e, W) /\ Done(d, e, {id}) /\ OnItsWay(e)
<1> DEFINE status == IF State(d) \in {"Joined", "Joining"} THEN "Leaving" ELSE "Left"
           c == SetStatus(d, status)
           s == StopChannel(c)
           pending == [id |-> id, open |-> TRUE]
           e == LeaveCommand(d, id)
<1>1. /\ {"Leaving", "Left"} \subseteq Statuses /\ "ok" \in Answers \ {"none"}
      /\ pending \in [id : Leaves, open : BOOLEAN] /\ pending.id = id /\ pending.open
  BY DEF Answers, Statuses
<1>2. e = CASE State(d) = "Joined" -> StartLeave(s, pending)
            [] State(d) = "Joining" /\ d.registered -> [s EXCEPT !.deferred_leave = pending]
            [] OTHER -> Answer(s, {id}, "ok")
  BY DEF LeaveCommand
<1>3. State(d) = Chan(d.proto).state /\ (State(d) \in Active => d.registered)
  BY StateFacts
<1>4. status \in {"Leaving", "Left"}
  OBVIOUS
<1> HIDE DEF e, status, pending
<1>5. /\ Steady(c, W) /\ Alike(d, c, {"status"}) /\ Moves(d, c, {})
      /\ c.status = IF d.registered THEN status ELSE d.status
  BY <1>1, <1>4, SetStatusEffect
<1> HIDE DEF c
<1>6. /\ Steady(s, W) /\ Alike(c, s, Stopped)
      /\ ~s.desired /\ s.active_payload = 0 /\ ~s.rejoin_scheduled
      /\ s.deferred_leave = NoLeave /\ s.join_waiters = {} /\ s.queued = <<>>
      /\ Moves(c, s, {})
  BY <1>5, StopEffect DEF Moves
<1> HIDE DEF s
<1>7. Moves(d, s, {})
  BY <1>5, <1>6, MovesThen DEF Steady
<1>8. /\ s.proto = d.proto /\ s.registered = d.registered
      /\ s.pending_joins = d.pending_joins /\ s.capacity = d.capacity
      /\ s.pending_leaves = d.pending_leaves /\ s.wire = d.wire
      /\ s.status = IF d.registered THEN status ELSE d.status
  BY <1>5, <1>6, AlikeFields DEF Stopped
<1>9. Once(s) /\ New(s, id)
  <2>1. ~Has(s, id) /\ s.answer[id] = "none"
    BY <1>7 DEF Moves, Takes, New
  <2>2. id \notin ToSet(s.sent)
    BY <1>7 DEF Moves, Takes, New
  <2> QED BY <1>7, <2>1, <2>2 DEF Moves, New
<1>10. ASSUME Steady(e, W), Moves(s, e, {id}), e.queued = <<>>, ~e.desired,
              e.registered = d.registered, e.pending_joins = d.pending_joins,
              e.capacity = d.capacity, e.status = s.status, JoinRef(e) = JoinRef(d),
              \/ Chan(e.proto) = Chan(d.proto) /\ State(d) # "Joined"
              \/ Chan(e.proto).state = "Leaving" /\ State(d) = "Joined"
       PROVE  Steady(e, W) /\ Done(d, e, {id}) /\ OnItsWay(e)
  <2>1. Moves(d, e, {id})
    BY <1>7, <1>10, MovesThen DEF Steady
  <2>2. d.capacity \in Nat /\ Len(<<>>) = 0
    BY DEF Steady, Drivers
  <2>3. Buffered(e) /\ OnItsWay(e)
    BY <1>10, <2>2 DEF Buffered, OnItsWay
  <2>4. (Shown(d) => Shown(e)) /\ (Clear(d) => Clear(e))
    BY <1>3, <1>4, <1>8, <1>10 DEF Shown, Clear
  <2> QED BY <1>10, <2>1, <2>3, <2>4 DEF Done, Keeps
<1>11. CASE State(d) = "Joined"
  <2>1. e = StartLeave(s, pending)
    BY <1>2, <1>11
  <2>2. /\ Steady(e, W)
        /\ Alike(s, e, {"proto", "pending_leaves", "op_timeouts", "wire"})
        /\ Chan(e.proto).state = "Leaving" /\ JoinRef(e) = JoinRef(s)
        /\ e.pending_leaves = s.pending_leaves \cup {LeaveEntry(s, pending)}
    <3>1. Chan(s.proto).state = "Joined" /\ Steady(s, W)
      BY <1>3, <1>6, <1>8, <1>11
    <3> QED BY <1>1, <2>1, <3>1, StartLeaveEffect
  <2>3. /\ e.join_waiters = s.join_waiters /\ e.queued = s.queued
        /\ e.pending_calls = s.pending_calls /\ e.answer = s.answer
        /\ e.sent = s.sent /\ e.deferred_leave = s.deferred_leave
        /\ e.desired = s.desired /\ e.registered = s.registered
        /\ e.pending_joins = s.pending_joins /\ e.capacity = s.capacity
        /\ e.status = s.status
    BY <2>2, AlikeFields
  <2> DEFINE entry == LeaveEntry(s, pending)
  <2>4. entry.id = id /\ entry.open /\ e.pending_leaves = s.pending_leaves \cup {entry}
    BY <1>1, <2>2 DEF LeaveEntry
  <2> HIDE DEF entry
  <2>5. Moves(s, e, {id})
    BY <1>9, <2>3, <2>4, LeaveEntered
  <2>6. JoinRef(e) = JoinRef(d)
    BY <1>8, <2>2 DEF JoinRef
  <2> QED BY <1>6, <1>8, <1>10, <1>11, <2>2, <2>3, <2>5, <2>6 DEF e
<1>12. CASE State(d) = "Joining"
  <2>1. e = [s EXCEPT !.deferred_leave = pending] /\ d.registered
    BY <1>2, <1>3, <1>12 DEF Active
  <2>2. e \in Drivers /\ Alike(s, e, {"deferred_leave"}) /\ e.deferred_leave = pending
    BY <1>1, <1>6, <2>1 DEF Steady, Drivers, Alike, Fields
  <2>3. Alike(s, e, Soft)
    BY <2>2 DEF Alike, Soft
  <2>4. Timed(e) /\ Unrecorded(e)
    <3>1. /\ e.loads = s.loads /\ e.active_payload = s.active_payload
          /\ e.rejoin_scheduled = s.rejoin_scheduled /\ e.rejoins = s.rejoins
          /\ e.proto = s.proto /\ e.registered = s.registered
      BY <2>2, AlikeFields
    <3>2. Timed(s) /\ s.registered
      BY <1>6, <1>8, <2>1 DEF Steady
    <3> QED BY <3>1, <3>2 DEF Timed, Unrecorded
  <2>5. Steady(e, W)
    BY <1>6, <2>2, <2>3, <2>4, SoftSteady
  <2>6. /\ e.join_waiters = s.join_waiters /\ e.queued = s.queued
        /\ e.pending_calls = s.pending_calls /\ e.answer = s.answer
        /\ e.sent = s.sent /\ e.pending_leaves = s.pending_leaves
        /\ e.desired = s.desired /\ e.registered = s.registered
        /\ e.pending_joins = s.pending_joins /\ e.capacity = s.capacity
        /\ e.status = s.status /\ e.proto = s.proto
    BY <2>2, AlikeFields
  <2>7. Moves(s, e, {id})
    BY <1>1, <1>6, <1>9, <2>2, <2>6, LeaveEntered
  <2>8. JoinRef(e) = JoinRef(d)
    BY <1>8, <2>6 DEF JoinRef
  <2> QED BY <1>6, <1>8, <1>10, <1>12, <2>5, <2>6, <2>7, <2>8 DEF e
<1>13. CASE State(d) \notin {"Joined", "Joining"}
  <2>1. e = Answer(s, {id}, "ok")
    BY <1>2, <1>13
  <2>2. Steady(e, W) /\ Alike(s, e, {"answer"}) /\ Moves(s, e, {id})
    BY <1>1, <1>6, <1>9, <2>1, AnswerNew DEF New
  <2>3. /\ e.queued = s.queued /\ e.desired = s.desired
        /\ e.registered = s.registered
        /\ e.pending_joins = s.pending_joins /\ e.capacity = s.capacity
        /\ e.status = s.status /\ e.proto = s.proto
    BY <2>2, AlikeFields
  <2>4. JoinRef(e) = JoinRef(d)
    BY <1>8, <2>3 DEF JoinRef
  <2> QED BY <1>6, <1>8, <1>10, <1>13, <2>2, <2>3, <2>4 DEF e
<1> QED BY <1>11, <1>12, <1>13 DEF e

(* A leave while no socket is connected.                                   *)
LEMMA OfflineLeaveKeeps ==
  ASSUME NEW W, NEW d, Steady(d, W), Once(d), NEW id \in Leaves, New(d, id),
         Chan(d.proto).state \notin Active
  PROVE  LET e == OfflineLeave(d, id)
         IN  /\ Steady(e, W) /\ Done(d, e, {id})
             /\ e.proto = d.proto /\ e.wire = d.wire
<1> DEFINE c == SetStatus(d, "Left")
           s == StopChannel(c)
           e == OfflineLeave(d, id)
<1>1. "Left" \in Statuses /\ "ok" \in Answers \ {"none"}
  BY DEF Answers, Statuses
<1>2. e = Answer(s, {id}, "ok")
  BY DEF OfflineLeave
<1> HIDE DEF e
<1>3. /\ Steady(c, W) /\ Alike(d, c, {"status"}) /\ Moves(d, c, {})
      /\ c.status = IF d.registered THEN "Left" ELSE d.status
  BY <1>1, SetStatusEffect
<1> HIDE DEF c
<1>4. /\ Steady(s, W) /\ Alike(c, s, Stopped) /\ s.queued = <<>>
      /\ Moves(c, s, {})
  BY <1>3, StopEffect DEF Moves
<1> HIDE DEF s
<1>5. Moves(d, s, {})
  BY <1>3, <1>4, MovesThen DEF Steady
<1>6. Once(s) /\ ~Has(s, id)
  BY <1>5 DEF Moves, Takes, New
<1>7. Steady(e, W) /\ Alike(s, e, {"answer"}) /\ Moves(s, e, {id})
  BY <1>1, <1>2, <1>4, <1>6, AnswerNew
<1>8. Moves(d, e, {id})
  BY <1>5, <1>7, MovesThen DEF Steady
<1>9. /\ e.proto = d.proto /\ e.registered = d.registered /\ e.queued = <<>>
      /\ e.pending_joins = d.pending_joins /\ e.capacity = d.capacity
      /\ e.wire = d.wire
      /\ e.status = IF d.registered THEN "Left" ELSE d.status
  <2>1. /\ s.proto = d.proto /\ s.registered = d.registered
        /\ s.pending_joins = d.pending_joins /\ s.capacity = d.capacity
        /\ s.wire = d.wire
        /\ s.status = IF d.registered THEN "Left" ELSE d.status
    BY <1>3, <1>4, AlikeFields DEF Stopped
  <2> QED BY <1>4, <1>7, <2>1, AlikeFields
<1>10. d.capacity \in Nat /\ Len(<<>>) = 0
  BY DEF Steady, Drivers
<1>11. Done(d, e, {id})
  BY <1>8, <1>9, <1>10 DEF Done, Keeps, Buffered, Shown, Clear, JoinRef, Active
<1> QED BY <1>7, <1>9, <1>11 DEF e

---------------------------------------------------------------------------
(* What the connection task waits for.                                     *)

(* The waiters of a join are told, all of them.                            *)
LEMMA TellWaiters ==
  ASSUME NEW W, NEW d, Steady(d, W), Once(d), NEW c, Steady(c, W),
         c.join_waiters = {}, c.queued = d.queued,
         c.deferred_leave = d.deferred_leave,
         c.pending_calls = d.pending_calls,
         c.pending_leaves = d.pending_leaves,
         c.answer = d.answer, c.sent = d.sent,
         NEW result \in Answers \ {"none"}
  PROVE  LET e == Answer(c, d.join_waiters, result)
         IN  Steady(e, W) /\ Alike(c, e, {"answer"}) /\ Moves(d, e, {})
<1> DEFINE e == Answer(c, d.join_waiters, result)
<1>1. /\ Steady(e, W) /\ Alike(c, e, {"answer"})
      /\ e.answer = [i \in Ids |-> IF i \in d.join_waiters THEN result
                                                           ELSE d.answer[i]]
  BY AnswerEffect
<1> HIDE DEF e
<1>2. /\ e.join_waiters = {} /\ e.queued = d.queued
      /\ e.deferred_leave = d.deferred_leave
      /\ e.pending_calls = d.pending_calls
      /\ e.pending_leaves = d.pending_leaves /\ e.sent = d.sent
  BY <1>1, AlikeFields
<1>3. d \in Drivers /\ e \in Drivers /\ ToSet(d.queued) \subseteq Pushes
  BY <1>1, HeldIds DEF Steady
<1>4. \A i \in Ids : i \in d.join_waiters <=> Has(d, i) /\ ~Has(e, i)
  <2>1. \A i \in Ids : Has(e, i) <=> \/ i \in ToSet(d.queued)
                                     \/ \E call \in d.pending_calls : call.id = i
                                     \/ d.deferred_leave.open /\ d.deferred_leave.id = i
                                     \/ \E pending \in d.pending_leaves :
                                          pending.open /\ pending.id = i
    BY <1>2 DEF Has
  <2>2. \A i \in d.join_waiters :
          /\ i \in Joins /\ i \notin Pushes /\ i \notin Leaves /\ i \notin Calls
    BY <1>3, DriverAssumption DEF Drivers, Pushes
  <2>3. /\ \A call \in d.pending_calls : call.id \in Calls
        /\ \A pending \in d.pending_leaves : pending.id \in Leaves
        /\ d.deferred_leave.open => d.deferred_leave.id \in Leaves
    BY <1>3 DEF Drivers, NoLeave
  <2>4. \A i \in d.join_waiters : ~Has(e, i) /\ Has(d, i)
    <3> SUFFICES ASSUME NEW i \in d.join_waiters
                 PROVE  ~Has(e, i) /\ Has(d, i)
      OBVIOUS
    <3>1. i \in Ids /\ Has(d, i)
      BY <2>2 DEF Has, Ids
    <3> QED BY <1>3, <2>1, <2>2, <2>3, <3>1
  <2>5. \A i \in Ids : Has(d, i) /\ ~Has(e, i) => i \in d.join_waiters
    BY <2>1 DEF Has
  <2> QED BY <2>4, <2>5
<1>5. Moves(d, e, {})
  <2>1. e.join_waiters \subseteq d.join_waiters
    BY <1>2
  <2> QED BY <1>1, <1>2, <1>3, <1>4, <2>1, Settles
<1> QED BY <1>1, <1>5 DEF e

(* The load the record waits for ends.                                     *)
Loaded(d) ==
  [d EXCEPT !.loads = @ \ {d.active_payload}, !.active_payload = 0]

(* The load that ended is forgotten.                                       *)
LEMMA LoadedEffect ==
  ASSUME NEW W, NEW d, Steady(d, W), Once(d)
  PROVE  LET e == Loaded(d)
         IN  /\ Steady(e, W) /\ Moves(d, e, {})
             /\ Alike(d, e, {"loads", "active_payload"}) /\ e.active_payload = 0
<1> DEFINE e == Loaded(d)
<1>1. e \in Drivers
  BY DEF Loaded, Steady, Drivers
<1>2. /\ Alike(d, e, {"loads", "active_payload"}) /\ e.active_payload = 0
      /\ e.loads = d.loads \ {d.active_payload}
  BY DEF Loaded, Steady, Drivers, Alike, Fields
<1> HIDE DEF e
<1>3. Alike(d, e, Soft) /\ Alike(d, e, Fields \ Holding)
  BY <1>2 DEF Alike, Soft, Fields, Holding
<1>4. IsFiniteSet(e.loads)
  BY <1>2, FS_RemoveElement DEF Steady, Timed
<1>5. Timed(e) /\ Unrecorded(e)
  BY <1>2, <1>4, AlikeFields DEF Steady, Timed, Unrecorded
<1>6. Steady(e, W)
  BY <1>1, <1>3, <1>5, SoftSteady
<1> QED BY <1>2, <1>3, <1>6, KeepsAll DEF e

(* The join that follows a load.                                           *)
JoinSent(d) ==
  LET ref == P!NextRef(d.proto)
  IN  Send([d EXCEPT !.proto = P!Rejoin(@, Topic), !.status = "Joining",
                     !.pending_joins = @ \cup {ref},
                     !.op_timeouts = @ \cup {[kind |-> "Join", ref |-> ref]}],
           "Join", ref)

(* The join that follows a load is sent and has its watchdog.              *)
LEMMA JoinSentEffect ==
  ASSUME NEW W, NEW d, Steady(d, W), Once(d), d.registered,
         Chan(d.proto).state \notin Active, d.active_payload = 0
  PROVE  LET e == JoinSent(d)
         IN  /\ Steady(e, W) /\ Moves(d, e, {})
             /\ Alike(d, e, {"proto", "status", "pending_joins", "op_timeouts", "wire"})
             /\ Chan(e.proto).state = "Joining" /\ JoinRef(e) = P!NextRef(d.proto)
             /\ e.pending_joins = d.pending_joins \cup {JoinRef(e)}
             /\ e.status = "Joining"
<1> DEFINE e == JoinSent(d)
           new == P!NextRef(d.proto)
           timer == [kind |-> "Join", ref |-> new]
           q == P!Rejoin(d.proto, Topic)
           frame == [kind |-> "Join", ref |-> new, join_ref |-> new]
<1>1. /\ q \in P!ProtocolState /\ Tidy(q)
      /\ Chan(q) = [state |-> "Joining", join_ref |-> new]
      /\ q.next_reference = new
      /\ \A x \in q.pending : x \in d.proto.pending \/ (x.kind = "Join" /\ x.ref = new)
  BY StateFacts, RejoinEffect
<1>2. new \in Nat
  BY StateFacts
<1>3. /\ timer \in [kind : {"Join", "Leave"}, ref : Nat]
      /\ frame \in [kind : {"Join", "Leave", "Push", "Cast"}, ref : Nat,
                    join_ref : Nat]
  BY <1>2
<1>4. e = [d EXCEPT !.proto = q, !.status = "Joining",
                    !.pending_joins = @ \cup {new},
                    !.op_timeouts = @ \cup {timer}, !.wire = @ \cup {frame}]
  <2>1. q.channels[Topic].join_ref = new
    BY <1>1 DEF Chan
  <2> HIDE DEF q, new
  <2> QED BY <2>1 DEF JoinSent, Send, Steady, Drivers, new, q
<1> HIDE DEF e, timer, frame, q, new
<1>5. /\ d.pending_joins \cup {new} \subseteq Nat /\ "Joining" \in Statuses
      /\ d.op_timeouts \cup {timer} \subseteq [kind : {"Join", "Leave"}, ref : Nat]
      /\ d.wire \cup {frame} \subseteq
           [kind : {"Join", "Leave", "Push", "Cast"}, ref : Nat, join_ref : Nat]
  BY <1>2, <1>3 DEF Steady, Drivers, Statuses
<1>6. e \in Drivers
  BY <1>1, <1>4, <1>5 DEF Steady, Drivers
<1>7. /\ Alike(d, e, {"proto", "status", "pending_joins", "op_timeouts", "wire"})
      /\ e.proto = q /\ e.pending_joins = d.pending_joins \cup {new}
      /\ e.op_timeouts = d.op_timeouts \cup {timer} /\ e.status = "Joining"
      /\ e.wire = d.wire \cup {frame}
  BY <1>4 DEF Steady, Drivers, Alike, Fields
<1>8. JoinRef(e) = new /\ Chan(e.proto).state = "Joining"
  BY <1>1, <1>7 DEF JoinRef, Chan
<1>9. Timed(e) /\ Unrecorded(e)
  BY <1>7, AlikeFields DEF Steady, Timed, Unrecorded
<1>10. Watched(e)
  BY <1>7, <1>8 DEF Watched, timer
<1>11. Tracked(e)
  BY <1>1, <1>7, AlikeFields DEF Steady, Tracked
<1>12. Steady(e, W)
  <2>1. /\ e.pending_calls = d.pending_calls /\ e.pending_leaves = d.pending_leaves
        /\ timer.ref = new
    BY <1>7, AlikeFields DEF timer
  <2>2. e.wire = d.wire \cup {[kind |-> "Join", ref |-> new, join_ref |-> new]}
    BY <1>7 DEF frame
  <2> QED BY <1>1, <1>6, <1>7, <1>8, <1>9, <1>10, <1>11, <2>1, <2>2, SendSteady
          DEF new
<1>13. Moves(d, e, {})
  <2>1. Alike(d, e, Fields \ Holding)
    BY <1>7 DEF Alike, Fields, Holding
  <2> QED BY <2>1, KeepsAll
<1> QED BY <1>7, <1>8, <1>12, <1>13 DEF e, new

(* A payload load ends.                                                    *)
LEMMA PayloadLoadedKeeps ==
  ASSUME NEW W, NEW d, Steady(d, W), Once(d), NEW id \in d.loads,
         NEW loaded \in BOOLEAN
  PROVE  LET e == PayloadLoaded(d, id, loaded)
         IN  Steady(e, W) /\ Done(d, e, {}) /\ (OnItsWay(d) => OnItsWay(e))
<1> DEFINE e == PayloadLoaded(d, id, loaded)
           c == Loaded(d)
<1>1. id # 0 /\ d.loads \subseteq Nat
  BY DEF Steady, Timed, Drivers
<1>2. CASE d.active_payload # id
  <2>1. e = [d EXCEPT !.loads = @ \ {id}]
    BY <1>2 DEF PayloadLoaded, Steady, Drivers
  <2> HIDE DEF e
  <2>2. e \in Drivers /\ Alike(d, e, {"loads"}) /\ e.loads = d.loads \ {id}
    BY <2>1 DEF Steady, Drivers, Alike, Fields
  <2>3. Alike(d, e, Soft) /\ Alike(d, e, Fields \ Holding) /\ Alike(d, e, Aside)
    BY <2>2 DEF Alike, Soft, Fields, Holding, Aside
  <2>4. IsFiniteSet(e.loads)
    BY <2>2, FS_RemoveElement DEF Steady, Timed
  <2>5. Timed(e) /\ Unrecorded(e)
    BY <1>2, <2>2, <2>4, AlikeFields DEF Steady, Timed, Unrecorded
  <2>6. Steady(e, W)
    BY <2>2, <2>3, <2>5, SoftSteady
  <2> QED BY <2>3, <2>6, KeepsAll, DoneAside DEF e
<1>3. CASE d.active_payload = id
  <2>1. /\ Steady(c, W) /\ Moves(d, c, {})
        /\ Alike(d, c, {"loads", "active_payload"}) /\ c.active_payload = 0
    BY LoadedEffect
  <2>2. Chan(d.proto).state \notin Active /\ d.registered
    BY <1>1, <1>3 DEF Steady, Timed, Unrecorded
  <2>3. c = [[d EXCEPT !.loads = @ \ {id}] EXCEPT !.active_payload = 0]
    BY <1>3 DEF Loaded, Steady, Drivers
  <2>4. e = CASE ~d.desired -> c
              [] d.desired /\ ~loaded ->
                   Answer([c EXCEPT !.desired = FALSE, !.status = "Errored",
                                    !.join_waiters = {}], d.join_waiters, "failed")
              [] OTHER -> JoinSent(c)
    <3>1. State(d) \notin P!ActiveStates
      BY <2>2, StateFacts
    <3>2. ~d.desired => e = c
      BY <1>3, <2>3 DEF PayloadLoaded, Steady, Drivers
    <3>3. d.desired /\ ~loaded =>
            e = Answer([c EXCEPT !.desired = FALSE, !.status = "Errored",
                                 !.join_waiters = {}], d.join_waiters, "failed")
      BY <1>3, <2>3 DEF PayloadLoaded, Steady, Drivers
    <3>4. d.desired /\ loaded => e = JoinSent(c)
      BY <1>3, <2>3, <3>1 DEF PayloadLoaded, JoinSent, State, Steady, Drivers
    <3> QED BY <3>2, <3>3, <3>4
  <2> HIDE DEF c, e
  <2>5. /\ c.proto = d.proto /\ c.registered = d.registered
        /\ c.pending_joins = d.pending_joins /\ c.capacity = d.capacity
        /\ c.queued = d.queued /\ c.status = d.status /\ c.desired = d.desired
        /\ c.join_waiters = d.join_waiters
    BY <2>1, AlikeFields
  <2>6. CASE ~d.desired
    <3>1. e = c
      BY <2>4, <2>6
    <3>2. Done(d, c, {}) /\ OnItsWay(c)
      BY <2>1, <2>2, <2>5, <2>6
         DEF Done, Keeps, Buffered, Shown, Clear, OnItsWay, JoinRef
    <3> QED BY <2>1, <3>1, <3>2 DEF e
  <2>7. CASE d.desired /\ ~loaded
    <3> DEFINE f == [c EXCEPT !.desired = FALSE, !.status = "Errored",
                              !.join_waiters = {}]
    <3>1. e = Answer(f, c.join_waiters, "failed")
      BY <2>4, <2>5, <2>7
    <3>2. "Errored" \in Statuses /\ "failed" \in Answers \ {"none"}
      BY DEF Statuses, Answers
    <3>3. f \in Drivers
      BY <2>1, <3>2 DEF Steady, Drivers
    <3>4. /\ Alike(c, f, {"desired", "status", "join_waiters"})
          /\ ~f.desired /\ f.status = "Errored" /\ f.join_waiters = {}
      BY <2>1 DEF Steady, Drivers, Alike, Fields
    <3> HIDE DEF f
    <3>5. Alike(c, f, Soft)
      BY <3>4 DEF Alike, Soft
    <3>6. Timed(f) /\ Unrecorded(f)
      BY <2>1, <2>2, <2>5, <3>4, AlikeFields DEF Steady, Timed, Unrecorded
    <3>7. Steady(f, W)
      BY <2>1, <3>3, <3>5, <3>6, SoftSteady
    <3>8. /\ f.queued = c.queued /\ f.deferred_leave = c.deferred_leave
          /\ f.pending_calls = c.pending_calls
          /\ f.pending_leaves = c.pending_leaves
          /\ f.answer = c.answer /\ f.sent = c.sent
      BY <3>4, AlikeFields
    <3>9. Steady(e, W) /\ Alike(f, e, {"answer"}) /\ Moves(c, e, {})
      BY <2>1, <3>1, <3>2, <3>4, <3>7, <3>8, TellWaiters DEF Moves
    <3>10. Moves(d, e, {})
      BY <2>1, <3>9, MovesThen DEF Steady
    <3>11. /\ e.proto = d.proto /\ e.registered = d.registered
           /\ e.pending_joins = d.pending_joins /\ e.capacity = d.capacity
           /\ e.queued = d.queued /\ e.status = "Errored" /\ ~e.desired
      BY <2>5, <3>4, <3>9, AlikeFields
    <3>12. Done(d, e, {}) /\ OnItsWay(e)
      BY <2>2, <3>10, <3>11
         DEF Done, Keeps, Buffered, Shown, Clear, OnItsWay, JoinRef, Active
    <3> QED BY <3>9, <3>12 DEF e
  <2>8. CASE d.desired /\ loaded
    <3>1. e = JoinSent(c)
      BY <2>4, <2>8
    <3>2. /\ Steady(e, W) /\ Moves(c, e, {})
          /\ Alike(c, e, {"proto", "status", "pending_joins", "op_timeouts", "wire"})
          /\ Chan(e.proto).state = "Joining" /\ JoinRef(e) = P!NextRef(c.proto)
          /\ e.pending_joins = c.pending_joins \cup {JoinRef(e)}
          /\ e.status = "Joining"
      BY <2>1, <2>2, <2>5, <3>1, JoinSentEffect DEF Moves
    <3>3. Moves(d, e, {})
      BY <2>1, <3>2, MovesThen DEF Steady
    <3>4. /\ e.registered = d.registered /\ e.capacity = d.capacity
          /\ e.queued = d.queued
      BY <2>5, <3>2, AlikeFields
    <3>5. Done(d, e, {}) /\ OnItsWay(e)
      BY <2>2, <2>5, <3>2, <3>3, <3>4
         DEF Done, Keeps, Buffered, Shown, Clear, OnItsWay, Active
    <3> QED BY <3>2, <3>5 DEF e
  <2> QED BY <2>6, <2>7, <2>8
<1> QED BY <1>2, <1>3

(* A rejoin is due.                                                        *)
LEMMA RejoinDueKeeps ==
  ASSUME NEW W, NEW d, Steady(d, W), Once(d), d.rejoins > 0
  PROVE  LET e == RejoinDue(d)
         IN  Steady(e, W) /\ Done(d, e, {}) /\ OnItsWay(e)
<1> DEFINE c == [d EXCEPT !.rejoins = @ - 1, !.rejoin_scheduled = FALSE]
           e == RejoinDue(d)
<1>1. d.rejoins - 1 \in Nat
  BY DEF Steady, Drivers
<1>2. c \in Drivers
  BY <1>1 DEF Steady, Drivers
<1>3. Alike(d, c, {"rejoins", "rejoin_scheduled"}) /\ ~c.rejoin_scheduled
  BY DEF Steady, Drivers, Alike, Fields
<1>4. e = LoadPayload(c)
  BY DEF RejoinDue
<1> HIDE DEF c, e
<1>5. Alike(d, c, Soft) /\ Alike(d, c, Fields \ Holding)
  BY <1>3 DEF Alike, Soft, Fields, Holding
<1>6. Timed(c) /\ Unrecorded(c)
  BY <1>3, AlikeFields DEF Steady, Timed, Unrecorded
<1>7. Steady(c, W) /\ Moves(d, c, {})
  BY <1>2, <1>5, <1>6, SoftSteady, KeepsAll
<1>8. /\ Steady(e, W) /\ Alike(c, e, {"status", "active_payload", "loads"})
      /\ c.desired /\ Chan(c.proto).state \notin Active => e.active_payload # 0
      /\ \/ e = c
         \/ e.status = "WaitingToJoin" /\ Chan(c.proto).state \notin Active
      /\ Moves(c, e, {})
  BY <1>4, <1>7, LoadEffect DEF Moves
<1>9. Moves(d, e, {})
  BY <1>7, <1>8, MovesThen DEF Steady
<1>10. /\ e.proto = d.proto /\ e.registered = d.registered
       /\ e.pending_joins = d.pending_joins /\ e.capacity = d.capacity
       /\ e.queued = d.queued /\ e.desired = c.desired /\ c.proto = d.proto
       /\ c.status = d.status
  BY <1>3, <1>8, AlikeFields
<1>11. Done(d, e, {}) /\ OnItsWay(e)
  BY <1>8, <1>9, <1>10
     DEF Done, Keeps, Buffered, Shown, Clear, OnItsWay, JoinRef, Active
<1> QED BY <1>8, <1>11 DEF e

(* Leaves are over: their callers are told.                                *)
LEMMA LeavesSettled ==
  ASSUME NEW d \in Drivers, Once(d), NEW V, NEW c, Steady(c, V),
         NEW over, over \subseteq d.pending_leaves,
         c.pending_leaves = d.pending_leaves \ over,
         c.join_waiters = d.join_waiters, c.queued = d.queued,
         c.deferred_leave = d.deferred_leave,
         c.pending_calls = d.pending_calls,
         c.answer = d.answer, c.sent = d.sent,
         NEW result \in Answers \ {"none"}
  PROVE  LET e == Answer(c, UNION {OpenLeave(pending) : pending \in over}, result)
         IN  Steady(e, V) /\ Alike(c, e, {"answer"}) /\ Moves(d, e, {})
<1> DEFINE S == UNION {OpenLeave(pending) : pending \in over}
           e == Answer(c, S, result)
<1>1. \A i : i \in S <=> \E pending \in over : pending.open /\ pending.id = i
  BY DEF OpenLeave
<1> HIDE DEF S
<1>2. /\ Steady(e, V) /\ Alike(c, e, {"answer"})
      /\ e.answer = [i \in Ids |-> IF i \in S THEN result ELSE d.answer[i]]
  BY AnswerEffect
<1> HIDE DEF e
<1>3. /\ e.join_waiters = d.join_waiters /\ e.queued = d.queued
      /\ e.deferred_leave = d.deferred_leave
      /\ e.pending_calls = d.pending_calls /\ e.sent = d.sent
      /\ e.pending_leaves = d.pending_leaves \ over
  BY <1>2, AlikeFields
<1>4. ASSUME NEW i \in Ids
      PROVE  i \in S <=> Has(d, i) /\ ~Has(e, i)
  <2>1. ASSUME i \in S
        PROVE  Has(d, i) /\ ~Has(e, i)
    <3>1. PICK pending \in over : pending.open /\ pending.id = i
      BY <1>1, <2>1
    <3>2. i \in Leaves /\ i \notin Joins /\ i \notin Pushes
      BY <3>1, DriverAssumption DEF Drivers
    <3>3. i \notin d.join_waiters /\ i \notin ToSet(d.queued)
      BY <3>2, HeldIds DEF Drivers
    <3>4. \A call \in d.pending_calls : call.id # i
      BY <3>2 DEF Drivers, Pushes
    <3>5. ~(d.deferred_leave.open /\ d.deferred_leave.id = i)
      BY <3>1 DEF Once
    <3>6. \A other \in e.pending_leaves : ~(other.open /\ other.id = i)
      BY <1>3, <3>1 DEF Once
    <3>7. Has(d, i)
      BY <3>1 DEF Has
    <3> QED BY <1>3, <3>3, <3>4, <3>5, <3>6, <3>7 DEF Has
  <2>2. ASSUME Has(d, i), ~Has(e, i)
        PROVE  i \in S
    BY <1>1, <1>3, <2>2 DEF Has
  <2> QED BY <2>1, <2>2
<1>5. Moves(d, e, {})
  BY <1>2, <1>3, <1>4, Settles DEF Steady
<1> QED BY <1>2, <1>5 DEF e, S

(* What becomes of a channel that was left.                                *)
LEMMA AfterLeaveEffect ==
  ASSUME NEW W, NEW d, Steady(d, W), Once(d), Chan(d.proto).state \notin Active
  PROVE  LET e == AfterLeave(d)
         IN  /\ Steady(e, W) /\ Moves(d, e, {}) /\ OnItsWay(e)
             /\ Alike(d, e, {"status", "active_payload", "loads"})
             /\ d.registered => e.status # "Joined"
<1> DEFINE status == IF d.desired THEN "WaitingToJoin" ELSE "Left"
           c == SetStatus(d, status)
           e == AfterLeave(d)
<1>1. status \in Statuses /\ status # "Joined"
  BY DEF Statuses
<1>2. e = IF d.desired THEN LoadPayload(c) ELSE c
  BY DEF AfterLeave
<1> HIDE DEF status
<1>3. /\ Steady(c, W) /\ Alike(d, c, {"status"}) /\ Moves(d, c, {})
      /\ c.status = IF d.registered THEN status ELSE d.status
  BY <1>1, SetStatusEffect
<1> HIDE DEF c, e
<1>4. c.proto = d.proto /\ c.desired = d.desired
  BY <1>3, AlikeFields
<1>5. CASE ~d.desired
  <2>1. e = c
    BY <1>2, <1>5
  <2>2. Alike(d, e, {"status", "active_payload", "loads"})
    BY <1>3, <2>1 DEF Alike
  <2> QED BY <1>1, <1>3, <1>4, <1>5, <2>1, <2>2 DEF OnItsWay, e
<1>6. CASE d.desired
  <2>1. e = LoadPayload(c)
    BY <1>2, <1>6
  <2>2. /\ Steady(e, W) /\ Alike(c, e, {"status", "active_payload", "loads"})
        /\ e.active_payload # 0 /\ (e = c \/ e.status = "WaitingToJoin")
        /\ Moves(c, e, {})
    BY <1>3, <1>4, <1>6, <2>1, LoadEffect DEF Moves
  <2>3. Moves(d, e, {})
    BY <1>3, <2>2, MovesThen DEF Steady
  <2>4. Alike(d, e, {"status", "active_payload", "loads"})
    BY <1>3, <2>2 DEF Alike
  <2>5. OnItsWay(e)
    BY <2>2 DEF OnItsWay
  <2>6. d.registered => e.status # "Joined"
    BY <1>1, <1>3, <2>2
  <2> QED BY <2>2, <2>3, <2>4, <2>5, <2>6 DEF e
<1> QED BY <1>5, <1>6

(* A timer that has nothing to end.                                        *)
Rung(d, timeout) == [d EXCEPT !.op_timeouts = @ \ {timeout}]

(* A timer of an operation that was answered changes nothing.              *)
LEMMA RungKeeps ==
  ASSUME NEW W, NEW d, Steady(d, W), Once(d), NEW timeout \in d.op_timeouts,
         timeout.kind = "Join" => timeout.ref \notin d.pending_joins,
         timeout.kind = "Leave" =>
           \A pending \in d.pending_leaves : pending.ref # timeout.ref
  PROVE  LET e == Rung(d, timeout)
         IN  Steady(e, W) /\ Done(d, e, {}) /\ (OnItsWay(d) => OnItsWay(e))
<1> DEFINE e == Rung(d, timeout)
<1>1. e \in Drivers
  BY DEF Rung, Steady, Drivers
<1>2. Alike(d, e, {"op_timeouts"}) /\ e.op_timeouts = d.op_timeouts \ {timeout}
  BY DEF Rung, Steady, Drivers, Alike, Fields
<1> HIDE DEF e
<1>3. /\ Alike(d, e, Fields \ Holding) /\ Alike(d, e, Aside)
  BY <1>2 DEF Alike, Fields, Holding, Aside
<1>4. /\ e.proto = d.proto /\ e.pending_joins = d.pending_joins
      /\ e.pending_calls = d.pending_calls
      /\ e.pending_leaves = d.pending_leaves /\ e.wire = d.wire
      /\ e.loads = d.loads /\ e.active_payload = d.active_payload
      /\ e.rejoin_scheduled = d.rejoin_scheduled /\ e.rejoins = d.rejoins
  BY <1>2, AlikeFields
<1>5. Timed(e) /\ Tracked(e)
  BY <1>4 DEF Steady, Timed, Tracked
<1>6. Unrecorded(e)
  BY <1>2, AlikeFields DEF Steady, Unrecorded
<1>7. Watched(e)
  BY <1>2, <1>4 DEF Steady, Watched, JoinRef
<1>8. \/ Chan(e.proto).state = "Joining"
      \/ \A q \in d.wire \cup W : q.kind = "Join" => q.ref # JoinRef(e)
  BY <1>4 DEF Steady, Owing, Sent, JoinRef
<1>9. /\ Tidy(e.proto) /\ e.proto.next_reference = d.proto.next_reference
      /\ e.proto.pending \subseteq d.proto.pending /\ JoinRef(e) = JoinRef(d)
      /\ e.op_timeouts \subseteq d.op_timeouts
      /\ Chan(e.proto).state = "Joining" => Chan(d.proto).state = "Joining"
  BY <1>2, <1>4 DEF Steady, JoinRef
<1>10. Steady(e, W)
  BY <1>1, <1>4, <1>5, <1>6, <1>7, <1>8, <1>9, EndSteady
<1>11. Moves(d, e, {})
  BY <1>3, KeepsAll
<1> QED BY <1>3, <1>10, <1>11, DoneAside DEF e

(* A join or leave is given up when its timer expires: the protocol        *)
(* forgets the channel.                                                    *)
JoinGivenUp(d, timeout) ==
  [d EXCEPT !.op_timeouts = @ \ {timeout}, !.pending_joins = @ \ {timeout.ref},
            !.proto = P!Discard(@, Topic), !.active_payload = 0]

LeaveGivenUpBy(d, timeout, late) ==
  [d EXCEPT !.op_timeouts = @ \ {timeout}, !.pending_leaves = @ \ late,
            !.proto = P!Discard(@, Topic)]

(* The protocol forgets the channel whose join timed out.                  *)
LEMMA JoinGivenUpEffect ==
  ASSUME NEW W, NEW d, Steady(d, W), NEW timeout
  PROVE  LET e == JoinGivenUp(d, timeout)
         IN  /\ Steady(e, W) /\ Chan(e.proto) = P!Absent
             /\ Alike(d, e, {"op_timeouts", "pending_joins", "proto",
                             "active_payload"})
             /\ e.pending_joins = d.pending_joins \ {timeout.ref}
<1> DEFINE e == JoinGivenUp(d, timeout)
           p == P!Discard(d.proto, Topic)
<1>1. /\ p \in P!ProtocolState /\ Chan(p) = P!Absent /\ Tidy(p)
      /\ p.next_reference = d.proto.next_reference /\ p.pending = {}
  BY StateFacts, DiscardEffect
<1> HIDE DEF p
<1>2. e \in Drivers
  BY <1>1 DEF JoinGivenUp, p, Steady, Drivers
<1>3. /\ Alike(d, e, {"op_timeouts", "pending_joins", "proto", "active_payload"})
      /\ e.proto = p /\ e.active_payload = 0
      /\ e.pending_joins = d.pending_joins \ {timeout.ref}
      /\ e.op_timeouts = d.op_timeouts \ {timeout}
  BY DEF JoinGivenUp, p, Steady, Drivers, Alike, Fields
<1> HIDE DEF e
<1>4. /\ e.pending_calls = d.pending_calls
      /\ e.pending_leaves = d.pending_leaves /\ e.wire = d.wire
      /\ e.loads = d.loads
      /\ e.rejoin_scheduled = d.rejoin_scheduled /\ e.rejoins = d.rejoins
  BY <1>3, AlikeFields
<1>5. Chan(e.proto).state = "Absent" /\ JoinRef(e) = 0
  BY <1>1, <1>3 DEF JoinRef, Chan, P!Absent
<1>6. Timed(e)
  BY <1>3, <1>4, <1>5 DEF Steady, Timed, Active
<1>7. Tracked(e) /\ Watched(e)
  BY <1>1, <1>3, <1>5 DEF Tracked, Watched
<1>8. Unrecorded(e)
  BY <1>1, <1>3, AlikeFields DEF Steady, Unrecorded
<1>9. \A q \in d.wire \cup W : q.kind = "Join" => q.ref # JoinRef(e)
  BY <1>5 DEF Steady, Owing, Sent
<1>10. /\ Tidy(e.proto) /\ e.proto.next_reference = d.proto.next_reference
       /\ e.proto.pending \subseteq d.proto.pending
       /\ e.op_timeouts \subseteq d.op_timeouts
       /\ e.pending_joins \subseteq d.pending_joins
  BY <1>1, <1>3
<1>11. Steady(e, W)
  BY <1>2, <1>4, <1>5, <1>6, <1>7, <1>8, <1>9, <1>10, EndSteady
<1> QED BY <1>1, <1>3, <1>11 DEF e

(* And the one whose leave did.                                            *)
LEMMA LeaveGivenUpEffect ==
  ASSUME NEW W, NEW d, Steady(d, W), NEW timeout, NEW late
  PROVE  LET e == LeaveGivenUpBy(d, timeout, late)
         IN  /\ Steady(e, W) /\ Chan(e.proto) = P!Absent
             /\ Alike(d, e, {"op_timeouts", "pending_leaves", "proto"})
             /\ e.pending_leaves = d.pending_leaves \ late
<1> DEFINE e == LeaveGivenUpBy(d, timeout, late)
           p == P!Discard(d.proto, Topic)
<1>1. /\ p \in P!ProtocolState /\ Chan(p) = P!Absent /\ Tidy(p)
      /\ p.next_reference = d.proto.next_reference /\ p.pending = {}
  BY StateFacts, DiscardEffect
<1> HIDE DEF p
<1>2. e \in Drivers
  BY <1>1 DEF LeaveGivenUpBy, p, Steady, Drivers
<1>3. /\ Alike(d, e, {"op_timeouts", "pending_leaves", "proto"})
      /\ e.proto = p
      /\ e.pending_leaves = d.pending_leaves \ late
      /\ e.op_timeouts = d.op_timeouts \ {timeout}
  BY DEF LeaveGivenUpBy, p, Steady, Drivers, Alike, Fields
<1> HIDE DEF e
<1>4. /\ e.pending_calls = d.pending_calls
      /\ e.pending_joins = d.pending_joins /\ e.wire = d.wire
      /\ e.loads = d.loads /\ e.active_payload = d.active_payload
      /\ e.rejoin_scheduled = d.rejoin_scheduled /\ e.rejoins = d.rejoins
  BY <1>3, AlikeFields
<1>5. Chan(e.proto).state = "Absent" /\ JoinRef(e) = 0
  BY <1>1, <1>3 DEF JoinRef, Chan, P!Absent
<1>6. Timed(e)
  BY <1>4, <1>5 DEF Steady, Timed, Active
<1>7. Tracked(e) /\ Watched(e)
  BY <1>1, <1>3, <1>5 DEF Tracked, Watched
<1>8. Unrecorded(e)
  BY <1>1, <1>3, AlikeFields DEF Steady, Unrecorded
<1>9. \A q \in d.wire \cup W : q.kind = "Join" => q.ref # JoinRef(e)
  BY <1>5 DEF Steady, Owing, Sent
<1>10. /\ Tidy(e.proto) /\ e.proto.next_reference = d.proto.next_reference
       /\ e.proto.pending \subseteq d.proto.pending
       /\ e.op_timeouts \subseteq d.op_timeouts
       /\ \A pending \in e.pending_leaves : pending \in d.pending_leaves
  BY <1>1, <1>3
<1>11. Steady(e, W)
  BY <1>2, <1>4, <1>5, <1>6, <1>7, <1>8, <1>9, <1>10, EndSteady
<1> QED BY <1>1, <1>3, <1>11 DEF e

(* A leave that was waiting for a join is over: its caller is told.        *)
LEMMA DeferredSettled ==
  ASSUME NEW d \in Drivers, Once(d), NEW V, NEW c, Steady(c, V),
         c.deferred_leave = NoLeave,
         c.join_waiters = d.join_waiters, c.queued = d.queued,
         c.pending_calls = d.pending_calls,
         c.pending_leaves = d.pending_leaves,
         c.answer = d.answer, c.sent = d.sent,
         NEW result \in Answers \ {"none"}
  PROVE  LET e == Answer(c, OpenLeave(d.deferred_leave), result)
         IN  Steady(e, V) /\ Alike(c, e, {"answer"}) /\ Moves(d, e, {})
<1> DEFINE S == OpenLeave(d.deferred_leave)
           e == Answer(c, S, result)
<1>1. \A i : i \in S <=> d.deferred_leave.open /\ i = d.deferred_leave.id
  BY DEF OpenLeave
<1> HIDE DEF S
<1>2. /\ Steady(e, V) /\ Alike(c, e, {"answer"})
      /\ e.answer = [i \in Ids |-> IF i \in S THEN result ELSE d.answer[i]]
  BY AnswerEffect
<1> HIDE DEF e
<1>3. /\ e.join_waiters = d.join_waiters /\ e.queued = d.queued
      /\ e.deferred_leave = NoLeave
      /\ e.pending_calls = d.pending_calls /\ e.sent = d.sent
      /\ e.pending_leaves = d.pending_leaves
  BY <1>2, AlikeFields
<1>4. ASSUME NEW i \in Ids
      PROVE  i \in S <=> Has(d, i) /\ ~Has(e, i)
  <2>1. ASSUME i \in S
        PROVE  Has(d, i) /\ ~Has(e, i)
    <3>1. d.deferred_leave.open /\ i = d.deferred_leave.id
      BY <1>1, <2>1
    <3>2. i \in Leaves
      BY <3>1 DEF Drivers, NoLeave
    <3>3. i \notin Joins /\ i \notin Pushes
      BY <3>2, DriverAssumption
    <3>4. i \notin d.join_waiters /\ i \notin ToSet(d.queued)
      BY <3>3, HeldIds DEF Drivers
    <3>5. \A call \in d.pending_calls : call.id # i
      BY <3>3 DEF Drivers, Pushes
    <3>6. \A other \in e.pending_leaves : ~(other.open /\ other.id = i)
      BY <1>3, <3>1 DEF Once
    <3>7. Has(d, i)
      BY <3>1 DEF Has
    <3> QED BY <1>3, <3>4, <3>5, <3>6, <3>7 DEF Has, NoLeave
  <2>2. ASSUME Has(d, i), ~Has(e, i)
        PROVE  i \in S
    BY <1>1, <1>3, <2>2 DEF Has
  <2> QED BY <2>1, <2>2
<1>5. Moves(d, e, {})
  BY <1>2, <1>3, <1>4, Settles DEF Steady
<1> QED BY <1>2, <1>5 DEF e, S

(* on_join_timeout                                                         *)
LEMMA JoinTimedOutKeeps ==
  ASSUME NEW W, NEW d, Steady(d, W), Once(d), NEW timeout \in d.op_timeouts,
         timeout.kind = "Join"
  PROVE  LET e == TimedOut(d, timeout)
         IN  Steady(e, W) /\ Done(d, e, {}) /\ (OnItsWay(d) => OnItsWay(e))
<1> DEFINE e == TimedOut(d, timeout)
           c == Rung(d, timeout)
           out == JoinGivenUp(d, timeout)
           f == [out EXCEPT !.deferred_leave = NoLeave, !.status = "Left"]
           g == [out EXCEPT !.status = "Errored", !.join_waiters = {}]
<1>1. CASE timeout.ref \notin d.pending_joins
  <2>1. e = c
    BY <1>1 DEF TimedOut, JoinTimedOut, Rung, Steady, Drivers
  <2>2. Steady(c, W) /\ Done(d, c, {}) /\ (OnItsWay(d) => OnItsWay(c))
    BY <1>1, RungKeeps
  <2> QED BY <2>1, <2>2
<1>2. CASE timeout.ref \in d.pending_joins
  <2>1. e = CASE d.deferred_leave # NoLeave ->
                   Answer(f, OpenLeave(d.deferred_leave), "failed")
              [] d.deferred_leave = NoLeave /\ d.desired ->
                   ScheduleRejoin(Answer(g, d.join_waiters, "failed"))
              [] OTHER -> SetStatus(out, "Left")
    <3>1. out = [c EXCEPT !.pending_joins = @ \ {timeout.ref},
                          !.proto = P!Discard(@, Topic), !.active_payload = 0]
      BY DEF JoinGivenUp, Rung, Steady, Drivers
    <3>2. /\ c.pending_joins = d.pending_joins /\ c.desired = d.desired
          /\ c.deferred_leave = d.deferred_leave
          /\ c.join_waiters = d.join_waiters
      BY DEF Rung, Steady, Drivers
    <3>3. e = JoinTimedOut(c, timeout.ref)
      BY DEF TimedOut, Rung
    <3> HIDE DEF e, c
    <3> QED BY <1>2, <3>1, <3>2, <3>3 DEF JoinTimedOut
  <2>2. /\ Steady(out, W) /\ Chan(out.proto) = P!Absent
        /\ Alike(d, out, {"op_timeouts", "pending_joins", "proto",
                          "active_payload"})
        /\ out.pending_joins = d.pending_joins \ {timeout.ref}
    BY JoinGivenUpEffect
  <2> HIDE DEF out
  <2>3. /\ out.registered = d.registered /\ out.desired = d.desired
        /\ out.capacity = d.capacity
        /\ out.join_waiters = d.join_waiters /\ out.queued = d.queued
        /\ out.deferred_leave = d.deferred_leave
        /\ out.pending_calls = d.pending_calls
        /\ out.pending_leaves = d.pending_leaves
        /\ out.answer = d.answer /\ out.sent = d.sent
    BY <2>2, AlikeFields
  <2>4. Chan(out.proto).state = "Absent"
    BY <2>2 DEF P!Absent
  <2>5. \A status \in {"Left", "Errored"} : status \in Statuses
    BY DEF Statuses
  <2>6. "failed" \in Answers \ {"none"}
    BY DEF Answers
  <2>7. ASSUME NEW h, h.proto = out.proto, h.registered = d.registered,
               h.capacity = d.capacity, h.pending_joins = out.pending_joins,
               h.queued = d.queued, d.registered => h.status # "Joined",
               Moves(d, h, {})
        PROVE  Done(d, h, {})
    <3>1. Buffered(d) => Buffered(h)
      BY <2>4, <2>7 DEF Buffered
    <3>2. Shown(h)
      BY <2>4, <2>7 DEF Shown
    <3>3. Clear(d) => Clear(h)
      BY <1>2, <2>2, <2>7 DEF Clear
    <3> QED BY <2>2, <2>7, <3>1, <3>2, <3>3 DEF Done, Keeps
  <2>8. CASE d.deferred_leave # NoLeave
    <3>1. e = Answer(f, OpenLeave(d.deferred_leave), "failed")
      BY <2>1, <2>8
    <3>2. d.registered
      BY <2>8 DEF Steady, Unrecorded
    <3>3. f \in Drivers
      BY <2>2, <2>5 DEF Steady, Drivers
    <3>4. /\ Alike(out, f, {"deferred_leave", "status"})
          /\ f.deferred_leave = NoLeave /\ f.status = "Left"
      BY <2>2 DEF Steady, Drivers, Alike, Fields
    <3> HIDE DEF e, f
    <3>5. Alike(out, f, Soft)
      BY <3>4 DEF Alike, Soft
    <3>6. Timed(f) /\ Unrecorded(f)
      BY <2>2, <2>3, <3>2, <3>4, AlikeFields DEF Steady, Timed, Unrecorded
    <3>7. Steady(f, W)
      BY <2>2, <3>3, <3>5, <3>6, SoftSteady
    <3>8. /\ f.join_waiters = d.join_waiters /\ f.queued = d.queued
          /\ f.pending_calls = d.pending_calls
          /\ f.pending_leaves = d.pending_leaves
          /\ f.answer = d.answer /\ f.sent = d.sent
      BY <2>3, <3>4, AlikeFields
    <3>9. Steady(e, W) /\ Alike(f, e, {"answer"}) /\ Moves(d, e, {})
      BY <2>6, <3>1, <3>4, <3>7, <3>8, DeferredSettled DEF Steady
    <3>10. /\ e.proto = out.proto /\ e.registered = d.registered
           /\ e.capacity = d.capacity /\ e.pending_joins = out.pending_joins
           /\ e.queued = d.queued /\ e.status = "Left"
      BY <2>3, <3>4, <3>9, AlikeFields
    <3>11. Done(d, e, {})
      BY <2>7, <3>9, <3>10
    <3>12. OnItsWay(e)
      BY <3>10 DEF OnItsWay
    <3> QED BY <3>9, <3>11, <3>12 DEF e
  <2>9. CASE d.deferred_leave = NoLeave /\ d.desired
    <3> DEFINE a == Answer(g, d.join_waiters, "failed")
    <3>1. e = ScheduleRejoin(a)
      BY <2>1, <2>9
    <3>2. d.registered
      BY <2>9 DEF Steady, Unrecorded
    <3>3. g \in Drivers
      BY <2>2, <2>5 DEF Steady, Drivers
    <3>4. /\ Alike(out, g, {"join_waiters", "status"})
          /\ g.join_waiters = {} /\ g.status = "Errored"
      BY <2>2 DEF Steady, Drivers, Alike, Fields
    <3> HIDE DEF e, g
    <3>5. Alike(out, g, Soft)
      BY <3>4 DEF Alike, Soft
    <3>6. Timed(g) /\ Unrecorded(g)
      BY <2>2, <2>3, <3>2, <3>4, AlikeFields DEF Steady, Timed, Unrecorded
    <3>7. Steady(g, W)
      BY <2>2, <3>3, <3>5, <3>6, SoftSteady
    <3>8. /\ g.queued = d.queued /\ g.deferred_leave = d.deferred_leave
          /\ g.pending_calls = d.pending_calls
          /\ g.pending_leaves = d.pending_leaves
          /\ g.answer = d.answer /\ g.sent = d.sent
      BY <2>3, <3>4, AlikeFields
    <3>9. Steady(a, W) /\ Alike(g, a, {"answer"}) /\ Moves(d, a, {})
      BY <2>6, <3>4, <3>7, <3>8, TellWaiters
    <3> HIDE DEF a
    <3>10. /\ Steady(e, W) /\ Alike(a, e, {"rejoin_scheduled", "rejoins"})
           /\ a.desired => e.rejoins > 0
           /\ Moves(a, e, {})
      BY <3>1, <3>9, ScheduleEffect DEF Moves
    <3>11. Moves(d, e, {})
      BY <3>9, <3>10, MovesThen DEF Steady
    <3>12. /\ a.proto = out.proto /\ a.registered = d.registered
           /\ a.capacity = d.capacity /\ a.pending_joins = out.pending_joins
           /\ a.queued = d.queued /\ a.status = "Errored"
           /\ a.desired = d.desired
      <4>1. /\ g.proto = out.proto /\ g.registered = d.registered
            /\ g.capacity = d.capacity /\ g.pending_joins = out.pending_joins
            /\ g.queued = d.queued /\ g.desired = d.desired
        BY <2>3, <3>4, AlikeFields
      <4> QED BY <3>4, <3>9, <4>1, AlikeFields
    <3>13. /\ e.proto = out.proto /\ e.registered = d.registered
           /\ e.capacity = d.capacity /\ e.pending_joins = out.pending_joins
           /\ e.queued = d.queued /\ e.status = "Errored"
      BY <3>10, <3>12, AlikeFields
    <3>14. Done(d, e, {})
      BY <2>7, <3>11, <3>13
    <3>15. OnItsWay(e)
      BY <2>9, <3>10, <3>12 DEF OnItsWay
    <3> QED BY <3>10, <3>14, <3>15 DEF e
  <2>10. CASE d.deferred_leave = NoLeave /\ ~d.desired
    <3>1. e = SetStatus(out, "Left")
      BY <2>1, <2>10
    <3>2. Alike(d, out, Fields \ Holding)
      BY <2>2 DEF Alike, Fields, Holding
    <3>3. Moves(d, out, {})
      BY <3>2, KeepsAll
    <3> HIDE DEF e
    <3>4. /\ Steady(e, W) /\ Alike(out, e, {"status"}) /\ Moves(out, e, {})
          /\ e.status = IF out.registered THEN "Left" ELSE out.status
      BY <2>2, <2>5, <3>1, <3>3, SetStatusEffect DEF Moves
    <3>5. Moves(d, e, {})
      BY <3>3, <3>4, MovesThen DEF Steady
    <3>6. /\ e.proto = out.proto /\ e.registered = d.registered
          /\ e.capacity = d.capacity /\ e.pending_joins = out.pending_joins
          /\ e.queued = d.queued /\ ~e.desired
      BY <2>3, <2>10, <3>4, AlikeFields
    <3>7. Done(d, e, {})
      BY <2>3, <2>7, <3>4, <3>5, <3>6
    <3> QED BY <3>4, <3>6, <3>7 DEF OnItsWay, e
  <2> QED BY <2>8, <2>9, <2>10
<1> QED BY <1>1, <1>2

(* on_leave_timeout                                                        *)
LEMMA LeaveTimedOutKeeps ==
  ASSUME NEW W, NEW d, Steady(d, W), Once(d), NEW timeout \in d.op_timeouts,
         timeout.kind = "Leave"
  PROVE  LET e == TimedOut(d, timeout)
         IN  Steady(e, W) /\ Done(d, e, {}) /\ (OnItsWay(d) => OnItsWay(e))
<1> DEFINE e == TimedOut(d, timeout)
           c == Rung(d, timeout)
           late == {pending \in d.pending_leaves : pending.ref = timeout.ref}
           out == LeaveGivenUpBy(d, timeout, late)
           told == UNION {OpenLeave(pending) : pending \in late}
           a == Answer(out, told, "failed")
<1>1. e = IF late = {} THEN c ELSE AfterLeave(a)
  <2>1. out = [c EXCEPT !.pending_leaves = @ \ late, !.proto = P!Discard(@, Topic)]
    BY DEF LeaveGivenUpBy, Rung, Steady, Drivers
  <2>2. c.pending_leaves = d.pending_leaves
    BY DEF Rung, Steady, Drivers
  <2>3. e = LeaveTimedOut(c, timeout.ref)
    BY DEF TimedOut, Rung
  <2> HIDE DEF e, c, out
  <2>4. late = {pending \in c.pending_leaves : pending.ref = timeout.ref}
    BY <2>2
  <2> HIDE DEF late
  <2> QED BY <2>1, <2>3, <2>4 DEF LeaveTimedOut, out, c, late
<1>2. CASE late = {}
  <2>1. e = c
    BY <1>1, <1>2
  <2>2. Steady(c, W) /\ Done(d, c, {}) /\ (OnItsWay(d) => OnItsWay(c))
    BY <1>2, RungKeeps
  <2> QED BY <2>1, <2>2
<1>3. CASE late # {}
  <2>1. e = AfterLeave(a)
    BY <1>1, <1>3
  <2>2. late \subseteq d.pending_leaves
    OBVIOUS
  <2>3. \A i : i \in told <=> \E pending \in late : pending.open /\ pending.id = i
    BY DEF OpenLeave
  <2>4. /\ Steady(out, W) /\ Chan(out.proto) = P!Absent
        /\ Alike(d, out, {"op_timeouts", "pending_leaves", "proto"})
        /\ out.pending_leaves = d.pending_leaves \ late
    BY LeaveGivenUpEffect
  <2> HIDE DEF out, late
  <2>5. /\ out.join_waiters = d.join_waiters /\ out.queued = d.queued
        /\ out.deferred_leave = d.deferred_leave
        /\ out.pending_calls = d.pending_calls
        /\ out.answer = d.answer /\ out.sent = d.sent
    BY <2>4, AlikeFields
  <2>6. "failed" \in Answers \ {"none"} /\ d \in Drivers
    BY DEF Answers, Steady
  <2>7. Steady(a, W) /\ Alike(out, a, {"answer"}) /\ Moves(d, a, {})
    BY <2>2, <2>4, <2>5, <2>6, LeavesSettled
  <2>8. \A i \in Ids : i \in told => a.answer[i] = "failed"
    <3>1. a.answer = [i \in Ids |-> IF i \in told THEN "failed" ELSE out.answer[i]]
      BY <2>4, <2>6, AnswerEffect
    <3> HIDE DEF a, told
    <3> QED BY <3>1
  <2> HIDE DEF a, told
  <2>9. /\ out.registered = d.registered /\ out.capacity = d.capacity
        /\ out.pending_joins = d.pending_joins
    BY <2>4, AlikeFields
  <2>10. /\ a.proto = out.proto /\ a.registered = d.registered
         /\ a.capacity = d.capacity /\ a.pending_joins = d.pending_joins
         /\ a.queued = d.queued
    BY <2>5, <2>7, <2>9, AlikeFields
  <2>11. Chan(a.proto).state = "Absent" /\ Chan(a.proto).state \notin Active
    BY <2>4, <2>10 DEF P!Absent, Active
  <2>12. /\ Steady(e, W) /\ Moves(a, e, {}) /\ OnItsWay(e)
         /\ Alike(a, e, {"status", "active_payload", "loads"})
         /\ a.registered => e.status # "Joined"
    BY <2>1, <2>7, <2>11, AfterLeaveEffect DEF Moves
  <2> HIDE DEF e
  <2>13. Moves(d, e, {})
    BY <2>7, <2>12, MovesThen DEF Steady
  <2>14. /\ e.proto = a.proto /\ e.registered = d.registered
         /\ e.capacity = d.capacity /\ e.pending_joins = d.pending_joins
         /\ e.queued = d.queued /\ e.answer = a.answer
    BY <2>10, <2>12, AlikeFields
  <2>15. Buffered(d) => Buffered(e)
    BY <2>11, <2>14 DEF Buffered
  <2>16. Shown(e)
    BY <2>10, <2>11, <2>12, <2>14 DEF Shown
  <2>17. Closed(d) # {} \/ \E i \in Leaves : e.answer[i] = "failed"
    <3>1. PICK pending \in late : TRUE
      BY <1>3
    <3>2. pending \in d.pending_leaves
      BY <2>2
    <3>3. pending.id \in Leaves /\ pending.open \in BOOLEAN
      BY <3>2 DEF Steady, Drivers
    <3>4. CASE pending.open
      BY <2>3, <2>8, <2>14, <3>3, <3>4 DEF Ids
    <3>5. CASE ~pending.open
      BY <3>2, <3>3, <3>5 DEF Closed
    <3> QED BY <3>3, <3>4, <3>5
  <2>18. Done(d, e, {})
    BY <2>13, <2>14, <2>15, <2>16, <2>17 DEF Done, Keeps
  <2> QED BY <2>12, <2>18 DEF e
<1> QED BY <1>2, <1>3

(* The timeout of a join or a leave, whatever became of it since.          *)
LEMMA TimedOutKeeps ==
  ASSUME NEW W, NEW d, Steady(d, W), Once(d), NEW timeout \in d.op_timeouts
  PROVE  LET e == TimedOut(d, timeout)
         IN  Steady(e, W) /\ Done(d, e, {}) /\ (OnItsWay(d) => OnItsWay(e))
<1>1. timeout.kind \in {"Join", "Leave"}
  BY DEF Steady, Drivers
<1> QED BY <1>1, JoinTimedOutKeeps, LeaveTimedOutKeeps

---------------------------------------------------------------------------
(* Incoming frames.                                                        *)

(* A frame of the server, which owed W and owes V afterwards: the answer   *)
(* to a request, or the end of a generation, for which it then owes no     *)
(* answer to a join.                                                       *)
Spoken(d, f, W, V) ==
  /\ f.topic = Topic /\ f.join_ref # 0 /\ V \subseteq W
  /\ \/ /\ f.event = "phx_reply"
        /\ \E q \in W : /\ q.kind # "Cast" /\ V = W \ {q}
                        /\ f.ref = q.ref /\ f.join_ref = q.join_ref
     \/ /\ f.event \in {"phx_close", "phx_error"}
        /\ f.join_ref = JoinRef(d) =>
             \A q \in V : q.kind = "Join" => q.ref # JoinRef(d)

Received(d, f) == [d EXCEPT !.proto = P!Receive(@, f)]

(* What the server says is taken by the protocol: an answer to a join is   *)
(* one to the join the channel waits for, and a left channel does not wait *)
(* for a join.                                                             *)
LEMMA ReceivedSteady ==
  ASSUME NEW W, NEW V, NEW d, Steady(d, W), d.wire = {}, W \subseteq Owings,
         NEW f, Spoken(d, f, W, V)
  PROVE  LET e == Received(d, f)
             kind == P!EventKind(d.proto, f)
         IN  /\ Steady(e, V) /\ Alike(d, e, {"proto"})
             /\ kind \in {"Joined", "JoinError"} =>
                  /\ Chan(d.proto).state = "Joining" /\ f.ref = JoinRef(d)
                  /\ JoinRef(e) = JoinRef(d)
             /\ kind = "Left" => Chan(d.proto).state # "Joining"
<1> DEFINE e == Received(d, f)
           kind == P!EventKind(d.proto, f)
           p == P!Receive(d.proto, f)
           Left(state) == Chan(p).state =
                            IF Chan(d.proto).state = "Absent" THEN "Absent" ELSE state
<1>1. f.topic = Topic /\ f.event \in {"phx_reply", "phx_close", "phx_error"}
  BY DEF Spoken
<1>2. d.proto \in P!ProtocolState /\ Tidy(d.proto)
  BY DEF Steady, Drivers
<1>3. /\ p \in P!ProtocolState /\ Tidy(p)
      /\ p.next_reference = d.proto.next_reference
      /\ p.pending \subseteq d.proto.pending
      /\ Chan(p).join_ref = Chan(d.proto).join_ref \/ kind = "Left"
      /\ kind \in {"Joined", "JoinError", "Left", "Reply", "InvalidReply",
                   "ChannelClosed", "ChannelError", "StaleMessage",
                   "UnmatchedReply"}
      /\ kind = "Joined" => f.event = "phx_reply" /\ Chan(p).state = "Joined"
      /\ kind = "JoinError" => Chan(p).state = "Errored"
      /\ kind = "Left" => Chan(p) = P!Absent
      /\ kind \in {"Reply", "InvalidReply"} => Chan(p) = Chan(d.proto)
      /\ kind = "ChannelClosed" => Left("Closed")
      /\ kind = "ChannelError" => Left("Errored")
      /\ kind \in {"StaleMessage", "UnmatchedReply"} => p = d.proto
      /\ kind # "StaleMessage" =>
           \/ Chan(d.proto).state = "Absent" \/ f.join_ref = 0
           \/ f.join_ref = Chan(d.proto).join_ref
      /\ kind \in {"Joined", "JoinError", "Left", "Reply", "InvalidReply"} =>
           \E x \in d.proto.pending :
             /\ x.ref = f.ref /\ f.event = "phx_reply"
             /\ kind \in {"Joined", "JoinError"} => x.kind = "Join"
             /\ kind = "Left" => x.kind = "Leave"
             /\ kind = "Reply" => x.kind = "Push"
      /\ kind \in {"ChannelClosed", "ChannelError"} => f.event # "phx_reply"
  BY <1>1, <1>2, ReceiveEffect
<1>4. e = [d EXCEPT !.proto = p]
  BY DEF Received
<1> HIDE DEF p, kind
<1>5. e \in Drivers /\ e.proto = p /\ Alike(d, e, {"proto"})
  BY <1>3, <1>4 DEF Steady, Drivers, Alike, Fields
<1> HIDE DEF e
<1>6. /\ e.pending_joins = d.pending_joins /\ e.pending_calls = d.pending_calls
      /\ e.pending_leaves = d.pending_leaves /\ e.wire = d.wire
      /\ e.op_timeouts = d.op_timeouts
      /\ e.loads = d.loads /\ e.active_payload = d.active_payload
      /\ e.rejoin_scheduled = d.rejoin_scheduled /\ e.rejoins = d.rejoins
  BY <1>5, AlikeFields
<1>7. JoinRef(e) = Chan(p).join_ref /\ JoinRef(d) = Chan(d.proto).join_ref
  BY <1>5 DEF JoinRef, Chan
<1>8. kind = "Left" => JoinRef(e) = 0 /\ Chan(p).state = "Absent"
  BY <1>3, <1>7 DEF P!Absent
<1>9. JoinRef(e) \in {JoinRef(d), 0} /\ (kind # "Left" => JoinRef(e) = JoinRef(d))
  BY <1>3, <1>7, <1>8
<1>10. ASSUME kind \in {"Joined", "JoinError"}
       PROVE  /\ Chan(d.proto).state = "Joining" /\ f.ref = JoinRef(d)
              /\ \A q \in V : q.kind = "Join" => q.ref # JoinRef(d)
  <2>1. PICK x \in d.proto.pending : /\ x.ref = f.ref /\ f.event = "phx_reply"
                                     /\ x.kind = "Join"
    BY <1>3, <1>10
  <2>2. x.ref = JoinRef(d)
    BY <1>2, <1>7, <2>1 DEF Tidy
  <2>3. PICK q \in W : q.kind # "Cast" /\ V = W \ {q} /\ f.ref = q.ref
    BY <2>1 DEF Spoken
  <2>4. Sent(d, q)
    BY <2>3 DEF Steady, Owing
  <2>5. q.kind = "Join" /\ q.join_ref = q.ref
    BY <2>1, <2>3, <2>4 DEF Sent
  <2>6. Chan(d.proto).state = "Joining"
    BY <2>1, <2>2, <2>3, <2>4, <2>5 DEF Sent
  <2>7. ASSUME NEW r \in V, r.kind = "Join", r.ref = JoinRef(d)
        PROVE  FALSE
    <3>1. r \in W /\ r # q
      BY <2>3
    <3>2. Sent(d, r)
      BY <2>7, <3>1 DEF Steady, Owing
    <3>3. r.join_ref = r.ref
      BY <2>7, <3>2 DEF Sent
    <3>4. r \in Owings /\ q \in Owings
      BY <3>1
    <3>5. r = [kind |-> r.kind, ref |-> r.ref, join_ref |-> r.join_ref]
      BY <3>4 DEF Owings
    <3>6. q = [kind |-> q.kind, ref |-> q.ref, join_ref |-> q.join_ref]
      BY <3>4 DEF Owings
    <3> QED BY <2>1, <2>2, <2>3, <2>5, <2>7, <3>1, <3>3, <3>5, <3>6
  <2> QED BY <2>1, <2>2, <2>6, <2>7
<1>11. ASSUME kind = "Left"
       PROVE  Chan(d.proto).state # "Joining" /\ Chan(d.proto).state # "Absent"
  <2>1. PICK x \in d.proto.pending : x.kind = "Leave"
    BY <1>3, <1>11
  <2> QED BY <1>2, <2>1 DEF Tidy
<1>12. Chan(p).state = "Joining" => Chan(p) = Chan(d.proto)
  BY <1>3, <1>8
<1>13. Chan(p).state = "Leaving" => Chan(p) = Chan(d.proto)
  BY <1>3, <1>8
<1>14. Timed(e)
  <2>1. Chan(p).state = "Joined" => Chan(d.proto).state \in Active
    BY <1>3, <1>8, <1>10 DEF Active
  <2>2. Chan(p).state \in Active => Chan(d.proto).state \in Active
    BY <1>12, <1>13, <2>1 DEF Active
  <2> QED BY <1>5, <1>6, <2>2 DEF Steady, Timed
<1>15. Unrecorded(e)
  <2>1. SUFFICES ASSUME ~d.registered
                 PROVE  Chan(p) = P!Absent /\ p.pending = {}
    BY <1>5, AlikeFields DEF Steady, Unrecorded
  <2>2. Chan(d.proto) = P!Absent /\ d.proto.pending = {}
    BY <2>1 DEF Steady, Unrecorded
  <2>3. Chan(p).state = "Absent"
    BY <1>3, <1>8, <2>2 DEF P!Absent
  <2> QED BY <1>3, <2>2, <2>3, ProtoFacts
<1>16. Watched(e)
  BY <1>5, <1>6, <1>7, <1>12, <1>13 DEF Steady, Watched
<1>17. Tracked(e)
  BY <1>3, <1>5, <1>6 DEF Steady, Tracked
<1>18. \/ Chan(e.proto).state = "Joining"
       \/ \A q \in d.wire \cup V : q.kind = "Join" => q.ref # JoinRef(e)
  <2>1. SUFFICES ASSUME Chan(p).state # "Joining", NEW q \in V, q.kind = "Join",
                        q.ref = JoinRef(e)
                 PROVE  FALSE
    BY <1>5
  <2>2. q \in W
    BY <2>1 DEF Spoken
  <2>3. Sent(d, q)
    BY <2>1, <2>2 DEF Steady, Owing
  <2>4. q.ref # 0
    BY <2>1, <2>3 DEF Sent
  <2>5. kind # "Left"
    BY <1>8, <2>1, <2>4
  <2>6. q.ref = JoinRef(d)
    BY <1>9, <2>1, <2>5
  <2>7. Chan(d.proto).state = "Joining"
    BY <2>1, <2>3, <2>6 DEF Sent
  <2>8. kind \notin {"Joined", "JoinError"}
    BY <1>10, <2>1, <2>6
  <2>9. kind \in {"ChannelClosed", "ChannelError"}
    BY <1>3, <2>1, <2>5, <2>7, <2>8
  <2>10. f.event # "phx_reply" /\ f.join_ref = JoinRef(d)
    BY <1>3, <1>7, <2>7, <2>9 DEF Spoken
  <2> QED BY <2>1, <2>6, <2>10 DEF Spoken
<1>19. Steady(e, V)
  <2>1. V \subseteq W
    BY DEF Spoken
  <2>2. Chan(e.proto).state = "Joining" => Chan(d.proto).state = "Joining"
    BY <1>5, <1>12
  <2> HIDE DEF Left
  <2>3. /\ Tidy(e.proto) /\ e.proto.next_reference = d.proto.next_reference
        /\ e.proto.pending \subseteq d.proto.pending
    BY <1>3, <1>5
  <2> QED BY <1>5, <1>6, <1>9, <1>14, <1>15, <1>16, <1>17, <1>18, <2>1, <2>2, <2>3,
             EndSteady
<1>20. kind \in {"Joined", "JoinError"} => JoinRef(e) = JoinRef(d)
  BY <1>9
<1> QED BY <1>5, <1>10, <1>11, <1>19, <1>20 DEF e, kind

(* A join was accepted: its callers are told.                              *)
Accepted(d, ref) ==
  Answer([d EXCEPT !.pending_joins = @ \ {ref}, !.ever_joined = TRUE,
                   !.rejoin_scheduled = FALSE, !.join_waiters = {},
                   !.status = "Joined"],
         d.join_waiters, "ok")

(* The callers of an accepted join are told, and the join is pending no    *)
(* longer.                                                                 *)
LEMMA AcceptedEffect ==
  ASSUME NEW V, NEW d, Steady(d, V), Once(d), Chan(d.proto).state = "Joined",
         NEW ref
  PROVE  LET e == Accepted(d, ref)
         IN  /\ Steady(e, V) /\ Moves(d, e, {})
             /\ Alike(d, e, {"pending_joins", "ever_joined", "rejoin_scheduled",
                             "join_waiters", "status", "answer"})
             /\ e.status = "Joined" /\ e.pending_joins = d.pending_joins \ {ref}
<1> DEFINE c == [d EXCEPT !.pending_joins = @ \ {ref}, !.ever_joined = TRUE,
                          !.rejoin_scheduled = FALSE, !.join_waiters = {},
                          !.status = "Joined"]
           e == Accepted(d, ref)
<1>1. e = Answer(c, d.join_waiters, "ok")
  BY DEF Accepted
<1>2. "Joined" \in Statuses /\ "ok" \in Answers \ {"none"}
  BY DEF Statuses, Answers
<1>3. c \in Drivers
  BY <1>2 DEF Steady, Drivers
<1>4. /\ Alike(d, c, {"pending_joins", "ever_joined", "rejoin_scheduled",
                      "join_waiters", "status"})
      /\ c.pending_joins = d.pending_joins \ {ref} /\ ~c.rejoin_scheduled
      /\ c.join_waiters = {} /\ c.status = "Joined"
  BY DEF Steady, Drivers, Alike, Fields
<1> HIDE DEF c, e
<1>5. /\ c.proto = d.proto /\ c.pending_calls = d.pending_calls
      /\ c.pending_leaves = d.pending_leaves /\ c.wire = d.wire
      /\ c.op_timeouts = d.op_timeouts
      /\ c.loads = d.loads /\ c.active_payload = d.active_payload
      /\ c.rejoins = d.rejoins /\ c.queued = d.queued
      /\ c.deferred_leave = d.deferred_leave
      /\ c.answer = d.answer /\ c.sent = d.sent /\ c.registered = d.registered
  BY <1>4, AlikeFields
<1>6. d.registered
  BY StateFacts DEF Active
<1>7. Timed(c) /\ Tracked(c)
  BY <1>4, <1>5 DEF Steady, Timed, Tracked
<1>8. Unrecorded(c)
  BY <1>5, <1>6 DEF Unrecorded
<1>9. Watched(c)
  BY <1>5 DEF Watched
<1>10. \A q \in d.wire \cup V : q.kind = "Join" => q.ref # JoinRef(c)
  BY <1>5 DEF Steady, Owing, Sent, JoinRef
<1>11. /\ Tidy(c.proto) /\ c.proto.next_reference = d.proto.next_reference
       /\ c.proto.pending \subseteq d.proto.pending /\ JoinRef(c) = JoinRef(d)
       /\ c.pending_joins \subseteq d.pending_joins
       /\ Chan(c.proto).state = "Joining" => Chan(d.proto).state = "Joining"
  BY <1>4, <1>5 DEF Steady, JoinRef
<1>12. Steady(c, V)
  BY <1>3, <1>5, <1>7, <1>8, <1>9, <1>10, <1>11, EndSteady
<1>13. Steady(e, V) /\ Alike(c, e, {"answer"}) /\ Moves(d, e, {})
  BY <1>1, <1>2, <1>4, <1>5, <1>12, TellWaiters
<1>14. Alike(d, e, {"pending_joins", "ever_joined", "rejoin_scheduled",
                    "join_waiters", "status", "answer"})
  BY <1>4, <1>13 DEF Alike
<1>15. e.status = "Joined" /\ e.pending_joins = d.pending_joins \ {ref}
  BY <1>4, <1>13, AlikeFields
<1> QED BY <1>13, <1>14, <1>15 DEF e

(* The leave that was waiting for the join is on its way.                  *)
LEMMA DeferredStarted ==
  ASSUME NEW d \in Drivers, NEW e \in Drivers, Once(d),
         d.deferred_leave # NoLeave, e.deferred_leave = NoLeave,
         NEW entry, entry.id = d.deferred_leave.id,
         entry.open = d.deferred_leave.open,
         e.pending_leaves = d.pending_leaves \cup {entry},
         e.join_waiters = d.join_waiters, e.queued = d.queued,
         e.pending_calls = d.pending_calls,
         e.answer = d.answer, e.sent = d.sent
  PROVE  Moves(d, e, {})
<1>1. \A i : Has(e, i) <=> Has(d, i)
  BY DEF Has, NoLeave
<1>2. Once(e)
  BY <1>1 DEF Once, NoLeave
<1>3. Takes(d, e, {})
  BY <1>1, <1>2 DEF Once, Takes
<1>4. NoLeave.id \notin Leaves
  BY DriverAssumption DEF NoLeave
<1>5. Closed(e) \subseteq Closed(d)
  BY <1>4 DEF Closed
<1> QED BY <1>2, <1>3, <1>5 DEF Moves

(* The leave is sent.                                                      *)
LEMMA StartDeferredEffect ==
  ASSUME NEW V, NEW d, Steady(d, V), Once(d), Chan(d.proto).state = "Joined",
         d.deferred_leave # NoLeave
  PROVE  LET e == StartLeave([d EXCEPT !.deferred_leave = NoLeave,
                                       !.status = "Leaving"], d.deferred_leave)
         IN  /\ Steady(e, V) /\ Moves(d, e, {})
             /\ Alike(d, e, {"proto", "pending_leaves", "op_timeouts", "wire",
                             "deferred_leave", "status"})
             /\ Chan(e.proto).state = "Leaving" /\ e.status = "Leaving"
<1> DEFINE c == [d EXCEPT !.deferred_leave = NoLeave, !.status = "Leaving"]
           e == StartLeave(c, d.deferred_leave)
<1>1. "Leaving" \in Statuses
  BY DEF Statuses
<1>2. c \in Drivers
  BY <1>1 DEF Steady, Drivers
<1>3. /\ Alike(d, c, {"deferred_leave", "status"})
      /\ c.deferred_leave = NoLeave /\ c.status = "Leaving"
  BY DEF Steady, Drivers, Alike, Fields
<1>4. d.registered
  BY StateFacts DEF Active
<1> HIDE DEF c
<1>5. Alike(d, c, Soft)
  BY <1>3 DEF Alike, Soft
<1>6. Timed(c) /\ Unrecorded(c)
  BY <1>3, <1>4, AlikeFields DEF Steady, Timed, Unrecorded
<1>7. Steady(c, V)
  BY <1>2, <1>5, <1>6, SoftSteady
<1>8. /\ c.proto = d.proto /\ c.pending_leaves = d.pending_leaves
      /\ c.join_waiters = d.join_waiters /\ c.queued = d.queued
      /\ c.pending_calls = d.pending_calls
      /\ c.answer = d.answer /\ c.sent = d.sent
  BY <1>3, AlikeFields
<1>9. d.deferred_leave \in [id : Leaves, open : BOOLEAN]
  BY DEF Steady, Drivers
<1>10. Chan(c.proto).state = "Joined"
  BY <1>8
<1>11. /\ Steady(e, V)
       /\ Alike(c, e, {"proto", "pending_leaves", "op_timeouts", "wire"})
       /\ Chan(e.proto).state = "Leaving"
       /\ e.pending_leaves = c.pending_leaves \cup {LeaveEntry(c, d.deferred_leave)}
  BY <1>7, <1>9, <1>10, StartLeaveEffect
<1> HIDE DEF e
<1>12. /\ LeaveEntry(c, d.deferred_leave).id = d.deferred_leave.id
       /\ LeaveEntry(c, d.deferred_leave).open = d.deferred_leave.open
  BY DEF LeaveEntry
<1>13. /\ e.deferred_leave = NoLeave /\ e.status = "Leaving"
       /\ e.join_waiters = d.join_waiters /\ e.queued = d.queued
       /\ e.pending_calls = d.pending_calls
       /\ e.answer = d.answer /\ e.sent = d.sent
  BY <1>3, <1>8, <1>11, AlikeFields
<1>14. Moves(d, e, {})
  BY <1>8, <1>11, <1>12, <1>13, DeferredStarted DEF Steady
<1>15. Alike(d, e, {"proto", "pending_leaves", "op_timeouts", "wire",
                    "deferred_leave", "status"})
  BY <1>3, <1>11 DEF Alike
<1> QED BY <1>11, <1>13, <1>14, <1>15 DEF e, c

(* How far a flush of d may get.                                           *)
Extent(d, n, ok) == n \in 0..Len(d.queued) /\ (ok => n = Len(d.queued))

(* on_joined                                                               *)
LEMMA JoinAcceptedEffect ==
  ASSUME NEW V, NEW d, Steady(d, V), Once(d), Chan(d.proto).state = "Joined",
         NEW ref, NEW n, NEW ok \in BOOLEAN, Extent(d, n, ok)
  PROVE  LET e == JoinAccepted(d, ref, n, ok)
         IN  /\ Steady(e, V) /\ Moves(d, e, {})
             /\ e.capacity = d.capacity /\ e.registered = d.registered
             /\ e.pending_joins = d.pending_joins \ {ref}
             /\ Len(e.queued) <= Len(d.queued)
             /\ Chan(e.proto).state \in {"Joined", "Leaving"}
             /\ e.status = Chan(e.proto).state
             /\ ok /\ Chan(e.proto).state = "Joined" => e.queued = <<>>
<1> DEFINE e == JoinAccepted(d, ref, n, ok)
           a == Accepted(d, ref)
           b == [a EXCEPT !.deferred_leave = NoLeave, !.status = "Leaving"]
<1>1. d.registered
  BY StateFacts DEF Active
<1>2. /\ d.deferred_leave # NoLeave => e = StartLeave(b, a.deferred_leave)
      /\ d.deferred_leave = NoLeave => e = Flush(a, n, ok)
  <2> DEFINE f == Answer([d EXCEPT !.pending_joins = @ \ {ref}, !.ever_joined = TRUE,
                          !.rejoin_scheduled = FALSE, !.deferred_leave = NoLeave,
                          !.join_waiters = {}, !.status = "Joined"],
                         d.join_waiters, "ok")
  <2>1. e = IF d.deferred_leave # NoLeave
              THEN StartLeave([f EXCEPT !.status = "Leaving"], d.deferred_leave)
              ELSE Flush(f, n, ok)
    BY <1>1 DEF JoinAccepted
  <2>2. a.deferred_leave = d.deferred_leave
    BY DEF Accepted, Answer, Steady, Drivers
  <2>3. b = [f EXCEPT !.status = "Leaving"]
    BY DEF Accepted, Answer, Steady, Drivers
  <2>4. d.deferred_leave = NoLeave => a = f
    BY DEF Accepted, Answer, Steady, Drivers
  <2> HIDE DEF e, a, b, f
  <2> QED BY <2>1, <2>2, <2>3, <2>4
<1>3. /\ Steady(a, V) /\ Moves(d, a, {})
      /\ Alike(d, a, {"pending_joins", "ever_joined", "rejoin_scheduled",
                      "join_waiters", "status", "answer"})
      /\ a.status = "Joined" /\ a.pending_joins = d.pending_joins \ {ref}
  BY AcceptedEffect
<1> HIDE DEF a
<1>4. /\ a.proto = d.proto /\ a.capacity = d.capacity /\ a.registered = d.registered
      /\ a.queued = d.queued /\ a.deferred_leave = d.deferred_leave
  BY <1>3, AlikeFields
<1>5. Once(a) /\ Chan(a.proto).state = "Joined"
  BY <1>3, <1>4 DEF Moves
<1>6. d.queued \in Seq(Pushes) /\ Len(d.queued) \in Nat
  BY DEF Steady, Drivers
<1>7. CASE d.deferred_leave # NoLeave
  <2>1. e = StartLeave(b, a.deferred_leave)
    BY <1>2, <1>7
  <2>2. /\ Steady(e, V) /\ Moves(a, e, {})
        /\ Alike(a, e, {"proto", "pending_leaves", "op_timeouts", "wire",
                        "deferred_leave", "status"})
        /\ Chan(e.proto).state = "Leaving" /\ e.status = "Leaving"
    BY <1>3, <1>4, <1>5, <1>7, <2>1, StartDeferredEffect
  <2> HIDE DEF e, b
  <2>3. Moves(d, e, {})
    BY <1>3, <2>2, MovesThen DEF Steady
  <2>4. /\ e.capacity = d.capacity /\ e.registered = d.registered
        /\ e.queued = d.queued /\ e.pending_joins = d.pending_joins \ {ref}
    BY <1>3, <1>4, <2>2, AlikeFields
  <2> QED BY <1>6, <2>2, <2>3, <2>4 DEF e
<1>8. CASE d.deferred_leave = NoLeave
  <2>1. e = Flush(a, n, ok) /\ n \in 0..Len(a.queued)
    BY <1>2, <1>4, <1>8 DEF Extent
  <2> HIDE DEF e
  <2>2. /\ Steady(e, V) /\ Moves(a, e, {}) /\ Alike(a, e, Flushing)
        /\ Chan(e.proto) = Chan(a.proto) /\ Len(e.queued) = Len(a.queued) - n
    BY <1>3, <1>5, <2>1, FlushEffect
  <2>3. Moves(d, e, {})
    BY <1>3, <2>2, MovesThen DEF Steady
  <2>4. /\ e.capacity = d.capacity /\ e.registered = d.registered
        /\ e.status = "Joined" /\ e.pending_joins = d.pending_joins \ {ref}
    BY <1>3, <1>4, <2>2, AlikeFields DEF Flushing
  <2>5. Len(e.queued) <= Len(d.queued)
    BY <1>4, <1>6, <2>1, <2>2
  <2>6. ok => e.queued = <<>>
    <3>1. ok => Len(e.queued) = 0
      BY <1>4, <1>6, <2>2 DEF Extent
    <3>2. e.queued \in Seq(Pushes)
      BY <2>2 DEF Steady, Drivers
    <3> HIDE DEF e
    <3> QED BY <3>1, <3>2
  <2> QED BY <1>5, <2>2, <2>3, <2>4, <2>5, <2>6 DEF e
<1> QED BY <1>7, <1>8

(* Joins that are no longer pending.                                       *)
LEMMA JoinsEndEffect ==
  ASSUME NEW V, NEW d, Steady(d, V), Once(d), Chan(d.proto).state # "Joining",
         NEW joins, joins \subseteq d.pending_joins
  PROVE  LET e == [d EXCEPT !.pending_joins = joins]
         IN  /\ Steady(e, V) /\ Moves(d, e, {}) /\ Alike(d, e, {"pending_joins"})
             /\ e.pending_joins = joins
<1> DEFINE e == [d EXCEPT !.pending_joins = joins]
<1>1. e \in Drivers
  BY DEF Steady, Drivers
<1>2. Alike(d, e, {"pending_joins"}) /\ e.pending_joins = joins
  BY DEF Steady, Drivers, Alike, Fields
<1> HIDE DEF e
<1>3. /\ e.proto = d.proto /\ e.pending_calls = d.pending_calls
      /\ e.pending_leaves = d.pending_leaves /\ e.wire = d.wire
      /\ e.op_timeouts = d.op_timeouts
      /\ e.loads = d.loads /\ e.active_payload = d.active_payload
      /\ e.rejoin_scheduled = d.rejoin_scheduled /\ e.rejoins = d.rejoins
  BY <1>2, AlikeFields
<1>4. Timed(e) /\ Tracked(e) /\ Watched(e)
  BY <1>3 DEF Steady, Timed, Tracked, Watched, JoinRef
<1>5. Unrecorded(e)
  BY <1>2, AlikeFields DEF Steady, Unrecorded
<1>6. \A q \in d.wire \cup V : q.kind = "Join" => q.ref # JoinRef(e)
  BY <1>3 DEF Steady, Owing, Sent, JoinRef
<1>7. /\ Tidy(e.proto) /\ e.proto.next_reference = d.proto.next_reference
      /\ e.proto.pending \subseteq d.proto.pending /\ JoinRef(e) = JoinRef(d)
      /\ Chan(e.proto).state = "Joining" => Chan(d.proto).state = "Joining"
      /\ e.pending_joins \subseteq d.pending_joins
  BY <1>2, <1>3 DEF Steady, JoinRef
<1>8. Steady(e, V)
  BY <1>1, <1>3, <1>4, <1>5, <1>6, <1>7, EndSteady
<1>9. Alike(d, e, Fields \ Holding)
  BY <1>2 DEF Alike, Fields, Holding
<1> QED BY <1>2, <1>8, <1>9, KeepsAll DEF e

(* on_join_error                                                           *)
LEMMA JoinRefusedEffect ==
  ASSUME NEW V, NEW d, Steady(d, V), Once(d), Chan(d.proto).state # "Joining",
         NEW ref
  PROVE  LET e == JoinRefused(d, ref)
         IN  /\ Steady(e, V) /\ Moves(d, e, {}) /\ OnItsWay(e)
             /\ e.proto = d.proto /\ e.registered = d.registered
             /\ e.capacity = d.capacity /\ e.queued = d.queued
             /\ e.pending_joins = d.pending_joins \ {ref}
             /\ d.registered => e.status # "Joined"
<1> DEFINE e == JoinRefused(d, ref)
           c == [d EXCEPT !.pending_joins = d.pending_joins \ {ref}]
           f == [c EXCEPT !.deferred_leave = NoLeave, !.join_waiters = {}]
           S == OpenLeave(d.deferred_leave)
           a == Answer(f, S, "ok")
           b == Answer(a, d.join_waiters, "failed")
           status == IF d.deferred_leave = NoLeave THEN "Errored" ELSE "Left"
           s == SetStatus(b, status)
<1>1. e = ScheduleRejoin(s)
  BY DEF JoinRefused
<1>2. /\ Steady(c, V) /\ Alike(d, c, {"pending_joins"})
      /\ c.pending_joins = d.pending_joins \ {ref}
  BY JoinsEndEffect
<1>3. f \in Drivers
  BY <1>2 DEF Steady, Drivers
<1>4. /\ Alike(c, f, {"deferred_leave", "join_waiters"})
      /\ f.deferred_leave = NoLeave /\ f.join_waiters = {}
  BY <1>2 DEF Steady, Drivers, Alike, Fields
<1>5. \A i : i \in S <=> d.deferred_leave.open /\ i = d.deferred_leave.id
  BY DEF OpenLeave
<1>6. status \in Statuses /\ status # "Joined"
  BY DEF Statuses
<1>7. {"ok", "failed"} \subseteq Answers \ {"none"}
  BY DEF Answers
<1> HIDE DEF c, f, e, S, status
<1>8. Alike(c, f, Soft)
  BY <1>4 DEF Alike, Soft
<1>9. Timed(f) /\ Unrecorded(f)
  BY <1>2, <1>4, AlikeFields DEF Steady, Timed, Unrecorded
<1>10. Steady(f, V)
  BY <1>2, <1>3, <1>8, <1>9, SoftSteady
<1>11. /\ Steady(a, V) /\ Alike(f, a, {"answer"})
       /\ a.answer = [i \in Ids |-> IF i \in S THEN "ok" ELSE f.answer[i]]
  BY <1>7, <1>10, AnswerEffect
<1> HIDE DEF a
<1>12. /\ Steady(b, V) /\ Alike(a, b, {"answer"})
       /\ b.answer = [i \in Ids |-> IF i \in d.join_waiters THEN "failed"
                                                           ELSE a.answer[i]]
  BY <1>7, <1>11, AnswerEffect
<1> HIDE DEF b
<1>13. /\ f.queued = d.queued /\ f.pending_calls = d.pending_calls
       /\ f.pending_leaves = d.pending_leaves
       /\ f.answer = d.answer /\ f.sent = d.sent /\ f.proto = d.proto
       /\ f.registered = d.registered /\ f.capacity = d.capacity
       /\ f.pending_joins = d.pending_joins \ {ref}
  <2>1. /\ c.queued = d.queued /\ c.pending_calls = d.pending_calls
        /\ c.pending_leaves = d.pending_leaves
        /\ c.answer = d.answer /\ c.sent = d.sent /\ c.proto = d.proto
        /\ c.registered = d.registered /\ c.capacity = d.capacity
    BY <1>2, AlikeFields
  <2> QED BY <1>2, <1>4, <2>1, AlikeFields
<1>14. /\ b.queued = d.queued /\ b.pending_calls = d.pending_calls
       /\ b.pending_leaves = d.pending_leaves /\ b.sent = d.sent
       /\ b.deferred_leave = NoLeave /\ b.join_waiters = {}
       /\ b.proto = d.proto /\ b.registered = d.registered
       /\ b.capacity = d.capacity /\ b.pending_joins = d.pending_joins \ {ref}
  <2>1. Alike(f, b, {"answer"})
    BY <1>11, <1>12 DEF Alike
  <2> QED BY <1>4, <1>13, <2>1, AlikeFields
<1>15. ASSUME NEW i \in Ids
       PROVE  IF Has(d, i) /\ ~Has(b, i) THEN b.answer[i] # "none"
                                         ELSE b.answer[i] = d.answer[i]
  <2>1. b.answer[i] = IF i \in d.join_waiters THEN "failed"
                      ELSE IF i \in S THEN "ok" ELSE d.answer[i]
    BY <1>11, <1>12, <1>13
  <2>2. CASE i \in d.join_waiters
    <3>1. i \in Joins /\ i \notin Leaves /\ i \notin Pushes
      BY <2>2, DriverAssumption DEF Steady, Drivers
    <3>2. i \notin ToSet(d.queued)
      BY <3>1, HeldIds DEF Steady
    <3>3. /\ \A call \in d.pending_calls : call.id # i
          /\ \A pending \in d.pending_leaves : pending.id # i
      BY <3>1 DEF Steady, Drivers, Pushes
    <3>4. Has(d, i)
      BY <2>2 DEF Has
    <3>5. ~Has(b, i)
      BY <1>14, <3>2, <3>3 DEF Has, NoLeave
    <3> QED BY <2>1, <2>2, <3>4, <3>5
  <2>3. CASE i \notin d.join_waiters /\ i \in S
    <3>1. d.deferred_leave.open /\ i = d.deferred_leave.id
      BY <1>5, <2>3
    <3>2. i \in Leaves
      BY <3>1 DEF Steady, Drivers, NoLeave
    <3>3. i \notin Joins /\ i \notin Pushes
      BY <3>2, DriverAssumption
    <3>4. i \notin ToSet(d.queued)
      BY <3>3, HeldIds DEF Steady
    <3>5. \A call \in d.pending_calls : call.id # i
      BY <3>3 DEF Steady, Drivers, Pushes
    <3>6. \A other \in d.pending_leaves : ~(other.open /\ other.id = i)
      BY <3>1 DEF Once
    <3>7. Has(d, i)
      BY <3>1 DEF Has
    <3>8. ~Has(b, i)
      BY <1>14, <3>4, <3>5, <3>6 DEF Has, NoLeave
    <3> QED BY <2>1, <2>3, <3>7, <3>8
  <2>4. CASE i \notin d.join_waiters /\ i \notin S
    <3>1. Has(d, i) => Has(b, i)
      BY <1>5, <1>14, <2>4 DEF Has
    <3> QED BY <2>1, <2>4, <3>1
  <2> QED BY <2>2, <2>3, <2>4
<1>16. Moves(d, b, {})
  <2>1. b.join_waiters \subseteq d.join_waiters
    BY <1>14
  <2>2. b \in Drivers /\ d \in Drivers
    BY <1>12 DEF Steady
  <2> QED BY <1>14, <1>15, <2>1, <2>2, SettlesEach
<1>17. /\ Steady(s, V) /\ Alike(b, s, {"status"}) /\ Moves(b, s, {})
       /\ s.status = IF b.registered THEN status ELSE b.status
  BY <1>6, <1>12, <1>16, SetStatusEffect DEF Moves
<1> HIDE DEF s
<1>18. Moves(d, s, {})
  BY <1>16, <1>17, MovesThen DEF Steady
<1>19. /\ Steady(e, V) /\ Alike(s, e, {"rejoin_scheduled", "rejoins"})
       /\ s.desired => e.rejoins > 0
       /\ Moves(s, e, {})
  BY <1>1, <1>17, <1>18, ScheduleEffect DEF Moves
<1>20. Moves(d, e, {})
  BY <1>18, <1>19, MovesThen DEF Steady
<1>21. Alike(b, e, {"status", "rejoin_scheduled", "rejoins"}) /\ e.status = s.status
  BY <1>17, <1>19, AlikeFields DEF Alike
<1>22. /\ e.proto = d.proto /\ e.registered = d.registered
       /\ e.capacity = d.capacity /\ e.queued = d.queued
       /\ e.pending_joins = d.pending_joins \ {ref}
  BY <1>14, <1>21, AlikeFields
<1>23. OnItsWay(e)
  <2>1. e.desired = s.desired
    BY <1>19, AlikeFields
  <2> QED BY <1>19, <2>1 DEF OnItsWay
<1>24. d.registered => e.status # "Joined"
  BY <1>6, <1>14, <1>17, <1>21
<1> QED BY <1>19, <1>20, <1>22, <1>23, <1>24 DEF e

(* on_channel_error                                                        *)
LEMMA ChannelErroredEffect ==
  ASSUME NEW V, NEW d, Steady(d, V), Once(d), Chan(d.proto).state # "Joining"
  PROVE  LET e == ChannelErrored(d)
         IN  /\ Steady(e, V) /\ Moves(d, e, {}) /\ OnItsWay(e)
             /\ e.proto = d.proto /\ e.registered = d.registered
             /\ e.capacity = d.capacity /\ e.queued = d.queued
             /\ e.pending_joins = {}
             /\ d.registered => e.status # "Joined"
<1> DEFINE e == ChannelErrored(d)
           c == [d EXCEPT !.pending_joins = {}]
           s == SetStatus(c, "Errored")
<1>1. e = ScheduleRejoin(s)
  BY DEF ChannelErrored
<1>2. /\ Steady(c, V) /\ Moves(d, c, {}) /\ Alike(d, c, {"pending_joins"})
      /\ c.pending_joins = {}
  BY JoinsEndEffect
<1> HIDE DEF e, c
<1>3. "Errored" \in Statuses
  BY DEF Statuses
<1>4. /\ Steady(s, V) /\ Alike(c, s, {"status"}) /\ Moves(c, s, {})
      /\ s.status = IF c.registered THEN "Errored" ELSE c.status
  BY <1>2, <1>3, SetStatusEffect DEF Moves
<1> HIDE DEF s
<1>5. Moves(d, s, {})
  BY <1>2, <1>4, MovesThen DEF Steady
<1>6. /\ Steady(e, V) /\ Alike(s, e, {"rejoin_scheduled", "rejoins"})
      /\ s.desired => e.rejoins > 0
      /\ Moves(s, e, {})
  BY <1>1, <1>4, <1>5, ScheduleEffect DEF Moves
<1>7. Moves(d, e, {})
  BY <1>5, <1>6, MovesThen DEF Steady
<1>8. Alike(d, e, {"pending_joins", "status", "rejoin_scheduled", "rejoins"})
  BY <1>2, <1>4, <1>6 DEF Alike
<1>9. /\ e.proto = d.proto /\ e.registered = d.registered
      /\ e.capacity = d.capacity /\ e.queued = d.queued
  BY <1>8, AlikeFields
<1>10. e.pending_joins = {} /\ e.status = s.status /\ e.desired = s.desired
  BY <1>2, <1>4, <1>6, AlikeFields
<1>11. c.registered = d.registered
  BY <1>2, AlikeFields
<1>12. OnItsWay(e)
  BY <1>6, <1>10 DEF OnItsWay
<1>13. d.registered => e.status # "Joined"
  BY <1>4, <1>10, <1>11
<1> QED BY <1>6, <1>7, <1>9, <1>10, <1>12, <1>13 DEF e

(* on_channel_closed                                                       *)
LEMMA ChannelClosedEffect ==
  ASSUME NEW V, NEW d, Steady(d, V), Once(d), Chan(d.proto).state # "Joining"
  PROVE  LET e == ChannelClosed(d)
         IN  /\ Steady(e, V) /\ Moves(d, e, {}) /\ OnItsWay(e)
             /\ e.proto = d.proto /\ e.registered = d.registered
             /\ e.capacity = d.capacity /\ e.queued = <<>>
             /\ e.pending_joins = {}
             /\ d.registered => e.status # "Joined"
<1> DEFINE e == ChannelClosed(d)
           c == [d EXCEPT !.pending_joins = {}]
           s == SetStatus(c, "Closed")
<1>1. e = StopChannel(s)
  BY DEF ChannelClosed
<1>2. /\ Steady(c, V) /\ Moves(d, c, {}) /\ Alike(d, c, {"pending_joins"})
      /\ c.pending_joins = {}
  BY JoinsEndEffect
<1> HIDE DEF e, c
<1>3. "Closed" \in Statuses
  BY DEF Statuses
<1>4. /\ Steady(s, V) /\ Alike(c, s, {"status"}) /\ Moves(c, s, {})
      /\ s.status = IF c.registered THEN "Closed" ELSE c.status
  BY <1>2, <1>3, SetStatusEffect DEF Moves
<1> HIDE DEF s
<1>5. Moves(d, s, {})
  BY <1>2, <1>4, MovesThen DEF Steady
<1>6. /\ Steady(e, V) /\ Alike(s, e, Stopped) /\ ~e.desired /\ e.queued = <<>>
      /\ Moves(s, e, {})
  BY <1>1, <1>4, <1>5, StopEffect DEF Moves
<1>7. Moves(d, e, {})
  BY <1>5, <1>6, MovesThen DEF Steady
<1>8. Alike(d, e, {"pending_joins", "status"} \cup Stopped)
  BY <1>2, <1>4, <1>6 DEF Alike
<1>9. /\ e.proto = d.proto /\ e.registered = d.registered
      /\ e.capacity = d.capacity
  BY <1>8, AlikeFields DEF Stopped
<1>10. e.status = s.status /\ e.pending_joins = s.pending_joins
  BY <1>6, AlikeFields DEF Stopped
<1>11. s.pending_joins = {} /\ c.registered = d.registered
  BY <1>2, <1>4, AlikeFields
<1>12. OnItsWay(e)
  BY <1>6 DEF OnItsWay
<1>13. d.registered => e.status # "Joined"
  BY <1>4, <1>10, <1>11
<1> QED BY <1>6, <1>7, <1>9, <1>10, <1>11, <1>12, <1>13 DEF e

(* on_left                                                                 *)
LEMMA LeaveAnsweredEffect ==
  ASSUME NEW V, NEW d, Steady(d, V), Once(d), Chan(d.proto).state = "Absent",
         NEW ref
  PROVE  LET e == LeaveAnswered(d, ref)
         IN  /\ Steady(e, V) /\ Moves(d, e, {}) /\ OnItsWay(e)
             /\ e.proto = d.proto /\ e.registered = d.registered
             /\ e.capacity = d.capacity /\ e.queued = d.queued
             /\ e.pending_joins = d.pending_joins
             /\ d.registered => e.status # "Joined"
<1> DEFINE e == LeaveAnswered(d, ref)
           over == {pending \in d.pending_leaves : pending.ref = ref}
           c == [d EXCEPT !.pending_leaves = @ \ over]
           a == Answer(c, UNION {OpenLeave(pending) : pending \in over}, "ok")
<1>1. e = AfterLeave(a)
  BY DEF LeaveAnswered
<1>2. c \in Drivers
  BY DEF Steady, Drivers
<1>3. /\ Alike(d, c, {"pending_leaves"})
      /\ c.pending_leaves = d.pending_leaves \ over
  BY DEF Steady, Drivers, Alike, Fields
<1>4. over \subseteq d.pending_leaves
  OBVIOUS
<1>5. "ok" \in Answers \ {"none"} /\ d \in Drivers
  BY DEF Answers, Steady
<1> HIDE DEF c, e, over
<1>6. /\ c.proto = d.proto /\ c.pending_calls = d.pending_calls
      /\ c.pending_joins = d.pending_joins /\ c.wire = d.wire
      /\ c.op_timeouts = d.op_timeouts
      /\ c.loads = d.loads /\ c.active_payload = d.active_payload
      /\ c.rejoin_scheduled = d.rejoin_scheduled /\ c.rejoins = d.rejoins
  BY <1>3, AlikeFields
<1>7. /\ c.join_waiters = d.join_waiters /\ c.queued = d.queued
      /\ c.deferred_leave = d.deferred_leave
      /\ c.answer = d.answer /\ c.sent = d.sent
      /\ c.registered = d.registered /\ c.capacity = d.capacity
  BY <1>3, AlikeFields
<1>8. Timed(c) /\ Tracked(c) /\ Watched(c)
  BY <1>6 DEF Steady, Timed, Tracked, Watched
<1>9. Unrecorded(c)
  BY <1>3, AlikeFields DEF Steady, Unrecorded
<1>10. \A q \in d.wire \cup V : q.kind = "Join" => q.ref # JoinRef(c)
  BY <1>6 DEF Steady, Owing, Sent, JoinRef
<1>11. /\ Tidy(c.proto) /\ c.proto.next_reference = d.proto.next_reference
       /\ c.proto.pending \subseteq d.proto.pending /\ JoinRef(c) = JoinRef(d)
       /\ Chan(c.proto).state = "Joining" => Chan(d.proto).state = "Joining"
       /\ c.pending_leaves \subseteq d.pending_leaves
  BY <1>3, <1>6 DEF Steady, JoinRef
<1>12. Steady(c, V)
  BY <1>2, <1>6, <1>8, <1>9, <1>10, <1>11, EndSteady
<1>13. Steady(a, V) /\ Alike(c, a, {"answer"}) /\ Moves(d, a, {})
  BY <1>3, <1>4, <1>5, <1>6, <1>7, <1>12, LeavesSettled
<1> HIDE DEF a
<1>14. /\ a.proto = d.proto /\ a.registered = d.registered
       /\ a.capacity = d.capacity /\ a.queued = d.queued
       /\ a.pending_joins = d.pending_joins
  BY <1>6, <1>7, <1>13, AlikeFields
<1>15. Chan(a.proto).state \notin Active
  BY <1>14 DEF Active
<1>16. /\ Steady(e, V) /\ Moves(a, e, {}) /\ OnItsWay(e)
       /\ Alike(a, e, {"status", "active_payload", "loads"})
       /\ a.registered => e.status # "Joined"
  BY <1>1, <1>13, <1>15, AfterLeaveEffect DEF Moves
<1>17. Moves(d, e, {})
  BY <1>13, <1>16, MovesThen DEF Steady
<1>18. /\ e.proto = d.proto /\ e.registered = d.registered
       /\ e.capacity = d.capacity /\ e.queued = d.queued
       /\ e.pending_joins = d.pending_joins
  BY <1>14, <1>16, AlikeFields
<1> QED BY <1>14, <1>16, <1>17, <1>18 DEF e

(* on_reply                                                                *)
LEMMA CallAnsweredEffect ==
  ASSUME NEW V, NEW d, Steady(d, V), Once(d),
         NEW ref, \A x \in d.proto.pending : x.ref # ref
  PROVE  LET e == CallAnswered(d, ref)
         IN  /\ Steady(e, V) /\ Moves(d, e, {})
             /\ Alike(d, e, {"pending_calls", "answer"})
<1> DEFINE e == CallAnswered(d, ref)
           over == {call \in d.pending_calls : call.ref = ref}
           S == {call.id : call \in over}
           c == [d EXCEPT !.pending_calls = @ \ over]
<1>1. e = Answer(c, S, "ok")
  BY DEF CallAnswered
<1>2. c \in Drivers
  BY DEF Steady, Drivers
<1>3. /\ Alike(d, c, {"pending_calls"})
      /\ c.pending_calls = d.pending_calls \ over
  BY DEF Steady, Drivers, Alike, Fields
<1>4. /\ \A call : call \in over <=> call \in d.pending_calls /\ call.ref = ref
      /\ \A i : i \in S <=> \E call \in over : call.id = i
  OBVIOUS
<1>5. "ok" \in Answers \ {"none"}
  BY DEF Answers
<1> HIDE DEF c, e, over, S
<1>6. /\ c.proto = d.proto /\ c.pending_leaves = d.pending_leaves
      /\ c.pending_joins = d.pending_joins /\ c.wire = d.wire
      /\ c.op_timeouts = d.op_timeouts
      /\ c.loads = d.loads /\ c.active_payload = d.active_payload
      /\ c.rejoin_scheduled = d.rejoin_scheduled /\ c.rejoins = d.rejoins
  BY <1>3, AlikeFields
<1>7. Timed(c) /\ Watched(c)
  BY <1>6 DEF Steady, Timed, Watched, JoinRef
<1>8. Tracked(c)
  BY <1>3, <1>4, <1>6 DEF Steady, Tracked
<1>9. Unrecorded(c)
  BY <1>3, AlikeFields DEF Steady, Unrecorded
<1>10. \/ Chan(c.proto).state = "Joining"
       \/ \A q \in d.wire \cup V : q.kind = "Join" => q.ref # JoinRef(c)
  BY <1>6 DEF Steady, Owing, Sent, JoinRef
<1>11. /\ Tidy(c.proto) /\ c.proto.next_reference = d.proto.next_reference
       /\ c.proto.pending \subseteq d.proto.pending /\ JoinRef(c) = JoinRef(d)
       /\ Chan(c.proto).state = "Joining" => Chan(d.proto).state = "Joining"
       /\ c.pending_calls \subseteq d.pending_calls
  BY <1>3, <1>6 DEF Steady, JoinRef
<1>12. Steady(c, V)
  BY <1>2, <1>6, <1>7, <1>8, <1>9, <1>10, <1>11, EndSteady
<1>13. /\ Steady(e, V) /\ Alike(c, e, {"answer"})
       /\ e.answer = [i \in Ids |-> IF i \in S THEN "ok" ELSE c.answer[i]]
  BY <1>1, <1>5, <1>12, AnswerEffect
<1>14. Alike(d, e, {"pending_calls", "answer"})
  BY <1>3, <1>13 DEF Alike
<1>15. /\ e.join_waiters = d.join_waiters /\ e.queued = d.queued
       /\ e.deferred_leave = d.deferred_leave
       /\ e.pending_leaves = d.pending_leaves /\ e.sent = d.sent
       /\ e.pending_calls = d.pending_calls \ over /\ c.answer = d.answer
  BY <1>3, <1>13, <1>14, AlikeFields
<1>16. ASSUME NEW i \in Ids
       PROVE  i \in S <=> Has(d, i) /\ ~Has(e, i)
  <2>1. ASSUME i \in S
        PROVE  Has(d, i) /\ ~Has(e, i)
    <3>1. PICK call \in d.pending_calls : call \in over /\ call.id = i
      BY <1>4, <2>1
    <3>2. i \in Calls
      BY <3>1 DEF Steady, Drivers
    <3>3. i \notin Joins /\ i \notin Leaves
      BY <3>2, DriverAssumption DEF Pushes
    <3>4. i \notin d.join_waiters
      BY <3>3 DEF Steady, Drivers
    <3>5. i \notin ToSet(d.queued)
      BY <3>1 DEF Once
    <3>6. ~(d.deferred_leave.open /\ d.deferred_leave.id = i)
      BY <3>3 DEF Steady, Drivers, NoLeave
    <3>7. \A other \in d.pending_leaves : other.id # i
      BY <3>3 DEF Steady, Drivers
    <3>8. \A other \in e.pending_calls : other.id # i
      BY <1>15, <3>1 DEF Once
    <3>9. Has(d, i)
      BY <3>1 DEF Has
    <3> QED BY <1>15, <3>4, <3>5, <3>6, <3>7, <3>8, <3>9 DEF Has
  <2>2. ASSUME Has(d, i), ~Has(e, i)
        PROVE  i \in S
    BY <1>4, <1>15, <2>2 DEF Has
  <2> QED BY <2>1, <2>2
<1>17. Moves(d, e, {})
  BY <1>5, <1>13, <1>15, <1>16, Settles DEF Steady
<1> QED BY <1>13, <1>14, <1>17 DEF e

(* handle_incoming.  If the transport fails meanwhile, the push buffer may *)
(* not be empty yet.                                                       *)
LEMMA IncomingKeeps ==
  ASSUME NEW W, NEW V, NEW d, Steady(d, W), Once(d), d.wire = {}, W \subseteq Owings,
         NEW f, Spoken(d, f, W, V), NEW n, NEW ok \in BOOLEAN,
         f.event = "phx_reply" => Extent(d, n, ok)
  PROVE  LET e == Incoming(d, f, n, ok)
         IN  /\ Steady(e, V) /\ Moves(d, e, {})
             /\ e.capacity = d.capacity /\ e.registered = d.registered
             /\ Len(e.queued) <= Len(d.queued)
             /\ ok => Done(d, e, {}) /\ (OnItsWay(d) => OnItsWay(e))
<1> DEFINE e == Incoming(d, f, n, ok)
           kind == P!EventKind(d.proto, f)
           c == Received(d, f)
           p == P!Receive(d.proto, f)
<1>1. /\ Steady(c, V) /\ Alike(d, c, {"proto"})
      /\ kind \in {"Joined", "JoinError"} =>
           /\ Chan(d.proto).state = "Joining" /\ f.ref = JoinRef(d)
           /\ JoinRef(c) = JoinRef(d)
      /\ kind = "Left" => Chan(d.proto).state # "Joining"
  BY ReceivedSteady
<1>2. c.proto = p
  BY DEF Received, Steady, Drivers
<1>3. /\ kind \in {"Joined", "JoinError", "Left", "Reply", "InvalidReply",
                   "ChannelClosed", "ChannelError", "StaleMessage",
                   "UnmatchedReply"}
      /\ kind = "Joined" => f.event = "phx_reply" /\ Chan(p).state = "Joined"
      /\ kind = "JoinError" => Chan(p).state = "Errored"
      /\ kind = "Left" => Chan(p).state = "Absent"
      /\ kind \in {"Reply", "InvalidReply", "StaleMessage", "UnmatchedReply"} =>
           Chan(p) = Chan(d.proto)
      /\ kind = "Reply" => \A x \in p.pending : x.ref # f.ref
      /\ kind = "ChannelClosed" => Chan(p).state \in {"Absent", "Closed"}
      /\ kind = "ChannelError" => Chan(p).state \in {"Absent", "Errored"}
  <2>1. f.topic = Topic /\ f.event \in {"phx_reply", "phx_close", "phx_error"}
    BY DEF Spoken
  <2>2. d.proto \in P!ProtocolState /\ Tidy(d.proto)
    BY DEF Steady, Drivers
  <2> HIDE DEF p, kind
  <2> QED BY <2>1, <2>2, ReceiveEffect DEF p, kind, P!Absent
<1>4. e = CASE kind = "Joined"        -> JoinAccepted(c, f.ref, n, ok)
            [] kind = "JoinError"     -> JoinRefused(c, f.ref)
            [] kind = "Left"          -> LeaveAnswered(c, f.ref)
            [] kind = "Reply"         -> CallAnswered(c, f.ref)
            [] kind = "ChannelError"  -> ChannelErrored(c)
            [] kind = "ChannelClosed" -> ChannelClosed(c)
            [] OTHER                  -> c
  BY DEF Incoming, Received
<1> HIDE DEF e, kind, c, p
<1>5. Moves(d, c, {})
  <2>1. Alike(d, c, Fields \ Holding)
    BY <1>1 DEF Alike, Fields, Holding
  <2> QED BY <2>1, KeepsAll
<1>6. /\ c.registered = d.registered /\ c.capacity = d.capacity
      /\ c.queued = d.queued /\ c.pending_joins = d.pending_joins
      /\ c.status = d.status /\ c.desired = d.desired
      /\ c.active_payload = d.active_payload /\ c.rejoins = d.rejoins
  BY <1>1, AlikeFields
<1>7. Once(c)
  BY <1>5 DEF Moves
<1>8. d.queued \in Seq(Pushes) /\ Len(d.queued) \in Nat /\ d.capacity \in Nat
  BY DEF Steady, Drivers
<1>9. ASSUME Steady(e, V), Moves(c, e, {}), e.registered = d.registered,
             e.capacity = d.capacity, Len(e.queued) <= Len(d.queued),
             e.pending_joins \subseteq d.pending_joins,
             Clear(d) => Clear(e), OnItsWay(d) => OnItsWay(e), Shown(d) => Shown(e),
             ok => (Buffered(d) => Buffered(e))
      PROVE  /\ Steady(e, V) /\ Moves(d, e, {})
             /\ e.capacity = d.capacity /\ e.registered = d.registered
             /\ Len(e.queued) <= Len(d.queued)
             /\ ok => Done(d, e, {}) /\ (OnItsWay(d) => OnItsWay(e))
  <2>1. Moves(d, e, {})
    BY <1>5, <1>9, MovesThen DEF Steady
  <2> QED BY <1>9, <2>1 DEF Done, Keeps
<1>10. CASE kind = "Joined"
  <2>1. e = JoinAccepted(c, f.ref, n, ok)
    BY <1>4, <1>10
  <2>2. Extent(c, n, ok) /\ Chan(c.proto).state = "Joined"
    BY <1>2, <1>3, <1>6, <1>10 DEF Extent
  <2>3. /\ Steady(e, V) /\ Moves(c, e, {})
        /\ e.capacity = c.capacity /\ e.registered = c.registered
        /\ e.pending_joins = c.pending_joins \ {f.ref}
        /\ Len(e.queued) <= Len(c.queued)
        /\ Chan(e.proto).state \in {"Joined", "Leaving"}
        /\ e.status = Chan(e.proto).state
        /\ ok /\ Chan(e.proto).state = "Joined" => e.queued = <<>>
    BY <1>1, <1>7, <2>1, <2>2, JoinAcceptedEffect
  <2>4. Clear(d) => Clear(e)
    BY <1>1, <1>6, <1>10, <2>3 DEF Clear
  <2>5. OnItsWay(e) /\ Shown(e)
    BY <2>3 DEF OnItsWay, Shown, Active
  <2>6. e.queued \in Seq(Pushes)
    BY <2>3 DEF Steady, Drivers
  <2>7. ok => (Buffered(d) => Buffered(e))
    BY <1>6, <1>8, <2>3, <2>6 DEF Buffered
  <2> QED BY <1>6, <1>9, <2>3, <2>4, <2>5, <2>7 DEF e
<1>11. ASSUME Steady(e, V), Moves(c, e, {}), OnItsWay(e), e.proto = c.proto,
              e.registered = c.registered, e.capacity = c.capacity,
              e.queued \in {c.queued, <<>>},
              e.pending_joins \subseteq c.pending_joins,
              c.registered => e.status # "Joined",
              Chan(p).state # "Joined", Clear(d) => e.pending_joins = {} \/ ~d.registered
       PROVE  /\ Steady(e, V) /\ Moves(d, e, {})
              /\ e.capacity = d.capacity /\ e.registered = d.registered
              /\ Len(e.queued) <= Len(d.queued)
              /\ ok => Done(d, e, {}) /\ (OnItsWay(d) => OnItsWay(e))
  <2>1. Len(e.queued) <= Len(d.queued)
    BY <1>6, <1>8, <1>11, NothingQueued
  <2>2. Clear(d) => Clear(e)
    BY <1>6, <1>11 DEF Clear
  <2>3. Shown(e)
    BY <1>2, <1>11 DEF Shown
  <2>4. e.queued \in Seq(Pushes)
    BY <1>11 DEF Steady, Drivers
  <2>5. Buffered(d) => Buffered(e)
    <3>1. Len(e.queued) \in Nat
      BY <2>4
    <3> QED BY <1>2, <1>6, <1>8, <1>11, <2>1, <3>1 DEF Buffered
  <2> QED BY <1>6, <1>9, <1>11, <2>1, <2>2, <2>3, <2>5
<1>12. CASE kind = "JoinError"
  <2>1. e = JoinRefused(c, f.ref)
    BY <1>4, <1>12
  <2>2. Chan(p).state = "Errored" /\ Chan(c.proto).state # "Joining"
    BY <1>2, <1>3, <1>12
  <2>3. /\ Steady(e, V) /\ Moves(c, e, {}) /\ OnItsWay(e)
        /\ e.proto = c.proto /\ e.registered = c.registered
        /\ e.capacity = c.capacity /\ e.queued = c.queued
        /\ e.pending_joins = c.pending_joins \ {f.ref}
        /\ c.registered => e.status # "Joined"
    BY <1>1, <1>7, <2>1, <2>2, JoinRefusedEffect
  <2>4. Clear(d) => e.pending_joins = {} \/ ~d.registered
    BY <1>1, <1>6, <1>12, <2>3 DEF Clear
  <2> QED BY <1>11, <2>2, <2>3, <2>4 DEF e
<1>13. CASE kind = "Left"
  <2>1. e = LeaveAnswered(c, f.ref)
    BY <1>4, <1>13
  <2>2. Chan(p).state = "Absent" /\ Chan(c.proto).state = "Absent"
    BY <1>2, <1>3, <1>13
  <2>3. /\ Steady(e, V) /\ Moves(c, e, {}) /\ OnItsWay(e)
        /\ e.proto = c.proto /\ e.registered = c.registered
        /\ e.capacity = c.capacity /\ e.queued = c.queued
        /\ e.pending_joins = c.pending_joins
        /\ c.registered => e.status # "Joined"
    BY <1>1, <1>7, <2>1, <2>2, LeaveAnsweredEffect
  <2>4. Clear(d) => e.pending_joins = {} \/ ~d.registered
    BY <1>1, <1>6, <1>13, <2>3 DEF Clear
  <2> QED BY <1>11, <2>2, <2>3, <2>4 DEF e
<1>14. CASE kind = "ChannelError"
  <2>1. e = ChannelErrored(c)
    BY <1>4, <1>14
  <2>2. Chan(p).state # "Joined" /\ Chan(c.proto).state # "Joining"
    BY <1>2, <1>3, <1>14
  <2>3. /\ Steady(e, V) /\ Moves(c, e, {}) /\ OnItsWay(e)
        /\ e.proto = c.proto /\ e.registered = c.registered
        /\ e.capacity = c.capacity /\ e.queued = c.queued
        /\ e.pending_joins = {}
        /\ c.registered => e.status # "Joined"
    BY <1>1, <1>7, <2>1, <2>2, ChannelErroredEffect
  <2> QED BY <1>11, <2>2, <2>3 DEF e
<1>15. CASE kind = "ChannelClosed"
  <2>1. e = ChannelClosed(c)
    BY <1>4, <1>15
  <2>2. Chan(p).state # "Joined" /\ Chan(c.proto).state # "Joining"
    BY <1>2, <1>3, <1>15
  <2>3. /\ Steady(e, V) /\ Moves(c, e, {}) /\ OnItsWay(e)
        /\ e.proto = c.proto /\ e.registered = c.registered
        /\ e.capacity = c.capacity /\ e.queued = <<>>
        /\ e.pending_joins = {}
        /\ c.registered => e.status # "Joined"
    BY <1>1, <1>7, <2>1, <2>2, ChannelClosedEffect
  <2> QED BY <1>11, <2>2, <2>3 DEF e
<1>16. CASE kind \in {"Reply", "InvalidReply", "StaleMessage", "UnmatchedReply"}
  <2>1. /\ Steady(e, V) /\ Moves(c, e, {})
        /\ Alike(c, e, {"pending_calls", "answer"})
    <3>1. CASE kind = "Reply"
      <4>1. e = CallAnswered(c, f.ref) /\ \A x \in c.proto.pending : x.ref # f.ref
        BY <1>2, <1>3, <1>4, <3>1
      <4> QED BY <1>1, <1>7, <4>1, CallAnsweredEffect
    <3>2. CASE kind # "Reply"
      <4>1. e = c
        BY <1>4, <1>16, <3>2
      <4>2. Alike(c, e, {"pending_calls", "answer"}) /\ Alike(c, e, Fields \ Holding)
        BY <4>1 DEF Alike
      <4> QED BY <1>1, <1>7, <4>1, <4>2, KeepsAll
    <3> QED BY <3>1, <3>2
  <2>2. /\ e.registered = d.registered /\ e.capacity = d.capacity
        /\ e.queued = d.queued /\ e.pending_joins = d.pending_joins
        /\ e.status = d.status /\ e.desired = d.desired
        /\ e.active_payload = d.active_payload /\ e.rejoins = d.rejoins
        /\ e.proto = c.proto
    BY <1>6, <2>1, AlikeFields
  <2>3. Chan(e.proto) = Chan(d.proto) /\ JoinRef(e) = JoinRef(d)
    BY <1>2, <1>3, <1>16, <2>2 DEF Chan, JoinRef
  <2>4. /\ Clear(d) => Clear(e)
        /\ OnItsWay(d) => OnItsWay(e)
        /\ Shown(d) => Shown(e)
        /\ Buffered(d) => Buffered(e)
    BY <2>2, <2>3 DEF Clear, OnItsWay, Shown, Buffered
  <2>5. Len(e.queued) <= Len(d.queued)
    BY <1>8, <2>2
  <2> QED BY <1>9, <2>1, <2>2, <2>4, <2>5 DEF e
<1> QED BY <1>3, <1>10, <1>12, <1>13, <1>14, <1>15, <1>16 DEF e

---------------------------------------------------------------------------
(* Lifecycle commands.                                                     *)

(* From d to e request `id` is let go, and no response is given.           *)
Releases(d, e, id) ==
  /\ Once(e) /\ e.answer = d.answer /\ e.sent = d.sent
  /\ \A i \in Ids : Has(e, i) => Has(d, i)
  /\ \A i \in Ids \ {id} : Has(d, i) => Has(e, i)
  /\ Closed(e) \subseteq Closed(d) \cup {id}

(* Nothing is sent, and the channel is as it was or forgotten.             *)
Calm(d, e) ==
  /\ e.wire = d.wire /\ e.proto.next_reference = d.proto.next_reference
  /\ Chan(e.proto) \in {Chan(d.proto), P!Absent}

Released(d, e, id) ==
  /\ Releases(d, e, id) /\ Keeps(d, e) /\ Calm(d, e)
  /\ e.registered = d.registered /\ e.pending_joins \subseteq d.pending_joins
  /\ OnItsWay(d) => OnItsWay(e)

(* The caller of a join is no longer waited for, but the join goes on.     *)
LEMMA WaiterLeaves ==
  ASSUME NEW W, NEW d, Steady(d, W), Once(d), NEW id
  PROVE  LET e == [d EXCEPT !.join_waiters = @ \ {id}]
         IN  /\ Steady(e, W) /\ Released(d, e, id)
             /\ Alike(d, e, {"join_waiters"})
<1> DEFINE e == [d EXCEPT !.join_waiters = @ \ {id}]
<1>1. e \in Drivers
  BY DEF Steady, Drivers
<1>2. Alike(d, e, {"join_waiters"}) /\ e.join_waiters = d.join_waiters \ {id}
  BY DEF Steady, Drivers, Alike, Fields
<1> HIDE DEF e
<1>3. Alike(d, e, Soft)
  BY <1>2 DEF Alike, Soft
<1>4. Timed(e) /\ Unrecorded(e)
  BY <1>2, AlikeFields DEF Steady, Timed, Unrecorded
<1>5. Steady(e, W)
  BY <1>1, <1>3, <1>4, SoftSteady
<1>6. /\ e.queued = d.queued /\ e.deferred_leave = d.deferred_leave
      /\ e.pending_calls = d.pending_calls
      /\ e.pending_leaves = d.pending_leaves
      /\ e.answer = d.answer /\ e.sent = d.sent
  BY <1>2, AlikeFields
<1>7. /\ e.proto = d.proto /\ e.registered = d.registered /\ e.wire = d.wire
      /\ e.capacity = d.capacity /\ e.pending_joins = d.pending_joins
      /\ e.status = d.status /\ e.desired = d.desired
      /\ e.active_payload = d.active_payload /\ e.rejoins = d.rejoins
  BY <1>2, AlikeFields
<1>8. Releases(d, e, id)
  BY <1>2, <1>6 DEF Releases, Has, Once, Closed
<1>9. Keeps(d, e) /\ Calm(d, e) /\ (OnItsWay(d) => OnItsWay(e))
  BY <1>6, <1>7 DEF Keeps, Calm, Buffered, Shown, Clear, OnItsWay, JoinRef
<1> QED BY <1>2, <1>5, <1>7, <1>8, <1>9 DEF Released, e

(* A first join that nobody waits for any more is given up.                *)
LEMMA AbandonedEffect ==
  ASSUME NEW W, NEW d, Steady(d, W), Once(d), d.registered
  PROVE  LET e == AbandonJoin(d)
         IN  /\ Steady(e, W) /\ Moves(d, e, {}) /\ OnItsWay(e)
             /\ Chan(e.proto) = P!Absent
             /\ e.proto.next_reference = d.proto.next_reference
             /\ Alike(d, e, {"desired", "active_payload", "status",
                             "pending_joins", "proto"})
             /\ e.status = "Left" /\ e.pending_joins = {}
<1> DEFINE e == AbandonJoin(d)
           p == P!Discard(d.proto, Topic)
<1>1. /\ p \in P!ProtocolState /\ Chan(p) = P!Absent /\ Tidy(p)
      /\ p.next_reference = d.proto.next_reference /\ p.pending = {}
  BY StateFacts, DiscardEffect
<1>2. "Left" \in Statuses
  BY DEF Statuses
<1> HIDE DEF p
<1>3. e \in Drivers
  BY <1>1, <1>2 DEF AbandonJoin, p, Steady, Drivers
<1>4. /\ Alike(d, e, {"desired", "active_payload", "status", "pending_joins",
                      "proto"})
      /\ e.proto = p /\ e.active_payload = 0 /\ ~e.desired
      /\ e.status = "Left" /\ e.pending_joins = {}
  BY DEF AbandonJoin, p, Steady, Drivers, Alike, Fields
<1> HIDE DEF e
<1>5. /\ e.pending_calls = d.pending_calls /\ e.op_timeouts = d.op_timeouts
      /\ e.pending_leaves = d.pending_leaves /\ e.wire = d.wire
      /\ e.loads = d.loads /\ e.registered = d.registered
      /\ e.rejoin_scheduled = d.rejoin_scheduled /\ e.rejoins = d.rejoins
  <2>1. Alike(d, e, {"desired", "active_payload", "status", "pending_joins",
                     "proto"})
    BY <1>4
  <2> QED BY <2>1 DEF Alike, Fields
<1>6. Chan(e.proto).state = "Absent" /\ JoinRef(e) = 0
  BY <1>1, <1>4 DEF JoinRef, Chan, P!Absent
<1>7. Timed(e)
  BY <1>4, <1>5 DEF Steady, Timed
<1>8. Tracked(e) /\ Watched(e) /\ Unrecorded(e)
  BY <1>1, <1>4, <1>5, <1>6 DEF Tracked, Watched, Unrecorded
<1>9. \A q \in d.wire \cup W : q.kind = "Join" => q.ref # JoinRef(e)
  BY <1>6 DEF Steady, Owing, Sent
<1>10. /\ Tidy(e.proto) /\ e.proto.next_reference = d.proto.next_reference
       /\ e.proto.pending \subseteq d.proto.pending
       /\ e.pending_joins \subseteq d.pending_joins
  BY <1>1, <1>4
<1>11. Steady(e, W)
  BY <1>3, <1>5, <1>6, <1>7, <1>8, <1>9, <1>10, EndSteady
<1>12. Alike(d, e, Fields \ Holding)
  BY <1>4 DEF Alike, Fields, Holding
<1>13. Moves(d, e, {}) /\ OnItsWay(e)
  BY <1>4, <1>12, KeepsAll DEF OnItsWay
<1> QED BY <1>1, <1>4, <1>10, <1>11, <1>13 DEF e

(* cancel, of a join                                                       *)
LEMMA CancelJoinKeeps ==
  ASSUME NEW W, NEW d, Steady(d, W), Once(d), NEW id \in d.join_waiters
  PROVE  LET e == CancelJoin(d, id)
         IN  Steady(e, W) /\ Released(d, e, id)
<1> DEFINE e == CancelJoin(d, id)
           c == [d EXCEPT !.join_waiters = @ \ {id}]
           a == AbandonJoin(c)
<1>1. /\ Steady(c, W) /\ Released(d, c, id) /\ Alike(d, c, {"join_waiters"})
  BY WaiterLeaves
<1>2. d.registered
  BY DEF Steady, Unrecorded
<1>3. e \in {c, a}
  BY DEF CancelJoin
<1> HIDE DEF c
<1>4. c.registered = d.registered /\ c.proto = d.proto /\ c.wire = d.wire
  BY <1>1, AlikeFields
<1>5. CASE e = a
  <2>1. /\ Steady(a, W) /\ Moves(c, a, {}) /\ OnItsWay(a)
        /\ Chan(a.proto) = P!Absent
        /\ a.proto.next_reference = c.proto.next_reference
        /\ Alike(c, a, {"desired", "active_payload", "status",
                        "pending_joins", "proto"})
        /\ a.status = "Left" /\ a.pending_joins = {}
    BY <1>1, <1>2, <1>4, AbandonedEffect DEF Released, Releases
  <2> HIDE DEF a
  <2>2. /\ a.join_waiters = c.join_waiters
        /\ a.queued = c.queued /\ a.deferred_leave = c.deferred_leave
        /\ a.pending_calls = c.pending_calls
        /\ a.pending_leaves = c.pending_leaves
        /\ a.answer = c.answer /\ a.sent = c.sent
        /\ a.wire = c.wire /\ a.registered = c.registered
        /\ a.capacity = c.capacity
    BY <2>1, AlikeFields
  <2>3. \A i : Has(a, i) <=> Has(c, i)
    BY <2>2 DEF Has
  <2>4. Releases(d, a, id)
    <3>1. a.answer = d.answer /\ a.sent = d.sent
      BY <1>1, <2>2 DEF Released, Releases
    <3>2. Closed(a) \subseteq Closed(d) \cup {id}
      BY <1>1, <2>1 DEF Released, Releases, Moves
    <3> QED BY <1>1, <2>1, <2>3, <3>1, <3>2 DEF Released, Releases, Moves
  <2>5. Chan(a.proto).state = "Absent"
    BY <2>1 DEF P!Absent
  <2>6. a.queued = d.queued /\ a.capacity = d.capacity
    BY <1>1, <2>2, AlikeFields
  <2>7. Keeps(d, a)
    BY <2>1, <2>5, <2>6 DEF Keeps, Buffered, Shown, Clear
  <2>8. Calm(d, a)
    BY <1>4, <2>1, <2>2 DEF Calm
  <2>9. Released(d, a, id)
    BY <1>4, <2>1, <2>2, <2>4, <2>7, <2>8 DEF Released
  <2> QED BY <1>5, <2>1, <2>9
<1> QED BY <1>1, <1>3, <1>5

(* Only the tables that hold responses lose an entry: nothing else changes.*)
LEMMA ReleasedAside ==
  ASSUME NEW d, NEW e, NEW id, Releases(d, e, id),
         Alike(d, e, {"deferred_leave", "pending_leaves"})
  PROVE  Released(d, e, id)
<1>1. /\ e.proto = d.proto /\ e.registered = d.registered /\ e.wire = d.wire
      /\ e.capacity = d.capacity /\ e.pending_joins = d.pending_joins
      /\ e.status = d.status /\ e.desired = d.desired /\ e.queued = d.queued
      /\ e.active_payload = d.active_payload /\ e.rejoins = d.rejoins
  BY AlikeFields
<1> QED BY <1>1 DEF Released, Keeps, Calm, Buffered, Shown, Clear, OnItsWay, JoinRef

(* cancel, of a leave that waits for a join                                *)
LEMMA CancelDeferredKeeps ==
  ASSUME NEW W, NEW d, Steady(d, W), Once(d), NEW id, d.deferred_leave.id = id
  PROVE  LET e == [d EXCEPT !.deferred_leave.open = FALSE]
         IN  Steady(e, W) /\ Released(d, e, id)
<1> DEFINE e == [d EXCEPT !.deferred_leave.open = FALSE]
           l == [d.deferred_leave EXCEPT !.open = FALSE]
<1>1. /\ l \in [id : Leaves, open : BOOLEAN] \cup {NoLeave}
      /\ l.id = d.deferred_leave.id /\ ~l.open
      /\ d.deferred_leave = NoLeave => l = NoLeave
  <2>1. d.deferred_leave \in [id : Leaves, open : BOOLEAN] \/ d.deferred_leave = NoLeave
    BY DEF Steady, Drivers
  <2>2. CASE d.deferred_leave = NoLeave
    <3>1. \A x \in [id : {"none"}, open : {FALSE}] : [x EXCEPT !.open = FALSE] = x
      OBVIOUS
    <3>2. NoLeave \in [id : {"none"}, open : {FALSE}]
      BY DEF NoLeave
    <3>3. ~NoLeave.open
      BY DEF NoLeave
    <3>4. l = NoLeave
      BY <2>2, <3>1, <3>2
    <3> QED BY <2>2, <3>3, <3>4
  <2>3. CASE d.deferred_leave \in [id : Leaves, open : BOOLEAN]
    <3>1. /\ l \in [id : Leaves, open : BOOLEAN]
          /\ l.id = d.deferred_leave.id /\ ~l.open
      BY <2>3
    <3> QED BY <2>2, <3>1
  <2> QED BY <2>1, <2>2, <2>3
<1>2. e = [d EXCEPT !.deferred_leave = l]
  OBVIOUS
<1> HIDE DEF l, e
<1>3. e \in Drivers
  BY <1>1, <1>2 DEF Steady, Drivers
<1>4. Alike(d, e, {"deferred_leave"}) /\ e.deferred_leave = l
  BY <1>2 DEF Steady, Drivers, Alike, Fields
<1>5. Alike(d, e, Soft)
  BY <1>4 DEF Alike, Soft
<1>6. Timed(e) /\ Unrecorded(e)
  BY <1>1, <1>4, AlikeFields DEF Steady, Timed, Unrecorded
<1>7. Steady(e, W)
  BY <1>3, <1>5, <1>6, SoftSteady
<1>8. /\ e.queued = d.queued /\ e.join_waiters = d.join_waiters
      /\ e.pending_calls = d.pending_calls
      /\ e.pending_leaves = d.pending_leaves
      /\ e.answer = d.answer /\ e.sent = d.sent
  BY <1>4, AlikeFields
<1>9. Releases(d, e, id)
  <2>1. /\ \A i \in Ids : Has(e, i) => Has(d, i)
        /\ \A i \in Ids \ {id} : Has(d, i) => Has(e, i)
    BY <1>1, <1>4, <1>8 DEF Has
  <2>2. Once(e)
    BY <1>1, <1>4, <1>8, <2>1 DEF Once
  <2>3. Closed(e) \subseteq Closed(d) \cup {id}
    BY <1>1, <1>4, <1>8 DEF Closed
  <2> QED BY <1>8, <2>1, <2>2, <2>3 DEF Releases
<1>10. Alike(d, e, {"deferred_leave", "pending_leaves"})
  BY <1>4 DEF Alike
<1> QED BY <1>7, <1>9, <1>10, ReleasedAside DEF e

(* cancel, of a leave that was sent: only its response is taken.           *)
LEMMA CancelLeaveKeeps ==
  ASSUME NEW W, NEW d, Steady(d, W), Once(d), NEW id
  PROVE  LET e == CancelLeave(d, id)
         IN  Steady(e, W) /\ Released(d, e, id)
<1> DEFINE e == CancelLeave(d, id)
           Left(pending) == IF pending.id = id THEN [pending EXCEPT !.open = FALSE]
                                               ELSE pending
           L == {Left(pending) : pending \in d.pending_leaves}
<1>1. e = [d EXCEPT !.pending_leaves = L]
  BY DEF CancelLeave
<1>2. ASSUME NEW pending \in d.pending_leaves
      PROVE  /\ Left(pending) \in [ref : Nat, id : Leaves, open : BOOLEAN]
             /\ Left(pending).ref = pending.ref /\ Left(pending).id = pending.id
             /\ Left(pending).open <=> pending.open /\ pending.id # id
             /\ pending.id # id => Left(pending) = pending
  BY DEF Steady, Drivers
<1>3. \A x : x \in L <=> \E pending \in d.pending_leaves : x = Left(pending)
  OBVIOUS
<1> HIDE DEF L, e, Left
<1>4. L \subseteq [ref : Nat, id : Leaves, open : BOOLEAN]
  BY <1>2, <1>3
<1>5. e \in Drivers
  BY <1>1, <1>4 DEF Steady, Drivers
<1>6. Alike(d, e, {"pending_leaves"}) /\ e.pending_leaves = L
  BY <1>1 DEF Steady, Drivers, Alike, Fields
<1>7. /\ e.proto = d.proto /\ e.pending_calls = d.pending_calls
      /\ e.pending_joins = d.pending_joins /\ e.wire = d.wire
      /\ e.op_timeouts = d.op_timeouts
      /\ e.loads = d.loads /\ e.active_payload = d.active_payload
      /\ e.rejoin_scheduled = d.rejoin_scheduled /\ e.rejoins = d.rejoins
  BY <1>6, AlikeFields
<1>8. /\ e.queued = d.queued /\ e.join_waiters = d.join_waiters
      /\ e.deferred_leave = d.deferred_leave
      /\ e.answer = d.answer /\ e.sent = d.sent
  BY <1>6, AlikeFields
<1>9. \A x \in L : \E other \in d.pending_leaves : other.ref = x.ref
  BY <1>2, <1>3
<1>10. \A pending \in d.pending_leaves : \E x \in L : x.ref = pending.ref
  BY <1>2, <1>3
<1>11. Timed(e) /\ Tracked(e)
  BY <1>7 DEF Steady, Timed, Tracked
<1>12. Watched(e)
  BY <1>6, <1>7, <1>10 DEF Steady, Watched, JoinRef
<1>13. Unrecorded(e)
  BY <1>6, AlikeFields DEF Steady, Unrecorded
<1>14. \/ Chan(e.proto).state = "Joining"
       \/ \A q \in d.wire \cup W : q.kind = "Join" => q.ref # JoinRef(e)
  BY <1>7 DEF Steady, Owing, Sent, JoinRef
<1>15. /\ Tidy(e.proto) /\ e.proto.next_reference = d.proto.next_reference
       /\ e.proto.pending \subseteq d.proto.pending /\ JoinRef(e) = JoinRef(d)
       /\ Chan(e.proto).state = "Joining" => Chan(d.proto).state = "Joining"
  BY <1>7 DEF Steady, JoinRef
<1>16. Steady(e, W)
  BY <1>5, <1>6, <1>7, <1>9, <1>11, <1>12, <1>13, <1>14, <1>15, EndSteady
<1>17. Releases(d, e, id)
  <2>1. \A x \in L : \E other \in d.pending_leaves :
          /\ other.id = x.id /\ (x.open => x = other) /\ (~x.open => x.id = id \/ x = other)
    BY <1>2, <1>3
  <2>2. \A other \in d.pending_leaves : other.id # id => other \in L
    BY <1>2, <1>3
  <2>3. \A i \in Ids : Has(e, i) => Has(d, i)
    BY <1>6, <1>7, <1>8, <2>1 DEF Has
  <2>4. \A i \in Ids \ {id} : Has(d, i) => Has(e, i)
    BY <1>6, <1>7, <1>8, <2>2 DEF Has
  <2>5. \A x \in L : x.open => x \in d.pending_leaves
    BY <2>1
  <2>6. Once(e)
    BY <1>6, <1>7, <1>8, <2>3, <2>5 DEF Once
  <2>7. Closed(e) \subseteq Closed(d) \cup {id}
    BY <1>6, <1>8, <2>1 DEF Closed
  <2> QED BY <1>8, <2>3, <2>4, <2>6, <2>7 DEF Releases
<1>18. Alike(d, e, {"deferred_leave", "pending_leaves"})
  BY <1>6 DEF Alike
<1> QED BY <1>16, <1>17, <1>18, ReleasedAside DEF e

(* cancel, of a push that waits in the buffer                              *)
LEMMA CancelQueuedKeeps ==
  ASSUME NEW W, NEW d, Steady(d, W), Once(d), NEW k \in DOMAIN d.queued
  PROVE  LET e == [d EXCEPT !.queued = RemoveAt(@, k)]
         IN  Steady(e, W) /\ Released(d, e, d.queued[k])
<1> DEFINE e == [d EXCEPT !.queued = RemoveAt(@, k)]
           s == RemoveAt(d.queued, k)
           id == d.queued[k]
<1>1. d.queued \in Seq(Pushes) /\ Len(d.queued) \in Nat /\ d.capacity \in Nat
  BY DEF Steady, Drivers
<1>2. /\ s \in Seq(Pushes) /\ Len(s) = Len(d.queued) - 1
      /\ ToSet(s) \subseteq ToSet(d.queued)
      /\ ToSet(d.queued) \subseteq ToSet(s) \cup {id}
      /\ IsInjective(s)
  BY <1>1, Removed DEF Once
<1> HIDE DEF s, id
<1>3. e \in Drivers
  BY <1>2 DEF s, Steady, Drivers
<1>4. Alike(d, e, {"queued"}) /\ e.queued = s
  BY DEF s, Steady, Drivers, Alike, Fields
<1> HIDE DEF e
<1>5. Alike(d, e, Soft)
  BY <1>4 DEF Alike, Soft
<1>6. d.registered
  BY <1>1 DEF Steady, Unrecorded
<1>7. Timed(e) /\ Unrecorded(e)
  BY <1>4, <1>6, AlikeFields DEF Steady, Timed, Unrecorded
<1>8. Steady(e, W)
  BY <1>3, <1>5, <1>7, SoftSteady
<1>9. /\ e.join_waiters = d.join_waiters /\ e.deferred_leave = d.deferred_leave
      /\ e.pending_calls = d.pending_calls
      /\ e.pending_leaves = d.pending_leaves
      /\ e.answer = d.answer /\ e.sent = d.sent
  BY <1>4, AlikeFields
<1>10. /\ e.proto = d.proto /\ e.registered = d.registered /\ e.wire = d.wire
       /\ e.capacity = d.capacity /\ e.pending_joins = d.pending_joins
       /\ e.status = d.status /\ e.desired = d.desired
       /\ e.active_payload = d.active_payload /\ e.rejoins = d.rejoins
  BY <1>4, AlikeFields
<1>11. Releases(d, e, id)
  <2>1. \A i \in Ids : Has(e, i) => Has(d, i)
    BY <1>2, <1>4, <1>9 DEF Has
  <2>2. \A i \in Ids \ {id} : Has(d, i) => Has(e, i)
    BY <1>2, <1>4, <1>9 DEF Has
  <2>3. Once(e)
    BY <1>2, <1>4, <1>9, <2>1 DEF Once
  <2>4. Closed(e) \subseteq Closed(d) \cup {id}
    BY <1>9 DEF Closed
  <2> QED BY <1>9, <2>1, <2>2, <2>3, <2>4 DEF Releases
<1>12. Buffered(d) => Buffered(e)
  <2>1. d.queued # <<>>
    BY <1>1
  <2> QED BY <1>1, <1>2, <1>4, <1>10, <2>1 DEF Buffered
<1>13. Keeps(d, e) /\ Calm(d, e) /\ (OnItsWay(d) => OnItsWay(e))
  BY <1>10, <1>12 DEF Keeps, Calm, Shown, Clear, OnItsWay, JoinRef
<1> QED BY <1>8, <1>10, <1>11, <1>13 DEF Released, e, id

(* cancel, of a call whose reply is awaited                                *)
LEMMA CancelCallKeeps ==
  ASSUME NEW W, NEW d, Steady(d, W), Once(d), NEW call \in d.pending_calls
  PROVE  LET e == CancelCall(d, call)
         IN  Steady(e, W) /\ Released(d, e, call.id)
<1> DEFINE e == CancelCall(d, call)
           p == P!Forget(d.proto, "Push", call.ref)
<1>1. /\ p \in P!ProtocolState /\ Tidy(p) /\ Chan(p) = Chan(d.proto)
      /\ p.next_reference = d.proto.next_reference
      /\ \A x \in p.pending :
           x \in d.proto.pending /\ (x.kind = "Push" => x.ref # call.ref)
  BY StateFacts, ForgetEffect
<1> HIDE DEF p
<1>2. e \in Drivers
  BY <1>1 DEF CancelCall, p, Steady, Drivers
<1>3. /\ Alike(d, e, {"pending_calls", "proto"}) /\ e.proto = p
      /\ e.pending_calls = d.pending_calls \ {call}
  BY DEF CancelCall, p, Steady, Drivers, Alike, Fields
<1> HIDE DEF e
<1>4. /\ e.pending_joins = d.pending_joins
      /\ e.pending_leaves = d.pending_leaves /\ e.wire = d.wire
      /\ e.op_timeouts = d.op_timeouts
      /\ e.loads = d.loads /\ e.active_payload = d.active_payload
      /\ e.rejoin_scheduled = d.rejoin_scheduled /\ e.rejoins = d.rejoins
  BY <1>3, AlikeFields
<1>5. /\ e.join_waiters = d.join_waiters /\ e.deferred_leave = d.deferred_leave
      /\ e.queued = d.queued /\ e.registered = d.registered
      /\ e.capacity = d.capacity /\ e.status = d.status
      /\ e.desired = d.desired
      /\ e.answer = d.answer /\ e.sent = d.sent
  BY <1>3, AlikeFields
<1>6. Chan(e.proto) = Chan(d.proto) /\ JoinRef(e) = JoinRef(d)
  BY <1>1, <1>3 DEF JoinRef, Chan
<1>7. Timed(e) /\ Watched(e)
  BY <1>4, <1>6 DEF Steady, Timed, Watched
<1>8. Tracked(e)
  <2>1. SUFFICES ASSUME NEW x \in p.pending, x.kind = "Push"
                 PROVE  \E other \in e.pending_calls : other.ref = x.ref
    BY <1>3 DEF Tracked
  <2>2. PICK other \in d.pending_calls : other.ref = x.ref
    BY <1>1, <2>1 DEF Steady, Tracked
  <2> QED BY <1>1, <1>3, <2>1, <2>2
<1>9. Unrecorded(e)
  <2>1. SUFFICES ASSUME ~d.registered
                 PROVE  Chan(e.proto) = P!Absent /\ e.proto.pending = {}
    BY <1>3, AlikeFields DEF Steady, Unrecorded
  <2> QED BY <1>1, <1>3, <1>6, <2>1 DEF Steady, Unrecorded
<1>10. \/ Chan(e.proto).state = "Joining"
       \/ \A q \in d.wire \cup W : q.kind = "Join" => q.ref # JoinRef(e)
  BY <1>6 DEF Steady, Owing, Sent
<1>11. /\ Tidy(e.proto) /\ e.proto.next_reference = d.proto.next_reference
       /\ e.proto.pending \subseteq d.proto.pending
       /\ e.pending_calls \subseteq d.pending_calls
  BY <1>1, <1>3
<1>12. Steady(e, W)
  BY <1>2, <1>4, <1>6, <1>7, <1>8, <1>9, <1>10, <1>11, EndSteady
<1>13. Releases(d, e, call.id)
  <2>1. \A i \in Ids : Has(e, i) => Has(d, i)
    BY <1>3, <1>4, <1>5 DEF Has
  <2>2. \A i \in Ids \ {call.id} : Has(d, i) => Has(e, i)
    BY <1>3, <1>4, <1>5 DEF Has
  <2>3. Once(e)
    BY <1>3, <1>4, <1>5, <2>1 DEF Once
  <2>4. Closed(e) \subseteq Closed(d) \cup {call.id}
    BY <1>4, <1>5 DEF Closed
  <2> QED BY <1>5, <2>1, <2>2, <2>3, <2>4 DEF Releases
<1>14. Calm(d, e)
  BY <1>4, <1>6, <1>11 DEF Calm
<1>15. Keeps(d, e) /\ (OnItsWay(d) => OnItsWay(e))
  BY <1>4, <1>5, <1>6 DEF Keeps, Buffered, Shown, Clear, OnItsWay
<1> QED BY <1>4, <1>5, <1>12, <1>13, <1>14, <1>15 DEF Released, e

(* cancel                                                                  *)
LEMMA CancelKeeps ==
  ASSUME NEW W, NEW d, Steady(d, W), Once(d), NEW id
  PROVE  LET e == Cancel(d, id)
         IN  Steady(e, W) /\ Released(d, e, id)
<1> DEFINE e == Cancel(d, id)
           calls == {call \in d.pending_calls : call.id = id}
           k == CHOOSE k \in DOMAIN d.queued : d.queued[k] = id
           call == CHOOSE call \in calls : TRUE
           l == [d EXCEPT !.deferred_leave.open = FALSE]
           s == [d EXCEPT !.queued = RemoveAt(@, k)]
<1>1. \/ id \in d.join_waiters /\ e = CancelJoin(d, id)
      \/ d.deferred_leave.id = id /\ e = l
      \/ id \in ToSet(d.queued) /\ e = s
      \/ calls # {} /\ e = CancelCall(d, call)
      \/ e = CancelLeave(d, id)
  BY DEF Cancel
<1>2. CASE id \in d.join_waiters /\ e = CancelJoin(d, id)
  BY <1>2, CancelJoinKeeps
<1>3. CASE d.deferred_leave.id = id /\ e = l
  BY <1>3, CancelDeferredKeeps
<1>4. CASE id \in ToSet(d.queued) /\ e = s
  <2>1. \E j \in DOMAIN d.queued : d.queued[j] = id
    BY <1>4 DEF ToSet, Steady, Drivers
  <2>2. k \in DOMAIN d.queued /\ d.queued[k] = id
    BY <2>1
  <2> HIDE DEF k
  <2>3. Steady(s, W) /\ Released(d, s, d.queued[k])
    BY <2>2, CancelQueuedKeeps
  <2> QED BY <1>4, <2>2, <2>3
<1>5. CASE calls # {} /\ e = CancelCall(d, call)
  <2>1. call \in calls
    BY <1>5
  <2>2. call \in d.pending_calls /\ call.id = id
    BY <2>1
  <2> HIDE DEF call
  <2>3. Steady(CancelCall(d, call), W) /\ Released(d, CancelCall(d, call), call.id)
    BY <2>2, CancelCallKeeps
  <2> QED BY <1>5, <2>2, <2>3
<1>6. CASE e = CancelLeave(d, id)
  BY <1>6, CancelLeaveKeeps
<1> QED BY <1>1, <1>2, <1>3, <1>4, <1>5, <1>6

(* register: the record of a new handle                                    *)
LEMMA RegisterKeeps ==
  ASSUME NEW W, NEW d, Steady(d, W), Once(d)
  PROVE  LET e == Register(d)
         IN  /\ Steady(e, W) /\ Moves(d, e, {})
             /\ Alike(d, e, {"registered"}) /\ e.registered
             /\ Shown(d) => Shown(e)
             /\ OnItsWay(d) => OnItsWay(e)
<1> DEFINE e == Register(d)
<1>1. CASE d.registered
  <2>1. e = d
    BY <1>1 DEF Register
  <2>2. Alike(d, e, {"registered"}) /\ Alike(d, e, Fields \ Holding)
    BY <2>1 DEF Alike
  <2> QED BY <1>1, <2>1, <2>2, KeepsAll
<1>2. CASE ~d.registered
  <2>1. e = [d EXCEPT !.desired = FALSE, !.ever_joined = FALSE, !.active_payload = 0,
                      !.rejoin_scheduled = FALSE, !.join_waiters = {},
                      !.queued = <<>>, !.deferred_leave = NoLeave,
                      !.status = "Closed", !.registered = TRUE]
    BY <1>2 DEF Register, FreshRecord, Steady, Drivers
  <2>2. /\ d.desired = FALSE /\ d.ever_joined = FALSE /\ d.active_payload = 0
        /\ d.rejoin_scheduled = FALSE /\ d.join_waiters = {} /\ d.queued = <<>>
        /\ d.deferred_leave = NoLeave /\ d.status = "Closed"
        /\ Chan(d.proto) = P!Absent
    BY <1>2 DEF Steady, Unrecorded, Drivers
  <2>3. e = [d EXCEPT !.registered = TRUE]
    BY <2>1, <2>2 DEF Steady, Drivers
  <2>4. e \in Drivers
    BY <2>3 DEF Steady, Drivers
  <2>5. Alike(d, e, {"registered"}) /\ e.registered = TRUE
    BY <2>3 DEF Steady, Drivers, Alike, Fields
  <2> HIDE DEF e
  <2>6. Alike(d, e, Soft) /\ Alike(d, e, Fields \ Holding)
    BY <2>5 DEF Alike, Soft, Fields, Holding
  <2>7. Timed(e) /\ Unrecorded(e)
    BY <2>5, AlikeFields DEF Steady, Timed, Unrecorded
  <2>8. Steady(e, W) /\ Moves(d, e, {})
    BY <2>4, <2>6, <2>7, SoftSteady, KeepsAll
  <2>9. e.status = "Closed" /\ e.proto = d.proto /\ e.desired = d.desired
    BY <2>2, <2>5, AlikeFields
  <2>10. Shown(e)
    BY <2>2, <2>9 DEF Shown, P!Absent
  <2>11. OnItsWay(e)
    BY <2>2, <2>9 DEF OnItsWay
  <2> QED BY <2>5, <2>8, <2>10, <2>11 DEF e
<1> QED BY <1>1, <1>2

(* What is left when the record is dropped and the protocol, which was     *)
(* perhaps told to leave, forgets the channel.                             *)
Dropped(s, p, wire) ==
  [s EXCEPT !.registered = FALSE, !.ever_joined = FALSE, !.status = "Closed",
            !.proto = p, !.wire = wire]

(* The record of a channel whose callers were told may be dropped.         *)
LEMMA DroppedFacts ==
  ASSUME NEW s \in Drivers, Once(s), NEW p \in P!ProtocolState,
         NEW wire, wire \subseteq Wires
  PROVE  LET e == Dropped(s, p, wire)
         IN  /\ e \in Drivers /\ Moves(s, e, {})
             /\ Alike(s, e, {"registered", "ever_joined", "status", "proto", "wire"})
             /\ ~e.registered /\ ~e.ever_joined /\ e.status = "Closed"
             /\ e.proto = p /\ e.wire = wire
<1> DEFINE e == Dropped(s, p, wire)
<1>1. "Closed" \in Statuses
  BY DEF Statuses
<1>2. e \in Drivers
  BY <1>1 DEF Dropped, Drivers, Wires
<1>3. /\ Alike(s, e, {"registered", "ever_joined", "status", "proto", "wire"})
      /\ ~e.registered /\ ~e.ever_joined /\ e.status = "Closed"
      /\ e.proto = p /\ e.wire = wire
  BY DEF Dropped, Drivers, Alike, Fields
<1>4. Alike(s, e, Fields \ Holding)
  BY <1>3 DEF Alike, Fields, Holding
<1> QED BY <1>2, <1>3, <1>4, KeepsAll

(* unregister, after the topic was perhaps left                            *)
LEMMA UnregisterDrops ==
  ASSUME NEW W, NEW d, Steady(d, W), NEW p \in P!ProtocolState, NEW wire
  PROVE  Unregister([d EXCEPT !.proto = p, !.wire = wire]) =
           Dropped(StopChannel(d), P!Discard(p, Topic), wire)
<1> DEFINE g == [d EXCEPT !.proto = p, !.wire = wire]
           s == StopChannel(d)
           t == StopChannel(g)
<1>1. Held(g) = Held(d)
  BY DEF Held, Steady, Drivers
<1>2. t = [s EXCEPT !.proto = p, !.wire = wire]
  BY <1>1 DEF StopChannel, Answer, Steady, Drivers
<1>3. /\ s.desired = FALSE /\ s.active_payload = 0 /\ s.rejoin_scheduled = FALSE
      /\ s.deferred_leave = NoLeave /\ s.join_waiters = {} /\ s.queued = <<>>
  BY DEF StopChannel, Answer, Steady, Drivers
<1>4. s \in Drivers
  BY StopEffect DEF Steady
<1> HIDE DEF s, t
<1>5. [FreshRecord(t) EXCEPT !.registered = FALSE, !.proto = P!Discard(@, Topic)] =
        [s EXCEPT !.desired = FALSE, !.ever_joined = FALSE, !.active_payload = 0,
                  !.rejoin_scheduled = FALSE, !.join_waiters = {}, !.queued = <<>>,
                  !.deferred_leave = NoLeave, !.status = "Closed",
                  !.registered = FALSE, !.proto = P!Discard(p, Topic),
                  !.wire = wire]
  BY <1>2, <1>4 DEF FreshRecord, Drivers
<1>6. [s EXCEPT !.desired = FALSE, !.ever_joined = FALSE, !.active_payload = 0,
                !.rejoin_scheduled = FALSE, !.join_waiters = {}, !.queued = <<>>,
                !.deferred_leave = NoLeave, !.status = "Closed",
                !.registered = FALSE, !.proto = P!Discard(p, Topic),
                !.wire = wire] = Dropped(s, P!Discard(p, Topic), wire)
  BY <1>3, <1>4 DEF Dropped, Drivers
<1> QED BY <1>5, <1>6 DEF Unregister, s, t

(* The last handle is gone: nothing is held for the topic any more.        *)
LEMMA UnregisterKeeps ==
  ASSUME NEW W, NEW d, Steady(d, W), Once(d)
  PROVE  LET e == Unregister(d)
         IN  /\ Steady(e, W) /\ Moves(d, e, {}) /\ Calm(d, e)
             /\ ~e.registered /\ e.capacity = d.capacity /\ e.queued = <<>>
             /\ e.pending_joins = d.pending_joins /\ OnItsWay(e)
<1> DEFINE e == Unregister(d)
           s == StopChannel(d)
           p == P!Discard(d.proto, Topic)
<1>1. e = Dropped(s, p, d.wire)
  <2>1. d = [d EXCEPT !.proto = d.proto, !.wire = d.wire]
    BY DEF Steady, Drivers
  <2>2. d.proto \in P!ProtocolState
    BY StateFacts
  <2> QED BY <2>1, <2>2, UnregisterDrops
<1>2. /\ p \in P!ProtocolState /\ Chan(p) = P!Absent /\ Tidy(p)
      /\ p.next_reference = d.proto.next_reference /\ p.pending = {}
  BY StateFacts, DiscardEffect
<1>3. /\ Steady(s, W) /\ Alike(d, s, Stopped)
      /\ ~s.desired /\ s.active_payload = 0 /\ ~s.rejoin_scheduled
      /\ s.deferred_leave = NoLeave /\ s.join_waiters = {} /\ s.queued = <<>>
      /\ Moves(d, s, {})
  BY StopEffect
<1> HIDE DEF s, p, e
<1>4. /\ s.proto = d.proto /\ s.wire = d.wire /\ s.capacity = d.capacity
      /\ s.pending_joins = d.pending_joins
  BY <1>3, AlikeFields DEF Stopped
<1>5. d.wire \subseteq Wires
  BY DEF Steady, Drivers, Wires
<1>6. /\ e \in Drivers /\ Moves(s, e, {})
      /\ Alike(s, e, {"registered", "ever_joined", "status", "proto", "wire"})
      /\ ~e.registered /\ ~e.ever_joined /\ e.status = "Closed"
      /\ e.proto = p /\ e.wire = d.wire
  BY <1>1, <1>2, <1>3, <1>5, DroppedFacts DEF Steady, Moves
<1>7. Alike(s, e, {"registered", "ever_joined", "status", "proto", "wire"})
  BY <1>6
<1>8. /\ e.pending_calls = s.pending_calls /\ e.op_timeouts = s.op_timeouts
      /\ e.pending_leaves = s.pending_leaves /\ e.pending_joins = s.pending_joins
      /\ e.loads = s.loads /\ e.active_payload = s.active_payload
      /\ e.rejoins = s.rejoins /\ e.capacity = s.capacity
  BY <1>7, AlikeFields
<1>9. /\ e.desired = s.desired /\ e.rejoin_scheduled = s.rejoin_scheduled
      /\ e.deferred_leave = s.deferred_leave /\ e.join_waiters = s.join_waiters
      /\ e.queued = s.queued
  BY <1>7, AlikeFields
<1>10. Chan(e.proto).state = "Absent" /\ JoinRef(e) = 0
  BY <1>2, <1>6 DEF JoinRef, Chan, P!Absent
<1>11. Timed(e)
  BY <1>3, <1>8, <1>9 DEF Steady, Timed
<1>12. Tracked(e) /\ Watched(e)
  BY <1>2, <1>6, <1>10 DEF Tracked, Watched
<1>13. Unrecorded(e)
  BY <1>2, <1>3, <1>6, <1>8, <1>9 DEF Unrecorded
<1>14. \A q \in s.wire \cup W : q.kind = "Join" => q.ref # JoinRef(e)
  BY <1>3, <1>10 DEF Steady, Owing, Sent
<1>15. /\ Tidy(e.proto) /\ e.proto.next_reference = s.proto.next_reference
       /\ e.proto.pending \subseteq s.proto.pending
       /\ e.wire = s.wire
  BY <1>2, <1>4, <1>6
<1>16. Steady(e, W)
  <2>1. e \in Drivers /\ Steady(s, W)
    BY <1>3, <1>6
  <2>2. Chan(e.proto).state # "Joining" /\ JoinRef(e) \in {JoinRef(s), 0}
    BY <1>10
  <2> QED BY <1>8, <1>11, <1>12, <1>13, <1>14, <1>15, <2>1, <2>2, EndSteady
<1>17. Moves(d, e, {})
  BY <1>3, <1>6, MovesThen DEF Steady
<1>18. OnItsWay(e) /\ Calm(d, e)
  BY <1>2, <1>3, <1>6, <1>9 DEF OnItsWay, Calm
<1> QED BY <1>3, <1>4, <1>6, <1>8, <1>9, <1>16, <1>17, <1>18 DEF e

(* unregister while the socket is connected: a joined channel is left.     *)
LEMMA LeftAndUnregistered ==
  ASSUME NEW W, NEW d, Steady(d, W), Once(d), Chan(d.proto).state = "Joined"
  PROVE  LET e == ConnectedUnregister(d)
         IN  /\ Steady(e, W) /\ Moves(d, e, {})
             /\ ~e.registered /\ e.capacity = d.capacity /\ e.queued = <<>>
             /\ e.pending_joins = d.pending_joins /\ OnItsWay(e)
<1> DEFINE e == ConnectedUnregister(d)
           s == StopChannel(d)
           l == P!Leave(d.proto, Topic)
           p == P!Discard(l, Topic)
           ref == P!NextRef(d.proto)
           q == [kind |-> "Leave", ref |-> ref, join_ref |-> JoinRef(d)]
           wire == d.wire \cup {q}
<1>1. /\ l \in P!ProtocolState /\ Tidy(l) /\ l.next_reference = ref
      /\ Chan(l).join_ref = JoinRef(d)
  BY StateFacts, LeaveEffect
<1>2. /\ p \in P!ProtocolState /\ Chan(p) = P!Absent /\ Tidy(p)
      /\ p.next_reference = ref /\ p.pending = {}
  BY <1>1, DiscardEffect
<1>3. e = Dropped(s, p, wire)
  <2>1. State(d) = "Joined"
    BY StateFacts
  <2>2. e = Unregister(Send([d EXCEPT !.proto = l], "Leave", ref))
    BY <2>1 DEF ConnectedUnregister
  <2> HIDE DEF l, e
  <2>3. Send([d EXCEPT !.proto = l], "Leave", ref) =
          [d EXCEPT !.proto = l, !.wire = wire]
    BY <1>1 DEF Send, Chan, Steady, Drivers
  <2> QED BY <1>1, <2>2, <2>3, UnregisterDrops
<1>4. /\ Steady(s, W) /\ Alike(d, s, Stopped)
      /\ ~s.desired /\ s.active_payload = 0 /\ ~s.rejoin_scheduled
      /\ s.deferred_leave = NoLeave /\ s.join_waiters = {} /\ s.queued = <<>>
      /\ Moves(d, s, {})
  BY StopEffect
<1>5. d.wire \subseteq Wires /\ q \in Wires
  BY StateFacts DEF Steady, Drivers, Wires
<1> HIDE DEF s, l, p, e
<1>6. /\ s.proto = d.proto /\ s.wire = d.wire /\ s.capacity = d.capacity
      /\ s.pending_joins = d.pending_joins
  BY <1>4, AlikeFields DEF Stopped
<1>7. /\ e \in Drivers /\ Moves(s, e, {})
      /\ Alike(s, e, {"registered", "ever_joined", "status", "proto", "wire"})
      /\ ~e.registered /\ ~e.ever_joined /\ e.status = "Closed"
      /\ e.proto = p /\ e.wire = wire
  BY <1>2, <1>3, <1>4, <1>5, DroppedFacts DEF Steady, Moves
<1>8. Alike(s, e, {"registered", "ever_joined", "status", "proto", "wire"})
  BY <1>7
<1>9. /\ e.pending_calls = s.pending_calls /\ e.op_timeouts = s.op_timeouts
      /\ e.pending_leaves = s.pending_leaves /\ e.pending_joins = s.pending_joins
      /\ e.loads = s.loads /\ e.active_payload = s.active_payload
      /\ e.rejoins = s.rejoins /\ e.capacity = s.capacity
  BY <1>8, AlikeFields
<1>10. /\ e.desired = s.desired /\ e.rejoin_scheduled = s.rejoin_scheduled
       /\ e.deferred_leave = s.deferred_leave /\ e.join_waiters = s.join_waiters
       /\ e.queued = s.queued
  BY <1>8, AlikeFields
<1>11. Chan(e.proto).state = "Absent" /\ JoinRef(e) = 0
  BY <1>2, <1>7 DEF JoinRef, Chan, P!Absent
<1>12. Timed(e)
  BY <1>4, <1>9, <1>10 DEF Steady, Timed
<1>13. Tracked(e) /\ Watched(e)
  BY <1>2, <1>7, <1>11 DEF Tracked, Watched
<1>14. Unrecorded(e)
  BY <1>2, <1>4, <1>7, <1>9, <1>10 DEF Unrecorded
<1>15. Steady(e, W)
  <2>1. e \in Drivers /\ Steady(s, W) /\ Chan(s.proto).state = "Joined"
    BY <1>4, <1>6, <1>7
  <2>2. Chan(e.proto).state # "Joining" /\ JoinRef(e) \in {JoinRef(s), 0}
    BY <1>11
  <2>3. JoinRef(s) = JoinRef(d)
    BY <1>6 DEF JoinRef
  <2>4. /\ e.wire = s.wire \cup {[kind |-> "Leave", ref |-> P!NextRef(s.proto),
                                  join_ref |-> JoinRef(s)]}
        /\ Tidy(e.proto) /\ e.proto.next_reference = P!NextRef(s.proto)
        /\ e.proto.pending = {}
    BY <1>2, <1>6, <1>7, <2>3
  <2> QED BY <1>9, <1>12, <1>13, <1>14, <2>1, <2>2, <2>4, SendSteady
<1>16. Moves(d, e, {})
  BY <1>4, <1>7, MovesThen DEF Steady
<1>17. OnItsWay(e)
  BY <1>4, <1>10 DEF OnItsWay
<1> QED BY <1>4, <1>6, <1>7, <1>9, <1>10, <1>15, <1>16, <1>17 DEF e

(* While connected, a joined channel is left first.                        *)
LEMMA ConnectedUnregisterKeeps ==
  ASSUME NEW W, NEW d, Steady(d, W), Once(d)
  PROVE  LET e == ConnectedUnregister(d)
         IN  /\ Steady(e, W) /\ Moves(d, e, {})
             /\ ~e.registered /\ e.capacity = d.capacity /\ e.queued = <<>>
             /\ e.pending_joins = d.pending_joins /\ OnItsWay(e)
<1>1. CASE Chan(d.proto).state = "Joined"
  BY <1>1, LeftAndUnregistered
<1>2. CASE Chan(d.proto).state # "Joined"
  <2>1. State(d) # "Joined"
    BY <1>2, StateFacts
  <2>2. ConnectedUnregister(d) = Unregister(d)
    BY <2>1 DEF ConnectedUnregister
  <2> QED BY <2>2, UnregisterKeeps
<1> QED BY <1>1, <1>2

---------------------------------------------------------------------------
(* Connections.                                                            *)

(* run_connected begins.                                                   *)
LEMMA ConnectedKeeps ==
  ASSUME NEW W, NEW d, Steady(d, W), Once(d), Chan(d.proto).state \notin Active
  PROVE  LET e == Connected(d)
         IN  /\ Steady(e, W) /\ Done(d, e, {}) /\ OnItsWay(e)
             /\ e.proto = d.proto /\ e.wire = d.wire
<1> DEFINE c == [d EXCEPT !.rejoin_scheduled = FALSE]
           e == Connected(d)
<1>1. c \in Drivers
  BY DEF Steady, Drivers
<1>2. Alike(d, c, {"rejoin_scheduled"}) /\ ~c.rejoin_scheduled
  BY DEF Steady, Drivers, Alike, Fields
<1>3. e = LoadPayload(c)
  BY DEF Connected
<1> HIDE DEF c, e
<1>4. Alike(d, c, Soft) /\ Alike(d, c, Fields \ Holding)
  BY <1>2 DEF Alike, Soft, Fields, Holding
<1>5. Timed(c) /\ Unrecorded(c)
  BY <1>2, AlikeFields DEF Steady, Timed, Unrecorded
<1>6. Steady(c, W) /\ Moves(d, c, {})
  BY <1>1, <1>4, <1>5, SoftSteady, KeepsAll
<1>7. /\ Steady(e, W) /\ Alike(c, e, {"status", "active_payload", "loads"})
      /\ c.desired /\ Chan(c.proto).state \notin Active => e.active_payload # 0
      /\ \/ e = c
         \/ e.status = "WaitingToJoin" /\ Chan(c.proto).state \notin Active
      /\ Moves(c, e, {})
  BY <1>3, <1>6, LoadEffect DEF Moves
<1>8. Moves(d, e, {})
  BY <1>6, <1>7, MovesThen DEF Steady
<1>9. /\ c.proto = d.proto /\ c.registered = d.registered
      /\ c.pending_joins = d.pending_joins /\ c.capacity = d.capacity
      /\ c.queued = d.queued /\ c.status = d.status /\ c.wire = d.wire
  BY <1>2, AlikeFields
<1>10. /\ e.proto = d.proto /\ e.registered = d.registered
       /\ e.pending_joins = d.pending_joins /\ e.capacity = d.capacity
       /\ e.queued = d.queued /\ e.desired = c.desired /\ e.wire = d.wire
  BY <1>7, <1>9, AlikeFields
<1>11. Done(d, e, {})
  BY <1>7, <1>8, <1>9, <1>10
     DEF Done, Keeps, Buffered, Shown, Clear, JoinRef, Active
<1>12. OnItsWay(e)
  BY <1>7, <1>9, <1>10 DEF OnItsWay
<1> QED BY <1>7, <1>10, <1>11, <1>12 DEF e

(* What the connection held is lost: on_disconnect.                        *)
Lost(d) ==
  [d EXCEPT !.proto = P!ResetConnection(@),
            !.pending_joins = {}, !.pending_calls = {}, !.pending_leaves = {},
            !.deferred_leave = NoLeave, !.active_payload = 0,
            !.rejoin_scheduled = FALSE, !.loads = {}, !.rejoins = 0,
            !.op_timeouts = {}]

(* on_disconnect, the tables of the connection: the channel waits for      *)
(* nothing.                                                                *)
LEMMA LostEffect ==
  ASSUME NEW W, NEW d, Steady(d, W), d.wire = {}
  PROVE  LET e == Lost(d)
         IN  /\ Steady(e, {})
             /\ Alike(d, e, {"proto", "pending_joins", "pending_calls",
                             "pending_leaves", "deferred_leave", "active_payload",
                             "rejoin_scheduled", "loads", "rejoins",
                             "op_timeouts"})
             /\ e.pending_joins = {} /\ e.pending_calls = {}
             /\ e.pending_leaves = {} /\ e.deferred_leave = NoLeave
             /\ Chan(e.proto).state \in {"Absent", "Disconnected"}
             /\ e.proto.next_reference = d.proto.next_reference
<1> DEFINE e == Lost(d)
           p == P!ResetConnection(d.proto)
<1>1. /\ p \in P!ProtocolState /\ Tidy(p)
      /\ Chan(p).state = IF Chan(d.proto).state = "Absent" THEN "Absent"
                                                           ELSE "Disconnected"
      /\ Chan(p).join_ref = JoinRef(d)
      /\ p.next_reference = d.proto.next_reference /\ p.pending = {}
  BY StateFacts, ResetEffect
<1> HIDE DEF p
<1>2. e \in Drivers
  BY <1>1 DEF Lost, p, Steady, Drivers
<1>3. /\ Alike(d, e, {"proto", "pending_joins", "pending_calls",
                      "pending_leaves", "deferred_leave", "active_payload",
                      "rejoin_scheduled", "loads", "rejoins", "op_timeouts"})
      /\ e.proto = p /\ e.pending_joins = {} /\ e.pending_calls = {}
      /\ e.pending_leaves = {} /\ e.deferred_leave = NoLeave
      /\ e.active_payload = 0 /\ e.loads = {} /\ e.op_timeouts = {}
      /\ e.rejoin_scheduled = FALSE
  BY DEF Lost, p, Steady, Drivers, Alike, Fields
<1> HIDE DEF e
<1>4. JoinRef(e) = JoinRef(d) /\ Chan(e.proto).state \in {"Absent", "Disconnected"}
  BY <1>1, <1>3 DEF JoinRef, Chan
<1>5. Timed(e)
  BY <1>3, FS_EmptySet DEF Timed
<1>6. Tracked(e) /\ Watched(e)
  BY <1>1, <1>3, <1>4 DEF Tracked, Watched
<1>7. e.wire = {}
  BY <1>3 DEF Alike, Fields
<1>8. Unrecorded(e)
  <2>1. /\ e.registered = d.registered /\ e.desired = d.desired
        /\ e.ever_joined = d.ever_joined /\ e.join_waiters = d.join_waiters
        /\ e.queued = d.queued /\ e.status = d.status
    BY <1>3 DEF Alike, Fields
  <2>2. SUFFICES ASSUME ~d.registered
                 PROVE  Chan(p) = P!Absent
    BY <1>1, <1>3, <2>1 DEF Steady, Unrecorded
  <2>3. Chan(p).state = "Absent"
    BY <1>1, <2>2 DEF Steady, Unrecorded, P!Absent
  <2> QED BY <1>1, <2>3, ProtoFacts
<1>9. Steady(e, {})
  <2>1. /\ Tidy(e.proto) /\ e.proto.next_reference = d.proto.next_reference
        /\ e.proto.pending = {}
    BY <1>1, <1>3
  <2>2. /\ e.pending_joins = {} /\ e.pending_calls = {}
        /\ e.pending_leaves = {} /\ e.op_timeouts = {}
    BY <1>3
  <2>3. Numbered(e)
    BY <1>4, <2>1, <2>2 DEF Steady, Numbered
  <2>4. Owing(e, {})
    BY <1>7 DEF Owing
  <2> QED BY <1>2, <1>5, <1>6, <1>8, <2>1, <2>3, <2>4 DEF Steady
<1>10. e.proto.next_reference = d.proto.next_reference
  BY <1>1, <1>3
<1> QED BY <1>3, <1>4, <1>9, <1>10 DEF e

(* on_disconnect as a whole: what was pending is answered, what was        *)
(* buffered stays buffered.                                                *)
LEMMA DisconnectedKeeps ==
  ASSUME NEW W, NEW d, Steady(d, W), Once(d), d.wire = {}
  PROVE  LET e == Disconnected(d)
         IN  /\ Steady(e, {}) /\ Moves(d, e, {})
             /\ e.wire = {} /\ e.pending_joins = {}
             /\ e.capacity = d.capacity /\ e.registered = d.registered
             /\ e.queued = d.queued
             /\ Chan(e.proto).state \in {"Absent", "Disconnected"}
             /\ e.proto.next_reference = d.proto.next_reference
             /\ d.registered => e.status # "Joined"
<1> DEFINE e == Disconnected(d)
           c == Lost(d)
           S == {call.id : call \in d.pending_calls} \cup OpenLeaves(d)
                  \cup OpenLeave(d.deferred_leave)
           a == Answer(c, S, "interrupted")
           status == IF d.desired THEN "WaitingForSocket" ELSE "Left"
<1>1. e = SetStatus(a, status)
  BY DEF Disconnected, Lost
<1>2. /\ Steady(c, {})
      /\ Alike(d, c, {"proto", "pending_joins", "pending_calls",
                      "pending_leaves", "deferred_leave", "active_payload",
                      "rejoin_scheduled", "loads", "rejoins", "op_timeouts"})
      /\ c.pending_joins = {} /\ c.pending_calls = {}
      /\ c.pending_leaves = {} /\ c.deferred_leave = NoLeave
      /\ Chan(c.proto).state \in {"Absent", "Disconnected"}
      /\ c.proto.next_reference = d.proto.next_reference
  BY LostEffect
<1>3. \A i : i \in S <=>
        \/ \E call \in d.pending_calls : call.id = i
        \/ \E pending \in d.pending_leaves : pending.open /\ pending.id = i
        \/ d.deferred_leave.open /\ d.deferred_leave.id = i
  BY DEF OpenLeaves, OpenLeave
<1>4. status \in Statuses /\ status # "Joined"
  BY DEF Statuses
<1>5. "interrupted" \in Answers \ {"none"}
  BY DEF Answers
<1> HIDE DEF c, S, e, status
<1>6. /\ Steady(a, {}) /\ Alike(c, a, {"answer"})
      /\ a.answer = [i \in Ids |-> IF i \in S THEN "interrupted" ELSE c.answer[i]]
  BY <1>2, <1>5, AnswerEffect
<1> HIDE DEF a
<1>7. /\ c.join_waiters = d.join_waiters /\ c.queued = d.queued
      /\ c.answer = d.answer /\ c.sent = d.sent /\ c.wire = d.wire
      /\ c.capacity = d.capacity /\ c.registered = d.registered
  BY <1>2 DEF Alike, Fields
<1>8. /\ a.join_waiters = d.join_waiters /\ a.queued = d.queued
      /\ a.sent = d.sent /\ a.wire = {}
      /\ a.capacity = d.capacity /\ a.registered = d.registered
      /\ a.pending_calls = {} /\ a.pending_leaves = {}
      /\ a.deferred_leave = NoLeave /\ a.pending_joins = {} /\ a.proto = c.proto
  BY <1>2, <1>6, <1>7 DEF Alike, Fields
<1>9. ASSUME NEW i \in Ids
      PROVE  i \in S <=> Has(d, i) /\ ~Has(a, i)
  <2>1. Has(a, i) <=> i \in d.join_waiters \/ i \in ToSet(d.queued)
    BY <1>8 DEF Has, NoLeave
  <2>2. Has(d, i) <=> Has(a, i) \/ i \in S
    BY <1>3, <2>1 DEF Has
  <2>3. ASSUME i \in S
        PROVE  ~Has(a, i)
    <3>1. CASE \E call \in d.pending_calls : call.id = i
      <4>1. i \in Calls /\ i \notin ToSet(d.queued)
        BY <3>1 DEF Once, Steady, Drivers
      <4>2. i \notin Joins
        BY <4>1, DriverAssumption DEF Pushes
      <4>3. i \notin d.join_waiters
        BY <4>2 DEF Steady, Drivers
      <4> QED BY <2>1, <4>1, <4>3
    <3>2. CASE i \in Leaves
      <4>1. i \notin Joins /\ i \notin Pushes
        BY <3>2, DriverAssumption
      <4>2. i \notin d.join_waiters /\ i \notin ToSet(d.queued)
        BY <4>1, HeldIds DEF Steady, Drivers
      <4> QED BY <2>1, <4>2
    <3>3. CASE d.deferred_leave.open /\ d.deferred_leave.id = i
      <4>1. i \in Leaves
        BY <3>3 DEF Steady, Drivers, NoLeave
      <4> QED BY <3>2, <4>1
    <3>4. CASE \E pending \in d.pending_leaves : pending.open /\ pending.id = i
      <4>1. i \in Leaves
        BY <3>4 DEF Steady, Drivers
      <4> QED BY <3>2, <4>1
    <3> QED BY <1>3, <2>3, <3>1, <3>3, <3>4
  <2> QED BY <2>2, <2>3
<1>10. Moves(d, a, {})
  <2>1. /\ a.join_waiters \subseteq d.join_waiters
        /\ a.pending_calls \subseteq d.pending_calls
        /\ a.pending_leaves \subseteq d.pending_leaves
        /\ a.answer = [i \in Ids |-> IF i \in S THEN "interrupted" ELSE d.answer[i]]
    BY <1>6, <1>7, <1>8
  <2>2. a \in Drivers /\ d \in Drivers
    BY <1>6 DEF Steady
  <2> QED BY <1>5, <1>8, <1>9, <2>1, <2>2, Settles
<1>11. /\ Steady(e, {}) /\ Alike(a, e, {"status"}) /\ Moves(a, e, {})
       /\ e.status = IF a.registered THEN status ELSE a.status
  BY <1>1, <1>4, <1>6, <1>10, SetStatusEffect DEF Moves
<1>12. Moves(d, e, {})
  BY <1>10, <1>11, MovesThen DEF Steady
<1>13. /\ e.queued = d.queued /\ e.wire = {}
       /\ e.capacity = d.capacity /\ e.registered = d.registered
       /\ e.pending_joins = {} /\ e.proto = c.proto
  BY <1>8, <1>11, AlikeFields
<1>14. d.registered => e.status # "Joined"
  BY <1>4, <1>8, <1>11
<1> QED BY <1>2, <1>11, <1>12, <1>13, <1>14 DEF e

(* The frames a handler sent are with the server.                          *)
LEMMA WireTaken ==
  ASSUME NEW W, NEW d, Steady(d, W), Once(d)
  PROVE  LET e == [d EXCEPT !.wire = {}]
         IN  /\ Steady(e, W \cup Owed(d)) /\ Moves(d, e, {})
             /\ Alike(d, e, {"wire"}) /\ e.wire = {}
<1> DEFINE e == [d EXCEPT !.wire = {}]
<1>1. e \in Drivers
  BY DEF Steady, Drivers
<1>2. Alike(d, e, {"wire"}) /\ e.wire = {}
  BY DEF Steady, Drivers, Alike, Fields
<1>3. e.proto = d.proto /\ e.registered = d.registered
  BY <1>2, AlikeFields
<1> HIDE DEF e
<1>4. Numbered(e) /\ Timed(e) /\ Unrecorded(e) /\ Watched(e) /\ Tracked(e)
  <2>1. /\ e.pending_joins = d.pending_joins /\ e.pending_calls = d.pending_calls
        /\ e.pending_leaves = d.pending_leaves /\ e.op_timeouts = d.op_timeouts
        /\ e.loads = d.loads /\ e.active_payload = d.active_payload
        /\ e.rejoin_scheduled = d.rejoin_scheduled /\ e.rejoins = d.rejoins
    BY <1>2, AlikeFields
  <2>2. Numbered(e) /\ Timed(e) /\ Watched(e) /\ Tracked(e)
    BY <1>3, <2>1 DEF Steady, Numbered, Timed, Watched, Tracked, JoinRef
  <2>3. Unrecorded(e)
    BY <1>2, AlikeFields DEF Steady, Unrecorded
  <2> QED BY <2>2, <2>3
<1>5. Owing(e, W \cup Owed(d))
  <2>1. SUFFICES ASSUME NEW q \in W \cup Owed(d), q.kind # "Cast"
                 PROVE  Sent(e, q)
    BY <1>2 DEF Owing
  <2>2. q \in d.wire \cup W
    BY <2>1 DEF Owed
  <2>3. Sent(d, q)
    BY <2>1, <2>2 DEF Steady, Owing
  <2> QED BY <1>3, <2>3 DEF Sent, JoinRef
<1>6. Steady(e, W \cup Owed(d))
  BY <1>1, <1>3, <1>4, <1>5 DEF Steady
<1>7. Alike(d, e, Fields \ Holding)
  BY <1>2 DEF Alike, Fields, Holding
<1> QED BY <1>2, <1>6, <1>7, KeepsAll DEF e

---------------------------------------------------------------------------
(***************************************************************************)
(* The inductive invariant of Driver, in terms of the values it is about.  *)
(***************************************************************************)
Shaped ==
  /\ workload \in Workloads /\ connected \in BOOLEAN /\ live_handle \in BOOLEAN
  /\ commands \in Seq(Ids) /\ lifecycle \in Seq(LifecycleCommands)
  /\ caller \in [Ids -> {"idle", "waiting", "gone"}]
  /\ connections \in 0..MaxConnections /\ handles \in 0..workload.handles

(* The requests the server owes an answer, and the closes it owes.         *)
Ended(closing) == {[kind |-> "Left", ref |-> 0, join_ref |-> g] : g \in closing}

Owes(owed, closing) == owed \cup Ended(closing)

(* The driver between two handlers: it has sent what there was to send, and*)
(* waits for nothing of the server while it is offline.                    *)
Rested(d, w, conn, W) ==
  /\ Steady(d, W) /\ Once(d) /\ Buffered(d)
  /\ d.wire = {} /\ d.capacity = w.capacity
  /\ d.proto.next_reference <= w.references
  /\ conn \/ Chan(d.proto).state \notin Active

Asks == [kind : {"Join", "Leave", "Push"}, ref : Nat, join_ref : Nat]

Served(w, owed, speaking, closing) ==
  /\ owed \subseteq Asks
  /\ speaking \cup closing \subseteq 1..w.references

(* A request is queued once, before the driver knows of it; it is known as *)
(* long as a caller waits for its answer; only a caller that is gone closes*)
(* its response.                                                           *)
Accounted(d, cs, ls, who) ==
  /\ IsInjective(cs)
  /\ \A id \in ToSet(cs) : New(d, id) /\ who[id] # "idle"
  /\ \A id \in Ids : who[id] = "idle" => New(d, id)
  /\ \A id \in Ids : who[id] = "waiting" /\ d.answer[id] = "none" =>
       Has(d, id) \/ id \in ToSet(cs)
  /\ \A c \in ToSet(ls) : c.kind = "Cancel" => who[c.id] = "gone"
  /\ \A id \in Closed(d) : who[id] = "gone"

RegisterCommand == [kind |-> "Register"]

UnregisterCommand == [kind |-> "Unregister"]

(* What the application sees through its handle, unless it dropped it.     *)
Visible(d, ls, conn) ==
  UnregisterCommand \notin ToSet(ls) => Shown(d) /\ (conn => OnItsWay(d))

(* A leave failed, or its caller is gone.                                  *)
Given(d, who) == \E id \in Leaves : who[id] = "gone" \/ d.answer[id] = "failed"

(* Under the first handle of the topic no other join is pending than the   *)
(* one the channel waits for.                                              *)
FirstHandle(d, ls, n, who) ==
  /\ n <= 1 =>
       /\ \A j, k \in DOMAIN ls :
            ls[j] = RegisterCommand /\ ls[k] = RegisterCommand => j = k
       /\ n = 0 \/ RegisterCommand \in ToSet(ls) =>
            ~d.registered /\ d.pending_joins = {}
       /\ n = 0 => RegisterCommand \notin ToSet(ls)
       /\ Clear(d) \/ Given(d, who)

(* All of it but the types of the application's state.                     *)
Core(d, w, conn, owed, speaking, closing, cs, ls, who, n) ==
  /\ Rested(d, w, conn, Owes(owed, closing))
  /\ Served(w, owed, speaking, closing)
  /\ Accounted(d, cs, ls, who)
  /\ Visible(d, ls, conn)
  /\ FirstHandle(d, ls, n, who)

Inv ==
  /\ Shaped
  /\ Core(driver, workload, connected, unanswered, live, ending, commands, lifecycle,
          caller, handles)

---------------------------------------------------------------------------
(* From one rest of the driver to the next.                                *)

(* What a handler may do to the requests: those in S are new, the callers  *)
(* of those in C are gone.                                                 *)
Advance(d, e, S, C) ==
  /\ \A i \in Ids :
       /\ Has(e, i) => Has(d, i) \/ i \in S
       /\ (Has(d, i) \/ i \in S) /\ i \notin C => Has(e, i) \/ e.answer[i] # "none"
       /\ ~Has(d, i) /\ i \notin S => e.answer[i] = d.answer[i]
       /\ i \in ToSet(e.sent) => i \in ToSet(d.sent) \/ Has(d, i) \/ i \in S
  /\ Closed(e) \subseteq Closed(d) \cup C

(* A move is an advance without a caller let go.                           *)
LEMMA AdvanceMoves ==
  ASSUME NEW d, NEW e, NEW S, Once(d), Moves(d, e, S)
  PROVE  Advance(d, e, S, {})
BY DEF Advance, Moves, Takes

(* Letting a caller go is an advance.                                      *)
LEMMA AdvanceReleases ==
  ASSUME NEW d, NEW e, NEW id, Releases(d, e, id)
  PROVE  Advance(d, e, {}, {id})
BY DEF Advance, Releases

(* An advance goes on with a move that brings no request.                  *)
LEMMA AdvanceThen ==
  ASSUME NEW d, NEW e, NEW g, NEW S, NEW C, Advance(d, e, S, C), Once(e),
         Moves(e, g, {})
  PROVE  Advance(d, g, S, C)
<1>1. ASSUME NEW i \in Ids
      PROVE  /\ Has(g, i) => Has(d, i) \/ i \in S
             /\ (Has(d, i) \/ i \in S) /\ i \notin C => Has(g, i) \/ g.answer[i] # "none"
             /\ ~Has(d, i) /\ i \notin S => g.answer[i] = d.answer[i]
             /\ i \in ToSet(g.sent) => i \in ToSet(d.sent) \/ Has(d, i) \/ i \in S
  <2>1. IF Has(e, i) THEN Has(g, i) <=> g.answer[i] = "none"
                     ELSE ~Has(g, i) /\ g.answer[i] = e.answer[i]
    BY DEF Moves, Takes
  <2>2. i \in ToSet(g.sent) => i \in ToSet(e.sent) \/ Has(e, i)
    BY DEF Moves, Takes
  <2>3. /\ Has(e, i) => Has(d, i) \/ i \in S
        /\ (Has(d, i) \/ i \in S) /\ i \notin C => Has(e, i) \/ e.answer[i] # "none"
        /\ ~Has(d, i) /\ i \notin S => e.answer[i] = d.answer[i]
        /\ i \in ToSet(e.sent) => i \in ToSet(d.sent) \/ Has(d, i) \/ i \in S
    BY DEF Advance
  <2> QED BY <2>1, <2>2, <2>3
<1>2. Closed(g) \subseteq Closed(d) \cup C
  BY DEF Advance, Moves
<1> QED BY <1>1, <1>2 DEF Advance

(* The requests stay accounted for.                                        *)
LEMMA AccountedThen ==
  ASSUME NEW d, NEW e, NEW S, NEW C, Once(d), Advance(d, e, S, C),
         NEW cs, NEW rest, NEW ls, NEW later, NEW who, Accounted(d, cs, ls, who),
         ToSet(rest) \cup S = ToSet(cs), ToSet(rest) \cap S = {},
         IsInjective(rest), ToSet(later) \subseteq ToSet(ls),
         \A i \in C : who[i] = "gone"
  PROVE  Accounted(e, rest, later, who)
<1>1. ASSUME NEW id \in Ids, New(d, id), id \notin S
      PROVE  New(e, id)
  BY <1>1 DEF Advance, New
<1>2. \A id \in ToSet(cs) : New(d, id) /\ id \in Ids /\ who[id] # "idle"
  BY DEF Accounted, New
<1>3. \A id \in ToSet(rest) : New(e, id) /\ who[id] # "idle"
  BY <1>1, <1>2
<1>4. \A id \in Ids : who[id] = "idle" => New(e, id)
  BY <1>1, <1>2 DEF Accounted
<1>5. ASSUME NEW id \in Ids, who[id] = "waiting", e.answer[id] = "none"
      PROVE  Has(e, id) \/ id \in ToSet(rest)
  <2>1. id \notin C
    BY <1>5
  <2>2. CASE Has(d, id) \/ id \in S
    BY <1>5, <2>1, <2>2 DEF Advance
  <2>3. CASE ~Has(d, id) /\ id \notin S
    <3>1. d.answer[id] = "none"
      BY <1>5, <2>3 DEF Advance
    <3> QED BY <1>5, <2>3, <3>1 DEF Accounted
  <2> QED BY <2>2, <2>3
<1>6. \A c \in ToSet(later) : c.kind = "Cancel" => who[c.id] = "gone"
  BY DEF Accounted
<1>7. \A id \in Closed(e) : who[id] = "gone"
  BY DEF Accounted, Advance
<1> QED BY <1>3, <1>4, <1>5, <1>6, <1>7 DEF Accounted

(* The record and the joins that are pending.                              *)
Follows(d, e) ==
  /\ e.registered = d.registered
  /\ ~d.registered => e.pending_joins \subseteq d.pending_joins
  /\ Clear(d) => \/ Clear(e)
                 \/ Closed(d) # {}
                 \/ \E i \in Leaves : e.answer[i] = "failed"

(* A failed leave remains one.                                             *)
LEMMA GivenStays ==
  ASSUME NEW d, NEW e, NEW S, NEW C, Once(d), Advance(d, e, S, C),
         \A i \in S : New(d, i), NEW who, Given(d, who)
  PROVE  Given(e, who)
<1>1. PICK id \in Leaves : who[id] = "gone" \/ d.answer[id] = "failed"
  BY DEF Given
<1>2. CASE d.answer[id] = "failed"
  <2>1. id \in Ids
    BY DEF Ids
  <2>2. ~Has(d, id) /\ id \notin S
    BY <1>2, <2>1 DEF Once, New
  <2> QED BY <1>2, <2>1, <2>2 DEF Advance, Given
<1> QED BY <1>1, <1>2 DEF Given

(* What is known under the first handle of a topic outlives a handler.     *)
LEMMA FirstHandleThen ==
  ASSUME NEW d, NEW e, NEW S, NEW C, Once(d), Advance(d, e, S, C), Follows(d, e),
         \A i \in S : New(d, i),
         NEW ls, NEW later, NEW n, NEW who, FirstHandle(d, ls, n, who),
         \A i \in Closed(d) : who[i] = "gone",
         \A j, k \in DOMAIN later :
           n <= 1 /\ later[j] = RegisterCommand /\ later[k] = RegisterCommand => j = k,
         ToSet(later) \subseteq ToSet(ls)
  PROVE  FirstHandle(e, later, n, who)
<1> SUFFICES ASSUME n <= 1
             PROVE  /\ n = 0 \/ RegisterCommand \in ToSet(later) =>
                         ~e.registered /\ e.pending_joins = {}
                    /\ n = 0 => RegisterCommand \notin ToSet(later)
                    /\ Clear(e) \/ Given(e, who)
  BY DEF FirstHandle
<1>1. n = 0 \/ RegisterCommand \in ToSet(later) =>
        ~e.registered /\ e.pending_joins = {}
  BY DEF FirstHandle, Follows
<1>2. n = 0 => RegisterCommand \notin ToSet(later)
  BY DEF FirstHandle
<1>3. Clear(e) \/ Given(e, who)
  <2>1. CASE Given(d, who)
    BY <2>1, GivenStays
  <2>2. CASE Clear(d)
    BY <2>2 DEF Follows, Given, Closed
  <2> QED BY <2>1, <2>2 DEF FirstHandle
<1> QED BY <1>1, <1>2, <1>3

NoJoins(d) == d.pending_joins = {}

(* The frames of a handler reach the server, or the connection is over.    *)
Landed(e, ok) == IF ok THEN [e EXCEPT !.wire = {}]
                       ELSE Disconnected([e EXCEPT !.wire = {}])

(* What the server is then left with.                                      *)
Remains(has, ok) == IF ok THEN has ELSE {}

WithSent(has, e, ok) == Remains(has \cup Owed(e), ok)

(* A handler that has sent its frames, or lost the connection on them,     *)
(* leaves the driver at rest.                                              *)
LEMMA Lands ==
  ASSUME NEW V, NEW w, NEW e, Steady(e, V), Once(e), NEW ok \in BOOLEAN,
         e.capacity = w.capacity, e.proto.next_reference <= w.references,
         Len(e.queued) <= e.capacity, ok => Buffered(e)
  PROVE  LET g == Landed(e, ok)
         IN  /\ Rested(g, w, ok, WithSent(V, e, ok))
             /\ Moves(e, g, {}) /\ g.registered = e.registered
             /\ ok => Alike(e, g, {"wire"})
             /\ ~ok => NoJoins(g) /\ Shown(g)
<1> DEFINE c == [e EXCEPT !.wire = {}]
           h == Disconnected(c)
<1>1. Steady(c, V \cup Owed(e)) /\ Moves(e, c, {}) /\ Alike(e, c, {"wire"}) /\ c.wire = {}
  BY WireTaken
<1>2. Landed(e, ok) = IF ok THEN c ELSE h
  BY DEF Landed
<1> HIDE DEF c
<1>3. /\ c.capacity = e.capacity /\ c.proto = e.proto /\ c.queued = e.queued
      /\ c.registered = e.registered
  BY <1>1, AlikeFields
<1>4. CASE ok
  <2>1. Buffered(c)
    BY <1>3, <1>4 DEF Buffered
  <2> QED BY <1>1, <1>2, <1>3, <1>4, <2>1 DEF Rested, Moves, Remains, WithSent
<1>5. CASE ~ok
  <2>1. Once(c)
    BY <1>1 DEF Moves
  <2>2. /\ Steady(h, {}) /\ Moves(c, h, {})
        /\ h.wire = {} /\ h.pending_joins = {}
        /\ h.capacity = c.capacity /\ h.registered = c.registered
        /\ h.queued = c.queued
        /\ Chan(h.proto).state \in {"Absent", "Disconnected"}
        /\ h.proto.next_reference = c.proto.next_reference
        /\ c.registered => h.status # "Joined"
    BY <1>1, <2>1, DisconnectedKeeps
  <2> HIDE DEF h
  <2>3. Moves(e, h, {})
    BY <1>1, <2>2, MovesThen DEF Steady
  <2>4. Buffered(h) /\ Shown(h)
    BY <1>3, <2>2 DEF Buffered, Shown
  <2>5. Rested(h, w, ok, {})
    BY <1>3, <2>2, <2>4 DEF Rested, Moves, Active
  <2> QED BY <1>2, <1>3, <1>5, <2>2, <2>3, <2>4, <2>5 DEF NoJoins, Remains, WithSent
<1> QED BY <1>4, <1>5

(* All that a handler does between two rests, to the requests S it was     *)
(* given and the callers C it let go.                                      *)
Onward(d, g, S, C, ok) ==
  /\ Advance(d, g, S, C) /\ Follows(d, g)
  /\ Shown(d) => Shown(g)
  /\ ok => (OnItsWay(d) => OnItsWay(g))

(* And what it kept until then it keeps.                                   *)
LEMMA LandsOnward ==
  ASSUME NEW d, NEW e, NEW g, NEW S, NEW C, NEW ok \in BOOLEAN,
         Advance(d, e, S, C), Once(e), Moves(e, g, {}), e.registered = d.registered,
         g.registered = e.registered,
         ok => /\ Follows(d, e) /\ (Shown(d) => Shown(e))
               /\ (OnItsWay(d) => OnItsWay(e))
               /\ Alike(e, g, {"wire"}),
         ~ok => NoJoins(g) /\ Shown(g)
  PROVE  Onward(d, g, S, C, ok)
<1>1. Advance(d, g, S, C)
  BY AdvanceThen
<1>2. CASE ok
  <2>1. /\ g.registered = e.registered /\ g.pending_joins = e.pending_joins
        /\ g.proto = e.proto /\ g.answer = e.answer /\ g.status = e.status
        /\ g.desired = e.desired /\ g.active_payload = e.active_payload
        /\ g.rejoins = e.rejoins
    BY <1>2, AlikeFields
  <2>2. Follows(d, g)
    BY <1>2, <2>1 DEF Follows, Clear, JoinRef
  <2>3. Shown(d) => Shown(g)
    BY <1>2, <2>1 DEF Shown
  <2>4. OnItsWay(d) => OnItsWay(g)
    BY <1>2, <2>1 DEF OnItsWay
  <2> QED BY <1>1, <2>2, <2>3, <2>4 DEF Onward
<1>3. CASE ~ok
  BY <1>1, <1>3 DEF Onward, Follows, Clear, NoJoins
<1> QED BY <1>2, <1>3

(* What is done follows.                                                   *)
LEMMA DoneFollows ==
  ASSUME NEW d, NEW e, NEW S, Done(d, e, S)
  PROVE  Follows(d, e) /\ (Shown(d) => Shown(e)) /\ e.capacity = d.capacity
         /\ (Buffered(d) => Buffered(e)) /\ Moves(d, e, S) /\ Once(e)
         /\ e.registered = d.registered
BY DEF Done, Keeps, Follows, Moves

(* The queues: commands S are taken, and any lifecycle command but an      *)
(* Unregister.                                                             *)
Taken(cs, rest, S, ls, later, n) ==
  /\ ToSet(rest) \cup S = ToSet(cs) /\ ToSet(rest) \cap S = {}
  /\ IsInjective(rest) /\ ToSet(later) \subseteq ToSet(ls)
  /\ UnregisterCommand \in ToSet(ls) => UnregisterCommand \in ToSet(later)
  /\ \A j, k \in DOMAIN later :
       n <= 1 /\ later[j] = RegisterCommand /\ later[k] = RegisterCommand => j = k

Gone(who, C) == \A i \in C : who[i] = "gone"

(* What that means for the application.                                    *)
LEMMA OnwardKeeps ==
  ASSUME NEW d, NEW g, NEW S, NEW C, NEW ok, Once(d), Onward(d, g, S, C, ok),
         NEW cs, NEW rest, NEW ls, NEW later, NEW who, NEW n, NEW conn,
         Accounted(d, cs, ls, who), Visible(d, ls, conn), FirstHandle(d, ls, n, who),
         Taken(cs, rest, S, ls, later, n),
         Gone(who, C),
         ok => conn
  PROVE  /\ Accounted(g, rest, later, who) /\ Visible(g, later, ok)
         /\ FirstHandle(g, later, n, who)
<1>1. Advance(d, g, S, C) /\ Follows(d, g)
  BY DEF Onward
<1>2. Accounted(g, rest, later, who)
  BY <1>1, AccountedThen DEF Taken, Gone
<1>3. Visible(g, later, ok)
  BY DEF Visible, Onward, Taken
<1>4. FirstHandle(g, later, n, who)
  <2>1. \A i \in S : New(d, i)
    BY DEF Accounted, Taken
  <2>2. \A i \in Closed(d) : who[i] = "gone"
    BY DEF Accounted, Taken
  <2> QED BY <1>1, <2>1, <2>2, FirstHandleThen DEF Taken
<1> QED BY <1>2, <1>3, <1>4

(* The server owes no more than W.                                         *)
LEMMA SteadyLess ==
  ASSUME NEW d, NEW W, NEW V, V \subseteq W, Steady(d, W)
  PROVE  Steady(d, V)
BY DEF Steady, Owing

(* What a handler leaves to be sent, if only so many references are used.  *)
Ready(d, e, w, S, C, ok) ==
  /\ Once(e) /\ e.proto.next_reference <= w.references
  /\ e.capacity = w.capacity /\ Len(e.queued) <= e.capacity
  /\ Advance(d, e, S, C) /\ e.registered = d.registered
  /\ ok => /\ Buffered(e) /\ Follows(d, e)
           /\ (Shown(d) => Shown(e))
           /\ (OnItsWay(d) => OnItsWay(e))

(* What the server holds of what it held.                                  *)
Allowed(w, V, owed, speaking, closing) ==
  /\ Owes(owed, closing) \subseteq V /\ owed \subseteq Asks
  /\ speaking \cup closing \subseteq 1..w.references

(* It lands on a server that owed V; `owed`, `speaking` and `closing` are  *)
(* what the server holds without the frames that were sent.                *)
LEMMA HandlerLands ==
  ASSUME NEW w, NEW e, NEW V, NEW ok \in BOOLEAN, NEW owed, NEW speaking, NEW closing,
         Steady(e, V), Allowed(w, V, owed, speaking, closing),
         Once(e), e.capacity = w.capacity, e.proto.next_reference <= w.references,
         Len(e.queued) <= e.capacity, ok => Buffered(e)
  PROVE  LET g == Landed(e, ok)
         IN  /\ Rested(g, w, ok, Owes(WithSent(owed, e, ok), Remains(closing, ok)))
             /\ Served(w, WithSent(owed, e, ok), Remains(speaking, ok),
                       Remains(closing, ok))
             /\ Moves(e, g, {}) /\ g.registered = e.registered
             /\ ok => Alike(e, g, {"wire"})
             /\ ~ok => NoJoins(g) /\ Shown(g)
<1> DEFINE g == Landed(e, ok)
           has == WithSent(owed, e, ok)
           says == Remains(speaking, ok)
           ends == Remains(closing, ok)
<1>1. /\ Rested(g, w, ok, WithSent(V, e, ok))
      /\ Moves(e, g, {}) /\ g.registered = e.registered
      /\ ok => Alike(e, g, {"wire"})
      /\ ~ok => NoJoins(g) /\ Shown(g)
  BY Lands
<1> HIDE DEF g
<1>2. Rested(g, w, ok, Owes(has, ends))
  <2>1. Owes(has, ends) \subseteq WithSent(V, e, ok)
    BY DEF Owes, Ended, Remains, WithSent, Allowed
  <2> HIDE DEF has, ends
  <2> QED BY <1>1, <2>1, SteadyLess DEF Rested
<1>3. Served(w, has, says, ends)
  <2>1. Owed(e) \subseteq Asks
    BY DEF Owed, Asks, Steady, Drivers
  <2> QED BY <2>1 DEF Served, Remains, WithSent, Allowed
<1> HIDE DEF has, says, ends
<1> QED BY <1>1, <1>2, <1>3 DEF g, has, says, ends

(* A handler on a connection that is left in state e, having given the     *)
(* requests S their due.                                                   *)
LEMMA HandlerKeeps ==
  ASSUME NEW d, NEW w, NEW cs, NEW ls, NEW who, NEW n,
         NEW before, NEW spoke, NEW closed,
         Core(d, w, TRUE, before, spoke, closed, cs, ls, who, n),
         NEW e, NEW V, NEW ok \in BOOLEAN, NEW owed, NEW speaking, NEW closing,
         Steady(e, V), Allowed(w, V, owed, speaking, closing),
         NEW S, NEW C, Ready(d, e, w, S, C, ok),
         NEW rest, NEW later,
         Taken(cs, rest, S, ls, later, n),
         Gone(who, C)
  PROVE  Core(Landed(e, ok), w, ok, WithSent(owed, e, ok),
              Remains(speaking, ok), Remains(closing, ok),
              rest, later, who, n)
<1> DEFINE g == Landed(e, ok)
<1>1. /\ Rested(g, w, ok, Owes(WithSent(owed, e, ok), Remains(closing, ok)))
      /\ Served(w, WithSent(owed, e, ok), Remains(speaking, ok), Remains(closing, ok))
      /\ Moves(e, g, {}) /\ g.registered = e.registered
      /\ ok => Alike(e, g, {"wire"})
      /\ ~ok => NoJoins(g) /\ Shown(g)
  BY HandlerLands DEF Ready
<1> HIDE DEF g
<1>2. Onward(d, g, S, C, ok)
  <2>1. /\ Advance(d, e, S, C) /\ Once(e) /\ e.registered = d.registered
        /\ ok => /\ Follows(d, e) /\ (Shown(d) => Shown(e))
                 /\ (OnItsWay(d) => OnItsWay(e))
    BY DEF Ready
  <2> QED BY <1>1, <2>1, LandsOnward
<1>3. Once(d)
  BY DEF Core, Rested
<1>4. Accounted(g, rest, later, who) /\ Visible(g, later, ok)
      /\ FirstHandle(g, later, n, who)
  <2>1. Accounted(d, cs, ls, who) /\ Visible(d, ls, TRUE) /\ FirstHandle(d, ls, n, who)
    BY DEF Core
  <2> QED BY <1>2, <1>3, <2>1, OnwardKeeps
<1> QED BY <1>1, <1>4 DEF Core, g

(* Between two rests without a frame sent.                                 *)
LEMMA RestKeeps ==
  ASSUME NEW d, NEW w, NEW conn, NEW cs, NEW ls, NEW who, NEW n,
         NEW before, NEW spoke, NEW closed,
         Core(d, w, conn, before, spoke, closed, cs, ls, who, n),
         NEW e, NEW ok, NEW owed, NEW speaking, NEW closing,
         Rested(e, w, ok, Owes(owed, closing)), Served(w, owed, speaking, closing),
         NEW S, NEW C, Onward(d, e, S, C, ok), ok => conn,
         NEW rest, NEW later,
         Taken(cs, rest, S, ls, later, n),
         Gone(who, C)
  PROVE  Core(e, w, ok, owed, speaking, closing, rest, later, who, n)
<1>1. /\ Accounted(d, cs, ls, who) /\ Visible(d, ls, conn)
      /\ FirstHandle(d, ls, n, who) /\ Once(d)
  BY DEF Core, Rested
<1>2. Accounted(e, rest, later, who) /\ Visible(e, later, ok)
      /\ FirstHandle(e, later, n, who)
  BY <1>1, OnwardKeeps
<1> QED BY <1>2 DEF Core

(* The queues: a command is taken, or one is added that is no Register.    *)
LEMMA TailOnce ==
  ASSUME NEW S, NEW ls \in Seq(S), ls # <<>>, NEW c,
         \A j, k \in DOMAIN ls : ls[j] = c /\ ls[k] = c => j = k
  PROVE  /\ \A j, k \in DOMAIN Tail(ls) : Tail(ls)[j] = c /\ Tail(ls)[k] = c => j = k
         /\ Head(ls) = c => c \notin ToSet(Tail(ls))
<1> DEFINE t == Tail(ls)
<1>1. /\ Len(ls) \in Nat \ {0} /\ DOMAIN ls = 1..Len(ls)
      /\ DOMAIN t = 1..(Len(ls) - 1) /\ Head(ls) = ls[1]
      /\ \A i \in 1..(Len(ls) - 1) : t[i] = ls[i + 1]
  OBVIOUS
<1> HIDE DEF t
<1>2. /\ \A i \in DOMAIN t : i \in Nat /\ i + 1 \in DOMAIN ls /\ t[i] = ls[i + 1]
                             /\ i + 1 # 1
      /\ 1 \in DOMAIN ls
  BY <1>1
<1>3. ASSUME NEW j \in DOMAIN t, NEW k \in DOMAIN t, t[j] = c, t[k] = c
      PROVE  j = k
  <2>1. j + 1 = k + 1
    BY <1>2, <1>3
  <2> QED BY <1>2, <2>1
<1>4. ASSUME NEW j \in DOMAIN t, t[j] = c, Head(ls) = c
      PROVE  FALSE
  BY <1>1, <1>2, <1>4
<1> QED BY <1>3, <1>4 DEF t, ToSet

(* A command that is queued once stays so when another one is queued.      *)
LEMMA AppendOnce ==
  ASSUME NEW S, NEW ls \in Seq(S), NEW x \in S, NEW c,
         c \notin ToSet(ls) \/ x # c,
         \A j, k \in DOMAIN ls : ls[j] = c /\ ls[k] = c => j = k
  PROVE  \A j, k \in DOMAIN Append(ls, x) :
           Append(ls, x)[j] = c /\ Append(ls, x)[k] = c => j = k
<1> DEFINE t == Append(ls, x)
<1>1. /\ Len(ls) \in Nat /\ DOMAIN ls = 1..Len(ls) /\ DOMAIN t = 1..(Len(ls) + 1)
      /\ t[Len(ls) + 1] = x /\ \A i \in 1..Len(ls) : t[i] = ls[i]
  OBVIOUS
<1>2. DOMAIN t = DOMAIN ls \cup {Len(ls) + 1} /\ Len(ls) + 1 \notin DOMAIN ls
  BY <1>1
<1> HIDE DEF t
<1> QED BY <1>1, <1>2 DEF ToSet, t

---------------------------------------------------------------------------
(* The application's steps.                                                *)

(* The actions, one by one. A new handle.                                  *)
LEMMA CreateHandleKeeps ==
  ASSUME Inv, CreateHandle
  PROVE  Inv'
<1> DEFINE later == Append(lifecycle, RegisterCommand)
<1>1. /\ handles < workload.handles /\ handles' = handles + 1 /\ live_handle' = TRUE
      /\ lifecycle' = later
      /\ UNCHANGED <<workload, driver, connected, connections, unanswered, live, ending,
                     commands, caller>>
  BY DEF CreateHandle, RegisterCommand, driverVars, serverVars
<1>2. /\ RegisterCommand \in LifecycleCommands
      /\ RegisterCommand # UnregisterCommand /\ RegisterCommand.kind # "Cancel"
  BY DEF RegisterCommand, UnregisterCommand, LifecycleCommands
<1>3. lifecycle \in Seq(LifecycleCommands) /\ handles \in Nat /\ workload.handles \in Nat
      /\ handles <= workload.handles
  BY DriverBounds DEF Inv, Shaped
<1>4. later \in Seq(LifecycleCommands)
      /\ ToSet(later) = ToSet(lifecycle) \cup {RegisterCommand}
  BY <1>2, <1>3, Appended
<1> HIDE DEF later
<1>5. Shaped'
  BY <1>1, <1>3, <1>4 DEF Inv, Shaped
<1>6. Accounted(driver, commands, later, caller)
  BY <1>2, <1>4 DEF Inv, Core, Accounted
<1>7. Visible(driver, later, connected)
  BY <1>2, <1>4 DEF Inv, Core, Visible
<1>8. FirstHandle(driver, later, handles + 1, caller)
  <2>1. SUFFICES ASSUME handles = 0
                 PROVE  FirstHandle(driver, later, handles + 1, caller)
    BY <1>3 DEF FirstHandle
  <2>2. /\ RegisterCommand \notin ToSet(lifecycle)
        /\ ~driver.registered /\ driver.pending_joins = {}
        /\ \A j, k \in DOMAIN lifecycle :
             lifecycle[j] = RegisterCommand /\ lifecycle[k] = RegisterCommand => j = k
    BY <2>1 DEF Inv, Core, FirstHandle
  <2>3. \A j, k \in DOMAIN later :
          later[j] = RegisterCommand /\ later[k] = RegisterCommand => j = k
    BY <1>2, <1>3, <2>2, AppendOnce DEF later
  <2> QED BY <2>1, <2>2, <2>3 DEF FirstHandle, Clear
<1>9. Core(driver, workload, connected, unanswered, live, ending, commands, later,
           caller, handles + 1)
  BY <1>6, <1>7, <1>8 DEF Inv, Core
<1> QED BY <1>1, <1>5, <1>9 DEF Inv

(* A call of the application: the request is in its queue before the       *)
(* driver knows it.                                                        *)
LEMMA RequestKeeps ==
  ASSUME Inv, NEW id \in Ids, Request(id)
  PROVE  Inv'
<1> DEFINE rest == Append(commands, id)
           who == [caller EXCEPT ![id] = "waiting"]
<1>1. /\ caller[id] = "idle" /\ caller' = who /\ commands' = rest
      /\ UNCHANGED <<workload, driver, connected, connections, unanswered, live, ending,
                     lifecycle, handles, live_handle>>
  BY DEF Request, driverVars, serverVars
<1>2. commands \in Seq(Ids) /\ caller \in [Ids -> {"idle", "waiting", "gone"}]
  BY DEF Inv, Shaped
<1>3. Accounted(driver, commands, lifecycle, caller)
  BY DEF Inv, Core
<1>4. New(driver, id) /\ id \notin ToSet(commands)
  BY <1>1, <1>3 DEF Accounted
<1>5. rest \in Seq(Ids) /\ ToSet(rest) = ToSet(commands) \cup {id} /\ IsInjective(rest)
  BY <1>2, <1>3, <1>4, Appended DEF Accounted
<1>6. /\ who \in [Ids -> {"idle", "waiting", "gone"}] /\ who[id] = "waiting"
      /\ \A i \in Ids \ {id} : who[i] = caller[i]
  BY <1>2
<1> HIDE DEF rest, who
<1>7. Shaped'
  BY <1>1, <1>5, <1>6 DEF Inv, Shaped
<1>8. Accounted(driver, rest, lifecycle, who)
  <2>1. \A i \in Ids : caller[i] = "gone" => who[i] = "gone"
    BY <1>1, <1>6
  <2>2. \A i \in ToSet(rest) : New(driver, i) /\ who[i] # "idle"
    BY <1>3, <1>4, <1>5, <1>6 DEF Accounted, New
  <2>3. \A i \in Ids : who[i] = "idle" => New(driver, i)
    BY <1>3, <1>6 DEF Accounted
  <2>4. \A i \in Ids : who[i] = "waiting" /\ driver.answer[i] = "none" =>
          Has(driver, i) \/ i \in ToSet(rest)
    BY <1>3, <1>5, <1>6 DEF Accounted
  <2>5. \A c \in ToSet(lifecycle) : c.kind = "Cancel" => who[c.id] = "gone"
    <3>1. \A c \in ToSet(lifecycle) : c \in LifecycleCommands
      BY DEF Inv, Shaped, ToSet
    <3>2. \A c \in LifecycleCommands : c.kind = "Cancel" => c.id \in Ids
      BY DEF LifecycleCommands
    <3> QED BY <1>3, <2>1, <3>1, <3>2 DEF Accounted
  <2>6. \A i \in Closed(driver) : who[i] = "gone"
    BY <1>3, <2>1 DEF Accounted, Closed, Ids
  <2> QED BY <1>5, <2>2, <2>3, <2>4, <2>5, <2>6 DEF Accounted
<1>9. FirstHandle(driver, lifecycle, handles, who)
  <2>1. Given(driver, caller) => Given(driver, who)
    BY <1>1, <1>6 DEF Given, Ids
  <2> QED BY <2>1 DEF Inv, Core, FirstHandle
<1>10. Core(driver, workload, connected, unanswered, live, ending, rest, lifecycle, who,
            handles)
  BY <1>8, <1>9 DEF Inv, Core
<1> QED BY <1>1, <1>7, <1>10 DEF Inv

(* A caller that no longer waits: its cancellation is queued behind its    *)
(* request.                                                                *)
LEMMA GiveUpKeeps ==
  ASSUME Inv, NEW id \in Ids, GiveUp(id)
  PROVE  Inv'
<1> DEFINE c == [kind |-> "Cancel", id |-> id]
           later == Append(lifecycle, c)
           who == [caller EXCEPT ![id] = "gone"]
<1>1. /\ caller[id] = "waiting" /\ caller' = who /\ lifecycle' = later
      /\ UNCHANGED <<workload, driver, connected, connections, unanswered, live, ending,
                     commands, handles, live_handle>>
  BY DEF GiveUp, driverVars, serverVars
<1>2. lifecycle \in Seq(LifecycleCommands)
      /\ caller \in [Ids -> {"idle", "waiting", "gone"}]
  BY DEF Inv, Shaped
<1>3. /\ Accounted(driver, commands, lifecycle, caller)
      /\ Visible(driver, lifecycle, connected)
      /\ FirstHandle(driver, lifecycle, handles, caller)
  BY DEF Inv, Core
<1>4. /\ c \in LifecycleCommands /\ c.kind = "Cancel" /\ c.id = id
      /\ RegisterCommand.kind # "Cancel" /\ UnregisterCommand.kind # "Cancel"
  BY DEF LifecycleCommands, RegisterCommand, UnregisterCommand
<1>5. c # RegisterCommand /\ c # UnregisterCommand
  BY <1>4
<1> HIDE DEF c
<1>6. later \in Seq(LifecycleCommands) /\ ToSet(later) = ToSet(lifecycle) \cup {c}
  BY <1>2, <1>4, Appended
<1>7. \A j, k \in DOMAIN later : handles <= 1 /\ later[j] = RegisterCommand
                                 /\ later[k] = RegisterCommand => j = k
  <2>1. SUFFICES ASSUME handles <= 1
                 PROVE  \A j, k \in DOMAIN later :
                          later[j] = RegisterCommand /\ later[k] = RegisterCommand => j = k
    OBVIOUS
  <2>2. \A j, k \in DOMAIN lifecycle :
          lifecycle[j] = RegisterCommand /\ lifecycle[k] = RegisterCommand => j = k
    BY <1>3, <2>1 DEF FirstHandle
  <2> QED BY <1>2, <1>4, <1>5, <2>2, AppendOnce
<1>8. /\ who \in [Ids -> {"idle", "waiting", "gone"}] /\ who[id] = "gone"
      /\ \A i \in Ids \ {id} : who[i] = caller[i]
  BY <1>2
<1> HIDE DEF later, who
<1>9. Shaped'
  BY <1>1, <1>6, <1>8 DEF Inv, Shaped
<1>10. Accounted(driver, commands, later, who)
  <2>1. \A i \in Ids : caller[i] = "gone" => who[i] = "gone"
    BY <1>1, <1>8
  <2>2. \A i \in ToSet(commands) : New(driver, i) /\ who[i] # "idle"
    BY <1>3, <1>8 DEF Accounted, New
  <2>3. \A i \in Ids : who[i] = "idle" => New(driver, i)
    BY <1>3, <1>8 DEF Accounted
  <2>4. \A i \in Ids : who[i] = "waiting" /\ driver.answer[i] = "none" =>
          Has(driver, i) \/ i \in ToSet(commands)
    BY <1>3, <1>8 DEF Accounted
  <2>5. \A x \in ToSet(later) : x.kind = "Cancel" => who[x.id] = "gone"
    <3>1. \A x \in ToSet(lifecycle) : x \in LifecycleCommands
      BY <1>2 DEF ToSet
    <3>2. \A x \in LifecycleCommands : x.kind = "Cancel" => x.id \in Ids
      BY DEF LifecycleCommands
    <3> QED BY <1>3, <1>4, <1>6, <1>8, <2>1, <3>1, <3>2 DEF Accounted
  <2>6. \A i \in Closed(driver) : who[i] = "gone"
    BY <1>3, <2>1 DEF Accounted, Closed, Ids
  <2> QED BY <1>3, <2>2, <2>3, <2>4, <2>5, <2>6 DEF Accounted
<1>11. Visible(driver, later, connected)
  BY <1>3, <1>6 DEF Visible
<1>12. FirstHandle(driver, later, handles, who)
  <2>1. Given(driver, caller) => Given(driver, who)
    BY <1>1, <1>8 DEF Given, Ids
  <2> QED BY <1>3, <1>5, <1>6, <1>7, <2>1 DEF FirstHandle
<1>13. Core(driver, workload, connected, unanswered, live, ending, commands, later, who,
            handles)
  BY <1>10, <1>11, <1>12 DEF Inv, Core
<1> QED BY <1>1, <1>9, <1>13 DEF Inv

(* The last handle of the topic is dropped.                                *)
LEMMA DropHandleKeeps ==
  ASSUME Inv, DropHandle
  PROVE  Inv'
<1> DEFINE later == Append(lifecycle, UnregisterCommand)
           d == IF Abandoned THEN driver ELSE SetStatus(driver, "Closed")
           W == Owes(unanswered, ending)
<1>1. /\ live_handle' = FALSE /\ lifecycle' = later /\ driver' = d
      /\ UNCHANGED <<workload, connected, connections, unanswered, live, ending,
                     commands, caller, handles>>
  BY DEF DropHandle, UnregisterCommand, serverVars
<1>2. lifecycle \in Seq(LifecycleCommands) /\ UnregisterCommand \in LifecycleCommands
      /\ UnregisterCommand # RegisterCommand /\ UnregisterCommand.kind # "Cancel"
  BY DEF Inv, Shaped, LifecycleCommands, UnregisterCommand, RegisterCommand
<1>3. /\ Rested(driver, workload, connected, W)
      /\ Served(workload, unanswered, live, ending)
      /\ Accounted(driver, commands, lifecycle, caller)
      /\ FirstHandle(driver, lifecycle, handles, caller)
  BY DEF Inv, Core
<1>4. later \in Seq(LifecycleCommands)
      /\ ToSet(later) = ToSet(lifecycle) \cup {UnregisterCommand}
  BY <1>2, Appended
<1>5. \A j, k \in DOMAIN later : handles <= 1 /\ later[j] = RegisterCommand
                                 /\ later[k] = RegisterCommand => j = k
  <2>1. SUFFICES ASSUME handles <= 1
                 PROVE  \A j, k \in DOMAIN later :
                          later[j] = RegisterCommand /\ later[k] = RegisterCommand => j = k
    OBVIOUS
  <2>2. \A j, k \in DOMAIN lifecycle :
          lifecycle[j] = RegisterCommand /\ lifecycle[k] = RegisterCommand => j = k
    BY <1>3, <2>1 DEF FirstHandle
  <2> QED BY <1>2, <2>2, AppendOnce
<1> HIDE DEF later
<1>6. Steady(d, W) /\ Alike(driver, d, {"status"}) /\ Moves(driver, d, {})
  <2>1. CASE Abandoned
    <3>1. d = driver
      BY <2>1
    <3>2. Alike(driver, d, {"status"}) /\ Alike(driver, d, Fields \ Holding)
      BY <3>1 DEF Alike
    <3> QED BY <1>3, <3>1, <3>2, KeepsAll DEF Rested
  <2>2. CASE ~Abandoned
    <3>1. d = SetStatus(driver, "Closed") /\ "Closed" \in Statuses
      BY <2>2 DEF Statuses
    <3>2. Steady(driver, W) /\ Once(driver)
      BY <1>3 DEF Rested
    <3> HIDE DEF d, W
    <3> QED BY <3>1, <3>2, SetStatusEffect
  <2> QED BY <2>1, <2>2
<1> HIDE DEF d, W
<1>7. /\ d.registered = driver.registered /\ d.pending_joins = driver.pending_joins
      /\ d.proto = driver.proto /\ d.queued = driver.queued
      /\ d.wire = driver.wire /\ d.capacity = driver.capacity
      /\ d.answer = driver.answer
  BY <1>6, AlikeFields
<1>8. Rested(d, workload, connected, W)
  BY <1>3, <1>6, <1>7 DEF Rested, Buffered, Moves
<1>9. Accounted(d, commands, later, caller)
  <2>1. Advance(driver, d, {}, {}) /\ Once(driver)
    BY <1>3, <1>6, AdvanceMoves DEF Rested
  <2>2. Accounted(driver, commands, later, caller)
    BY <1>2, <1>3, <1>4 DEF Accounted
  <2> QED BY <2>1, <2>2, AccountedThen DEF Accounted
<1>10. Visible(d, later, connected)
  BY <1>4 DEF Visible
<1>11. FirstHandle(d, later, handles, caller)
  <2>1. Clear(driver) => Clear(d)
    BY <1>7 DEF Clear, JoinRef
  <2>2. Given(driver, caller) => Given(d, caller)
    BY <1>7 DEF Given
  <2> QED BY <1>2, <1>3, <1>4, <1>5, <1>7, <2>1, <2>2 DEF FirstHandle
<1>12. Core(d, workload, connected, unanswered, live, ending, commands, later, caller,
            handles)
  BY <1>3, <1>8, <1>9, <1>10, <1>11 DEF Core, W
<1>13. Shaped'
  BY <1>1, <1>4 DEF Inv, Shaped
<1> QED BY <1>1, <1>12, <1>13 DEF Inv

---------------------------------------------------------------------------
(* The driver's steps on a connection.                                     *)

(* Workloads and counters are numbers.                                     *)
LEMMA Bounded ==
  ASSUME Inv
  PROVE  /\ workload.references \in Nat /\ workload.capacity \in Nat
         /\ workload.handles \in Nat /\ driver.proto.next_reference \in Nat
         /\ 1..driver.proto.next_reference \subseteq 1..workload.references
<1>1. /\ workload.references \in Nat /\ workload.capacity \in Nat
      /\ workload.handles \in Nat
  BY DriverBounds DEF Inv, Shaped
<1>2. driver.proto.next_reference \in Nat
      /\ driver.proto.next_reference <= workload.references
  BY StateFacts DEF Inv, Core, Rested
<1> QED BY <1>1, <1>2

(* The joins sent are references.                                          *)
LEMMA SentJoins ==
  ASSUME Inv, NEW e, NEW V, Steady(e, V), e.proto.next_reference <= workload.references
  PROVE  JoinsSent(e) \subseteq 1..workload.references
<1>1. ASSUME NEW q \in e.wire, q.kind = "Join"
      PROVE  q.ref \in 1..workload.references
  <2>1. Sent(e, q)
    BY <1>1 DEF Steady, Owing
  <2>2. q.ref \in 1..e.proto.next_reference
    BY <1>1, <2>1 DEF Sent
  <2>3. e.proto.next_reference \in Nat
    BY StateFacts
  <2> QED BY <2>2, <2>3, Bounded
<1> QED BY <1>1 DEF JoinsSent

(* What all handlers of a connected driver share: ready to send, it sends  *)
(* and rests.                                                              *)
LEMMA DriverStepKeeps ==
  ASSUME Inv, connected, NEW e, NEW ok \in BOOLEAN, DriverStep(e, ok),
         Steady(e, Owes(unanswered, ending)),
         NEW S, NEW C, Ready(driver, e, workload, S, C, ok),
         NEW rest, NEW later, Taken(commands, rest, S, lifecycle, later, handles),
         Gone(caller, C)
  PROVE  /\ Core(driver', workload, connected', unanswered', live', ending',
                 rest, later, caller, handles)
         /\ connected' \in BOOLEAN /\ connections' = connections
<1>1. /\ driver' = Landed(e, ok) /\ connected' = ok /\ connections' = connections
      /\ unanswered' = WithSent(unanswered, e, ok)
      /\ live' = Remains(live \cup JoinsSent(e), ok)
      /\ ending' = Remains(ending, ok)
  BY DEF DriverStep, Handled, Server, Landed, Remains, WithSent
<1>2. /\ Core(driver, workload, TRUE, unanswered, live, ending, commands, lifecycle,
              caller, handles)
      /\ unanswered \subseteq Asks /\ Once(driver)
      /\ live \cup ending \subseteq 1..workload.references
  <2>1. connected = TRUE
    BY DEF Inv, Shaped
  <2> QED BY <2>1 DEF Inv, Core, Rested, Served
<1>3. (live \cup JoinsSent(e)) \cup ending \subseteq 1..workload.references
  BY <1>2, SentJoins DEF Ready
<1>4. Core(Landed(e, ok), workload, ok, WithSent(unanswered, e, ok),
           Remains(live \cup JoinsSent(e), ok), Remains(ending, ok),
           rest, later, caller, handles)
  <2> DEFINE speaking == live \cup JoinsSent(e)
             V == Owes(unanswered, ending)
  <2>1. speaking \cup ending \subseteq 1..workload.references
    BY <1>3
  <2>2. Steady(e, V) /\ Allowed(workload, V, unanswered, speaking, ending)
    BY <1>2, <2>1 DEF Allowed
  <2> HIDE DEF speaking, V
  <2>3. Core(Landed(e, ok), workload, ok, WithSent(unanswered, e, ok),
             Remains(speaking, ok), Remains(ending, ok), rest, later, caller, handles)
    BY <1>2, <2>1, <2>2, HandlerKeeps
  <2> QED BY <2>3 DEF speaking
<1> QED BY <1>1, <1>4

(* A handler that has done all it could, whether or not it could send.     *)
LEMMA DoneStepKeeps ==
  ASSUME Inv, connected, NEW e, NEW ok \in BOOLEAN, DriverStep(e, ok),
         Steady(e, Owes(unanswered, ending)),
         NEW S, Done(driver, e, S), OnItsWay(driver) => OnItsWay(e),
         NEW rest,
         ToSet(rest) \cup S = ToSet(commands), ToSet(rest) \cap S = {},
         IsInjective(rest)
  PROVE  /\ Core(driver', workload, connected', unanswered', live', ending',
                 rest, lifecycle, caller, handles)
         /\ connected' \in BOOLEAN /\ connections' = connections
<1>1. /\ Follows(driver, e) /\ (Shown(driver) => Shown(e))
      /\ e.capacity = driver.capacity /\ (Buffered(driver) => Buffered(e))
      /\ Moves(driver, e, S) /\ Once(e) /\ e.registered = driver.registered
  BY DoneFollows
<1>2. Once(driver) /\ Buffered(driver) /\ driver.capacity = workload.capacity
  BY DEF Inv, Core, Rested
<1>3. Advance(driver, e, S, {})
  BY <1>1, <1>2, AdvanceMoves
<1>4. Buffered(e) /\ Len(e.queued) <= e.capacity
  BY <1>1, <1>2 DEF Buffered
<1>5. \A j, k \in DOMAIN lifecycle :
        handles <= 1 /\ lifecycle[j] = RegisterCommand /\ lifecycle[k] = RegisterCommand
          => j = k
  BY DEF Inv, Core, FirstHandle
<1>6. e.proto.next_reference <= workload.references
  BY DEF DriverStep, Handled
<1>7. Ready(driver, e, workload, S, {}, ok)
  BY <1>1, <1>2, <1>3, <1>4, <1>6 DEF Ready
<1>8. Taken(commands, rest, S, lifecycle, lifecycle, handles)
  BY <1>5 DEF Taken
<1>9. Gone(caller, {})
  BY DEF Gone
<1> QED BY <1>7, <1>8, <1>9, DriverStepKeeps

(* What the driver rests on.                                               *)
LEMMA Resting ==
  ASSUME Inv
  PROVE  /\ Steady(driver, Owes(unanswered, ending)) /\ Once(driver)
         /\ Buffered(driver) /\ driver.wire = {}
         /\ driver.capacity = workload.capacity
         /\ Accounted(driver, commands, lifecycle, caller)
         /\ commands \in Seq(Ids) /\ lifecycle \in Seq(LifecycleCommands)
         /\ connected \in BOOLEAN
         /\ ~connected => Chan(driver.proto).state \notin Active
BY DEF Inv, Shaped, Core, Rested

(* A handler that is done, with no command.                                *)
LEMMA IdleStepKeeps ==
  ASSUME Inv, Idle, NEW e, NEW ok \in BOOLEAN, DriverStep(e, ok),
         Steady(e, Owes(unanswered, ending)),
         Done(driver, e, {}), OnItsWay(driver) => OnItsWay(e)
  PROVE  Inv'
<1>1. /\ connected
      /\ UNCHANGED <<commands, lifecycle, workload, caller, handles, live_handle>>
  BY DEF Idle, handleVars
<1>2. /\ ToSet(commands) \cup {} = ToSet(commands) /\ ToSet(commands) \cap {} = {}
      /\ IsInjective(commands)
  BY Resting DEF Accounted
<1>3. /\ Core(driver', workload, connected', unanswered', live', ending',
              commands, lifecycle, caller, handles)
      /\ connected' \in BOOLEAN /\ connections' = connections
  BY <1>1, <1>2, DoneStepKeeps
<1>4. Shaped'
  BY <1>1, <1>3 DEF Inv, Shaped
<1> QED BY <1>1, <1>3, <1>4 DEF Inv

(* The end of a payload load.                                              *)
LEMMA HandlePayloadKeeps ==
  ASSUME Inv, HandlePayload
  PROVE  Inv'
<1>1. PICK id \in driver.loads, loaded \in BOOLEAN, ok \in BOOLEAN :
        DriverStep(PayloadLoaded(driver, id, loaded), ok)
  BY DEF HandlePayload
<1> DEFINE e == PayloadLoaded(driver, id, loaded)
           W == Owes(unanswered, ending)
<1>2. Steady(driver, W) /\ Once(driver)
  BY Resting
<1> HIDE DEF W
<1>3. Steady(e, W) /\ Done(driver, e, {}) /\ (OnItsWay(driver) => OnItsWay(e))
  BY <1>2, PayloadLoadedKeeps
<1>4. Idle /\ DriverStep(e, ok)
  BY <1>1 DEF HandlePayload
<1> HIDE DEF e
<1> QED BY <1>3, <1>4, IdleStepKeeps DEF W

(* The end of a rejoin delay.                                              *)
LEMMA HandleRejoinKeeps ==
  ASSUME Inv, HandleRejoin
  PROVE  Inv'
<1> DEFINE e == RejoinDue(driver)
           W == Owes(unanswered, ending)
<1>1. Steady(driver, W) /\ Once(driver)
  BY Resting
<1> HIDE DEF W
<1>2. Idle /\ DriverStep(e, TRUE) /\ driver.rejoins > 0
  BY DEF HandleRejoin
<1>3. Steady(e, W) /\ Done(driver, e, {}) /\ OnItsWay(e)
  BY <1>1, <1>2, RejoinDueKeeps
<1> HIDE DEF e
<1> QED BY <1>2, <1>3, IdleStepKeeps DEF W

(* The end of an operation timeout.                                        *)
LEMMA HandleOperationTimeoutKeeps ==
  ASSUME Inv, HandleOperationTimeout
  PROVE  Inv'
<1>1. PICK timeout \in driver.op_timeouts : DriverStep(TimedOut(driver, timeout), TRUE)
  BY DEF HandleOperationTimeout
<1> DEFINE e == TimedOut(driver, timeout)
           W == Owes(unanswered, ending)
<1>2. Steady(driver, W) /\ Once(driver)
  BY Resting
<1> HIDE DEF W
<1>3. Steady(e, W) /\ Done(driver, e, {}) /\ (OnItsWay(driver) => OnItsWay(e))
  BY <1>2, TimedOutKeeps
<1>4. Idle /\ DriverStep(e, TRUE)
  BY <1>1 DEF HandleOperationTimeout
<1> HIDE DEF e
<1> QED BY <1>3, <1>4, IdleStepKeeps DEF W

(* A command is handled, on a connection.                                  *)
LEMMA CommandKeeps ==
  ASSUME NEW W, Steady(driver, W), Once(driver), NEW id, New(driver, id),
         NEW ok \in BOOLEAN
  PROVE  LET e == ConnectedEffect(id, ok)
         IN  /\ Steady(e, W) /\ Done(driver, e, {id})
             /\ OnItsWay(driver) => OnItsWay(e)
<1> DEFINE e == ConnectedEffect(id, ok)
<1>1. \/ id \in Joins /\ e = JoinCommand(driver, id)
      \/ id \in Leaves /\ e = LeaveCommand(driver, id)
      \/ id \in Pushes /\ e = PushCommand(driver, id, ok)
  BY DEF ConnectedEffect, New, Ids
<1>2. CASE id \in Joins /\ e = JoinCommand(driver, id)
  BY <1>2, JoinCommandKeeps
<1>3. CASE id \in Leaves /\ e = LeaveCommand(driver, id)
  BY <1>3, LeaveCommandKeeps
<1>4. CASE id \in Pushes /\ e = PushCommand(driver, id, ok)
  BY <1>4, PushCommandKeeps
<1> QED BY <1>1, <1>2, <1>3, <1>4

(* The command at the head of the queue.                                   *)
LEMMA CommandTaken ==
  ASSUME Inv, TakeCommand
  PROVE  /\ New(driver, Head(commands)) /\ commands' = Tail(commands)
         /\ commands' \in Seq(Ids)
         /\ ToSet(commands') \cup {Head(commands)} = ToSet(commands)
         /\ ToSet(commands') \cap {Head(commands)} = {}
         /\ IsInjective(commands')
         /\ UNCHANGED <<lifecycle, workload, caller, handles, live_handle>>
<1>1. /\ commands # <<>> /\ commands' = Tail(commands)
      /\ UNCHANGED <<lifecycle, workload, caller, handles, live_handle>>
  BY DEF TakeCommand, handleVars
<1>2. commands \in Seq(Ids) /\ Accounted(driver, commands, lifecycle, caller)
  BY Resting
<1>3. /\ Tail(commands) \in Seq(Ids)
      /\ ToSet(commands) = ToSet(Tail(commands)) \cup {Head(commands)}
      /\ IsInjective(commands) => /\ IsInjective(Tail(commands))
                                  /\ Head(commands) \notin ToSet(Tail(commands))
  BY <1>1, <1>2, Shifted
<1> QED BY <1>1, <1>2, <1>3 DEF Accounted

(* A command, while connected.                                             *)
LEMMA HandleCommandKeeps ==
  ASSUME Inv, HandleCommand
  PROVE  Inv'
<1> DEFINE id == Head(commands)
           W == Owes(unanswered, ending)
<1>1. PICK ok \in BOOLEAN : DriverStep(ConnectedEffect(id, ok), ok)
  BY DEF HandleCommand
<1> DEFINE e == ConnectedEffect(id, ok)
<1>2. /\ New(driver, id) /\ commands' = Tail(commands) /\ commands' \in Seq(Ids)
      /\ ToSet(commands') \cup {id} = ToSet(commands)
      /\ ToSet(commands') \cap {id} = {} /\ IsInjective(commands')
      /\ UNCHANGED <<lifecycle, workload, caller, handles, live_handle>>
  BY CommandTaken DEF HandleCommand
<1>3. connected /\ DriverStep(e, ok)
  BY <1>1 DEF HandleCommand
<1>4. Steady(driver, W) /\ Once(driver)
  BY Resting
<1> HIDE DEF W, id
<1>5. Steady(e, W) /\ Done(driver, e, {id}) /\ (OnItsWay(driver) => OnItsWay(e))
  BY <1>2, <1>4, CommandKeeps
<1> HIDE DEF e
<1>6. /\ Core(driver', workload, connected', unanswered', live', ending',
              commands', lifecycle, caller, handles)
      /\ connected' \in BOOLEAN /\ connections' = connections
  <2> DEFINE rest == commands'
  <2>1. /\ ToSet(rest) \cup {id} = ToSet(commands)
        /\ ToSet(rest) \cap {id} = {} /\ IsInjective(rest)
    BY <1>2
  <2> HIDE DEF rest
  <2> QED BY <1>3, <1>5, <2>1, DoneStepKeeps DEF W, rest
<1>7. Shaped'
  BY <1>2, <1>6 DEF Inv, Shaped
<1> QED BY <1>2, <1>6, <1>7 DEF Inv

---------------------------------------------------------------------------
(* The driver's steps without a connection, and lifecycle commands.        *)

(* A command, while offline.                                               *)
LEMMA HandleOfflineCommandKeeps ==
  ASSUME Inv, HandleOfflineCommand
  PROVE  Inv'
<1> DEFINE id == Head(commands)
           W == Owes(unanswered, ending)
           e == OfflineEffect(id)
           rest == Tail(commands)
<1>1. /\ New(driver, id) /\ commands' = rest /\ rest \in Seq(Ids)
      /\ ToSet(rest) \cup {id} = ToSet(commands)
      /\ ToSet(rest) \cap {id} = {} /\ IsInjective(rest)
      /\ UNCHANGED <<lifecycle, workload, caller, handles, live_handle>>
  BY CommandTaken DEF HandleOfflineCommand
<1>2. /\ ~connected /\ driver' = e
      /\ UNCHANGED <<connected, connections, unanswered, live, ending>>
  BY DEF HandleOfflineCommand, serverVars
<1>3. /\ Rested(driver, workload, connected, W)
      /\ Served(workload, unanswered, live, ending)
      /\ Chan(driver.proto).state \notin Active
      /\ Core(driver, workload, connected, unanswered, live, ending, commands, lifecycle,
              caller, handles)
      /\ \A j, k \in DOMAIN lifecycle :
           handles <= 1 /\ lifecycle[j] = RegisterCommand
             /\ lifecycle[k] = RegisterCommand => j = k
  BY <1>2 DEF Inv, Core, Rested, FirstHandle
<1>4. Steady(driver, W) /\ Once(driver)
  BY Resting
<1>5. \/ id \in Joins /\ e = OfflineJoin(driver, id)
      \/ id \in Leaves /\ e = OfflineLeave(driver, id)
      \/ id \in Pushes /\ e = Queue(driver, id)
  BY <1>1 DEF OfflineEffect, New, Ids
<1> HIDE DEF W, id, e, rest
<1>6. /\ Steady(e, W) /\ Done(driver, e, {id})
      /\ e.proto = driver.proto /\ e.wire = driver.wire
  <2>1. CASE id \in Joins /\ e = OfflineJoin(driver, id)
    BY <1>1, <1>3, <1>4, <2>1, OfflineJoinKeeps
  <2>2. CASE id \in Leaves /\ e = OfflineLeave(driver, id)
    BY <1>1, <1>3, <1>4, <2>2, OfflineLeaveKeeps
  <2>3. CASE id \in Pushes /\ e = Queue(driver, id)
    BY <1>1, <1>3, <1>4, <2>3, QueueKeeps DEF Active
  <2> QED BY <1>5, <2>1, <2>2, <2>3
<1>7. /\ Follows(driver, e) /\ (Shown(driver) => Shown(e))
      /\ e.capacity = driver.capacity /\ (Buffered(driver) => Buffered(e))
      /\ Moves(driver, e, {id}) /\ Once(e)
  BY <1>6, DoneFollows
<1>8. Rested(e, workload, connected, W)
  BY <1>3, <1>6, <1>7 DEF Rested
<1>9. Onward(driver, e, {id}, {}, connected)
  BY <1>2, <1>4, <1>7, AdvanceMoves DEF Onward
<1>10. Taken(commands, rest, {id}, lifecycle, lifecycle, handles) /\ Gone(caller, {})
  BY <1>1, <1>3 DEF Taken, Gone
<1>11. Core(e, workload, connected, unanswered, live, ending, rest, lifecycle, caller,
            handles)
  BY <1>3, <1>8, <1>9, <1>10, RestKeeps DEF W
<1>12. Shaped'
  BY <1>1, <1>2 DEF Inv, Shaped
<1> QED BY <1>1, <1>2, <1>11, <1>12 DEF Inv

(* Nothing waits for the server any more.                                  *)
LEMMA OfflineKeeps ==
  ASSUME Inv, NEW d, NEW W, Steady(d, W), Once(d), d.wire = {},
         Moves(driver, d, {}), d.capacity = driver.capacity,
         d.registered = driver.registered, Len(d.queued) <= d.capacity,
         d.proto.next_reference <= workload.references,
         driver' = Disconnected(d), connected' = FALSE, Server({}, {}, {}, FALSE),
         UNCHANGED <<workload, connections, commands, lifecycle, caller, handles,
                     live_handle>>
  PROVE  Inv'
<1> DEFINE g == Disconnected(d)
<1>1. /\ Steady(g, {}) /\ Moves(d, g, {}) /\ g.wire = {} /\ g.pending_joins = {}
      /\ g.capacity = d.capacity /\ g.registered = d.registered
      /\ g.queued = d.queued
      /\ Chan(g.proto).state \in {"Absent", "Disconnected"}
      /\ g.proto.next_reference = d.proto.next_reference
      /\ d.registered => g.status # "Joined"
  BY DisconnectedKeeps
<1> HIDE DEF g
<1>2. /\ Once(driver) /\ driver.capacity = workload.capacity
      /\ Accounted(driver, commands, lifecycle, caller)
  BY Resting
<1>3. Shown(g) /\ Buffered(g)
  BY <1>1 DEF Shown, Buffered
<1>4. unanswered' = {} /\ live' = {} /\ ending' = {}
  BY DEF Server
<1>5. Rested(g, workload, FALSE, Owes({}, {})) /\ Served(workload, {}, {}, {})
  <2>1. Owes({}, {}) = {}
    BY DEF Owes, Ended
  <2>2. Once(g)
    BY <1>1 DEF Moves
  <2> QED BY <1>1, <1>2, <1>3, <2>1, <2>2 DEF Rested, Served, Active
<1>6. Onward(driver, g, {}, {}, FALSE)
  <2>1. Advance(driver, d, {}, {})
    BY <1>2, AdvanceMoves
  <2>2. Advance(driver, g, {}, {})
    BY <1>1, <2>1, AdvanceThen
  <2>3. Follows(driver, g)
    BY <1>1 DEF Follows, Clear
  <2> QED BY <1>3, <2>2, <2>3 DEF Onward
<1>7. Taken(commands, commands, {}, lifecycle, lifecycle, handles) /\ Gone(caller, {})
  BY <1>2 DEF Taken, Gone, Accounted, Inv, Core, FirstHandle
<1>8. Core(g, workload, FALSE, {}, {}, {}, commands, lifecycle, caller, handles)
  <2>1. Core(driver, workload, connected, unanswered, live, ending, commands, lifecycle,
             caller, handles)
    BY DEF Inv
  <2> QED BY <1>5, <1>6, <1>7, <2>1, RestKeeps
<1>9. Shaped'
  BY DEF Inv, Shaped
<1> QED BY <1>4, <1>8, <1>9 DEF Inv, g

(* The connection ends.                                                    *)
LEMMA LoseConnectionKeeps ==
  ASSUME Inv, LoseConnection
  PROVE  Inv'
<1> DEFINE W == Owes(unanswered, ending)
<1>1. /\ Steady(driver, W) /\ Once(driver) /\ driver.wire = {}
      /\ Buffered(driver) /\ driver.proto.next_reference <= workload.references
  BY DEF Inv, Core, Rested
<1>2. /\ driver' = Disconnected(driver) /\ connected' = FALSE
      /\ Server({}, {}, {}, FALSE)
      /\ UNCHANGED <<workload, connections, commands, lifecycle, caller, handles,
                     live_handle>>
  BY DEF LoseConnection, handleVars
<1>3. Moves(driver, driver, {})
  <2>1. Alike(driver, driver, Fields \ Holding)
    BY DEF Alike
  <2> QED BY <1>1, <2>1, KeepsAll
<1>4. Len(driver.queued) <= driver.capacity
  BY <1>1 DEF Buffered
<1> HIDE DEF W
<1> QED BY <1>1, <1>2, <1>3, <1>4, OfflineKeeps

(* A connection begins.                                                    *)
LEMMA ConnectKeeps ==
  ASSUME Inv, Connect
  PROVE  Inv'
<1> DEFINE e == Connected(driver)
           W == Owes(unanswered, ending)
<1>1. /\ ~connected /\ connections < MaxConnections /\ connections' = connections + 1
      /\ driver' = e /\ connected' = TRUE
      /\ UNCHANGED <<workload, unanswered, live, ending, commands, lifecycle, caller,
                     handles, live_handle>>
  BY DEF Connect, handleVars, serverVars
<1>2. /\ Rested(driver, workload, connected, W)
      /\ Served(workload, unanswered, live, ending)
      /\ Accounted(driver, commands, lifecycle, caller)
      /\ Visible(driver, lifecycle, connected)
      /\ FirstHandle(driver, lifecycle, handles, caller)
  BY DEF Inv, Core
<1>3. Steady(driver, W) /\ Once(driver) /\ Chan(driver.proto).state \notin Active
  BY <1>1, Resting
<1> HIDE DEF W
<1>4. /\ Steady(e, W) /\ Done(driver, e, {}) /\ OnItsWay(e)
      /\ e.proto = driver.proto /\ e.wire = driver.wire
  BY <1>3, ConnectedKeeps
<1> HIDE DEF e
<1>5. /\ Follows(driver, e) /\ (Shown(driver) => Shown(e))
      /\ e.capacity = driver.capacity /\ (Buffered(driver) => Buffered(e))
      /\ Moves(driver, e, {}) /\ Once(e)
  BY <1>4, DoneFollows
<1>6. Rested(e, workload, TRUE, W)
  BY <1>2, <1>4, <1>5 DEF Rested
<1>7. Advance(driver, e, {}, {})
  BY <1>3, <1>5, AdvanceMoves
<1>8. Taken(commands, commands, {}, lifecycle, lifecycle, handles) /\ Gone(caller, {})
  BY <1>2 DEF Taken, Gone, Accounted, FirstHandle
<1>9. Accounted(e, commands, lifecycle, caller)
  BY <1>2, <1>3, <1>7, <1>8, AccountedThen DEF Taken, Gone
<1>10. FirstHandle(e, lifecycle, handles, caller)
  <2>1. \A i \in Closed(driver) : caller[i] = "gone"
    BY <1>2 DEF Accounted
  <2> QED BY <1>2, <1>3, <1>5, <1>7, <1>8, <2>1, FirstHandleThen DEF Taken
<1>11. Visible(e, lifecycle, TRUE)
  BY <1>2, <1>4, <1>5 DEF Visible
<1>12. Core(e, workload, TRUE, unanswered, live, ending, commands, lifecycle, caller,
            handles)
  BY <1>2, <1>6, <1>9, <1>10, <1>11 DEF Core, W
<1>13. Shaped'
  <2>1. connections + 1 \in 0..MaxConnections
    BY <1>1, DriverBounds DEF Inv, Shaped
  <2> QED BY <1>1, <2>1 DEF Inv, Shaped
<1> QED BY <1>1, <1>12, <1>13 DEF Inv

(* The head of the lifecycle queue.                                        *)
LEMMA LifecycleTaken ==
  ASSUME Inv, HandleLifecycle
  PROVE  LET c == Head(lifecycle)
             later == Tail(lifecycle)
         IN  /\ c \in LifecycleCommands /\ lifecycle' = later
             /\ later \in Seq(LifecycleCommands)
             /\ ToSet(lifecycle) = ToSet(later) \cup {c}
             /\ handles <= 1 => /\ \A j, k \in DOMAIN later :
                                     later[j] = RegisterCommand
                                       /\ later[k] = RegisterCommand => j = k
                                /\ c = RegisterCommand => c \notin ToSet(later)
             /\ UNCHANGED <<commands, workload, caller, handles, live_handle>>
<1> DEFINE c == Head(lifecycle)
           later == Tail(lifecycle)
<1>1. /\ lifecycle # <<>> /\ lifecycle' = later
      /\ UNCHANGED <<commands, workload, caller, handles, live_handle>>
  BY DEF HandleLifecycle, handleVars
<1>2. lifecycle \in Seq(LifecycleCommands)
  BY Resting
<1>3. /\ later \in Seq(LifecycleCommands) /\ c \in LifecycleCommands
      /\ ToSet(lifecycle) = ToSet(later) \cup {c}
  BY <1>1, <1>2, Shifted
<1>4. ASSUME handles <= 1
      PROVE  /\ \A j, k \in DOMAIN later :
                  later[j] = RegisterCommand /\ later[k] = RegisterCommand => j = k
             /\ c = RegisterCommand => c \notin ToSet(later)
  <2>1. \A j, k \in DOMAIN lifecycle :
          lifecycle[j] = RegisterCommand /\ lifecycle[k] = RegisterCommand => j = k
    BY <1>4 DEF Inv, Core, FirstHandle
  <2> QED BY <1>1, <1>2, <2>1, TailOnce
<1> QED BY <1>1, <1>3, <1>4

(* A lifecycle command that cancels a request.                             *)
LEMMA HandleCancelKeeps ==
  ASSUME Inv, HandleLifecycle, Head(lifecycle).kind = "Cancel"
  PROVE  Inv'
<1> DEFINE c == Head(lifecycle)
           id == c.id
           later == Tail(lifecycle)
           W == Owes(unanswered, ending)
           e == Cancel(driver, id)
<1>1. /\ c \in LifecycleCommands /\ lifecycle' = later
      /\ later \in Seq(LifecycleCommands)
      /\ ToSet(lifecycle) = ToSet(later) \cup {c}
      /\ handles <= 1 => \A j, k \in DOMAIN later :
           later[j] = RegisterCommand /\ later[k] = RegisterCommand => j = k
      /\ UNCHANGED <<commands, workload, caller, handles, live_handle>>
  BY LifecycleTaken
<1>2. LifecycleEffect(c) = e /\ c # UnregisterCommand
  BY DEF LifecycleEffect, UnregisterCommand
<1>3. /\ Rested(driver, workload, connected, W)
      /\ Served(workload, unanswered, live, ending)
      /\ Core(driver, workload, connected, unanswered, live, ending, commands, lifecycle,
              caller, handles)
      /\ Steady(driver, W) /\ Once(driver) /\ Buffered(driver)
      /\ Accounted(driver, commands, lifecycle, caller)
      /\ driver.capacity = workload.capacity
  BY DEF Inv, Core, Rested
<1>4. caller[id] = "gone"
  BY <1>1, <1>3 DEF Accounted
<1>5. IF connected
        THEN \E ok \in BOOLEAN : DriverStep(e, ok)
        ELSE driver' = e /\ UNCHANGED <<connected, connections, unanswered, live, ending>>
  BY <1>2 DEF HandleLifecycle, serverVars
<1> HIDE DEF c, later, W, e
<1>6. Steady(e, W) /\ Released(driver, e, id)
  <2> HIDE DEF id
  <2> QED BY <1>3, CancelKeeps DEF e
<1>7. /\ Advance(driver, e, {}, {id}) /\ Once(e)
  BY <1>6, AdvanceReleases DEF Released, Releases
<1>8. /\ Follows(driver, e) /\ (Shown(driver) => Shown(e))
      /\ (OnItsWay(driver) => OnItsWay(e))
      /\ e.capacity = driver.capacity /\ Buffered(e)
      /\ e.registered = driver.registered /\ Calm(driver, e)
  BY <1>3, <1>6 DEF Released, Keeps, Follows
<1>9. Len(e.queued) <= e.capacity
  BY <1>8 DEF Buffered
<1>10. Taken(commands, commands, {}, lifecycle, later, handles) /\ Gone(caller, {id})
  BY <1>1, <1>2, <1>3, <1>4 DEF Taken, Gone, Accounted
<1>11. /\ Core(driver', workload, connected', unanswered', live', ending',
               commands, later, caller, handles)
       /\ connected' \in BOOLEAN /\ connections' = connections
  <2>1. CASE connected
    <3>1. PICK ok \in BOOLEAN : DriverStep(e, ok)
      BY <1>5, <2>1
    <3>2. e.proto.next_reference <= workload.references
      BY <3>1 DEF DriverStep, Handled
    <3>3. Ready(driver, e, workload, {}, {id}, ok)
      BY <1>3, <1>7, <1>8, <1>9, <3>2 DEF Ready
    <3> HIDE DEF id
    <3> QED BY <1>6, <1>10, <2>1, <3>1, <3>3, DriverStepKeeps DEF W
  <2>2. CASE ~connected
    <3>1. driver' = e /\ UNCHANGED <<connected, connections, unanswered, live, ending>>
      BY <1>5, <2>2
    <3>2. Rested(e, workload, connected, W)
      BY <1>3, <1>6, <1>7, <1>8 DEF Rested, Calm, Active, P!Absent
    <3>3. Onward(driver, e, {}, {id}, connected)
      BY <1>7, <1>8 DEF Onward
    <3> HIDE DEF id
    <3>4. Core(e, workload, connected, unanswered, live, ending, commands, later, caller,
               handles)
      BY <1>3, <1>10, <3>2, <3>3, RestKeeps DEF W
    <3> QED BY <3>1, <3>4, Resting
  <2> QED BY <2>1, <2>2
<1>12. Shaped'
  BY <1>1, <1>11 DEF Inv, Shaped
<1> QED BY <1>1, <1>11, <1>12 DEF Inv

(* A record is made or dropped.                                            *)
LEMMA RecordStep ==
  ASSUME Inv, HandleLifecycle, NEW e, e = LifecycleEffect(Head(lifecycle)),
         Steady(e, Owes(unanswered, ending)), Moves(driver, e, {}),
         e.capacity = driver.capacity, Buffered(e),
         ~connected => /\ e.wire = {} /\ Chan(e.proto).state \notin Active
                       /\ e.proto.next_reference = driver.proto.next_reference
  PROVE  /\ Rested(driver', workload, connected', Owes(unanswered', ending'))
         /\ Served(workload, unanswered', live', ending')
         /\ Accounted(driver', commands, Tail(lifecycle), caller)
         /\ Shaped' /\ driver'.registered = e.registered
         /\ driver'.pending_joins \subseteq e.pending_joins
         /\ Shown(e) => Shown(driver')
         /\ connected' => (OnItsWay(e) => OnItsWay(driver'))
<1> DEFINE later == Tail(lifecycle)
           W == Owes(unanswered, ending)
<1>1. /\ lifecycle' = later /\ later \in Seq(LifecycleCommands)
      /\ ToSet(lifecycle) = ToSet(later) \cup {Head(lifecycle)}
      /\ UNCHANGED <<commands, workload, caller, handles, live_handle>>
  BY LifecycleTaken
<1>2. IF connected
        THEN \E ok \in BOOLEAN : DriverStep(e, ok)
        ELSE driver' = e /\ UNCHANGED <<connected, connections, unanswered, live, ending>>
  BY DEF HandleLifecycle, serverVars
<1>3. /\ Rested(driver, workload, connected, W)
      /\ Served(workload, unanswered, live, ending)
      /\ Accounted(driver, commands, lifecycle, caller)
      /\ driver.capacity = workload.capacity /\ Once(driver)
  BY DEF Inv, Core, Rested
<1>4. Once(e) /\ Len(e.queued) <= e.capacity
  BY DEF Moves, Buffered
<1> HIDE DEF later, W
<1>5. /\ Rested(driver', workload, connected', Owes(unanswered', ending'))
      /\ Served(workload, unanswered', live', ending')
      /\ Moves(e, driver', {}) /\ driver'.registered = e.registered
      /\ driver'.pending_joins \subseteq e.pending_joins
      /\ Shown(e) => Shown(driver')
      /\ connected' => (OnItsWay(e) => OnItsWay(driver'))
      /\ connected' \in BOOLEAN /\ connections' = connections
  <2>1. CASE connected
    <3>1. PICK ok \in BOOLEAN : DriverStep(e, ok)
      BY <1>2, <2>1
    <3>2. e.proto.next_reference <= workload.references
      BY <3>1 DEF DriverStep, Handled
    <3> DEFINE speaking == live \cup JoinsSent(e)
               g == Landed(e, ok)
    <3>3. Allowed(workload, W, unanswered, speaking, ending)
      BY <1>3, <3>2, SentJoins DEF Allowed, Served, W
    <3>4. /\ driver' = g /\ connected' = ok /\ connections' = connections
          /\ unanswered' = WithSent(unanswered, e, ok)
          /\ live' = Remains(speaking, ok) /\ ending' = Remains(ending, ok)
      BY <3>1 DEF DriverStep, Handled, Server, Landed, Remains, WithSent
    <3> HIDE DEF speaking
    <3>5. /\ Rested(g, workload, ok,
                    Owes(WithSent(unanswered, e, ok), Remains(ending, ok)))
          /\ Served(workload, WithSent(unanswered, e, ok), Remains(speaking, ok),
                    Remains(ending, ok))
          /\ Moves(e, g, {}) /\ g.registered = e.registered
          /\ ok => Alike(e, g, {"wire"})
          /\ ~ok => NoJoins(g) /\ Shown(g)
      <4>1. Steady(e, W) /\ e.capacity = workload.capacity
        BY <1>3 DEF W
      <4> HIDE DEF g
      <4> QED BY <1>4, <3>2, <3>3, <4>1, HandlerLands DEF g
    <3> HIDE DEF g
    <3>6. CASE ok
      <4>1. /\ g.pending_joins = e.pending_joins /\ g.registered = e.registered
            /\ g.proto = e.proto /\ g.status = e.status /\ g.rejoins = e.rejoins
            /\ g.desired = e.desired /\ g.active_payload = e.active_payload
        BY <3>5, <3>6, AlikeFields
      <4>2. (Shown(e) => Shown(g)) /\ (OnItsWay(e) => OnItsWay(g))
        BY <4>1 DEF Shown, OnItsWay
      <4> QED BY <3>4, <3>5, <4>1, <4>2
    <3>7. CASE ~ok
      BY <3>4, <3>5, <3>7 DEF NoJoins
    <3> QED BY <3>6, <3>7
  <2>2. CASE ~connected
    <3>1. driver' = e /\ UNCHANGED <<connected, connections, unanswered, live, ending>>
      BY <1>2, <2>2
    <3>2. Rested(e, workload, connected, W)
      BY <1>3, <1>4, <2>2 DEF Rested, W
    <3>3. Moves(e, e, {})
      <4>1. Alike(e, e, Fields \ Holding)
        BY DEF Alike
      <4> QED BY <1>4, <4>1, KeepsAll
    <3> QED BY <1>3, <3>1, <3>2, <3>3, Resting DEF W
  <2> QED BY <2>1, <2>2
<1>6. Accounted(driver', commands, later, caller)
  <2> DEFINE g == driver'
  <2>1. Advance(driver, e, {}, {})
    BY <1>3, AdvanceMoves
  <2>2. Moves(e, g, {})
    BY <1>5
  <2> HIDE DEF g
  <2>3. Advance(driver, g, {}, {})
    BY <1>4, <2>1, <2>2, AdvanceThen
  <2>4. /\ ToSet(commands) \cup {} = ToSet(commands) /\ ToSet(commands) \cap {} = {}
        /\ IsInjective(commands) /\ ToSet(later) \subseteq ToSet(lifecycle)
    BY <1>1, <1>3 DEF Accounted
  <2>5. Accounted(g, commands, later, caller)
    BY <1>3, <2>3, <2>4, AccountedThen
  <2> QED BY <2>5 DEF g
<1>7. Shaped'
  BY <1>1, <1>5 DEF Inv, Shaped
<1> QED BY <1>5, <1>6, <1>7 DEF later

(* The first handle is registered when no join is pending.                 *)
LEMMA HandleRegisterKeeps ==
  ASSUME Inv, HandleLifecycle, Head(lifecycle).kind = "Register"
  PROVE  Inv'
<1> DEFINE c == Head(lifecycle)
           later == Tail(lifecycle)
           W == Owes(unanswered, ending)
           e == Register(driver)
<1>1. /\ c \in LifecycleCommands /\ lifecycle' = later
      /\ ToSet(lifecycle) = ToSet(later) \cup {c}
      /\ handles <= 1 => /\ \A j, k \in DOMAIN later :
                              later[j] = RegisterCommand /\ later[k] = RegisterCommand
                                => j = k
                         /\ c = RegisterCommand => c \notin ToSet(later)
      /\ UNCHANGED <<commands, workload, caller, handles, live_handle>>
  BY LifecycleTaken
<1>2. c = RegisterCommand /\ c # UnregisterCommand
  BY <1>1 DEF LifecycleCommands, RegisterCommand, UnregisterCommand
<1>3. e = LifecycleEffect(c)
  BY <1>2 DEF LifecycleEffect, RegisterCommand
<1>4. /\ Rested(driver, workload, connected, W)
      /\ Visible(driver, lifecycle, connected)
      /\ FirstHandle(driver, lifecycle, handles, caller)
      /\ Steady(driver, W) /\ Once(driver) /\ Buffered(driver)
      /\ driver.wire = {}
  BY DEF Inv, Core, Rested
<1>5. /\ Steady(e, W) /\ Moves(driver, e, {})
      /\ Alike(driver, e, {"registered"}) /\ e.registered
      /\ Shown(driver) => Shown(e)
      /\ OnItsWay(driver) => OnItsWay(e)
  <2> HIDE DEF W
  <2> QED BY <1>4, RegisterKeeps
<1>6. connected' => connected
  BY DEF HandleLifecycle
<1> HIDE DEF e, c, later
<1>7. /\ e.proto = driver.proto /\ e.wire = driver.wire /\ e.queued = driver.queued
      /\ e.capacity = driver.capacity /\ e.pending_joins = driver.pending_joins
  BY <1>5, AlikeFields
<1>8. Buffered(e)
  BY <1>4, <1>7 DEF Buffered
<1>9. /\ Rested(driver', workload, connected', Owes(unanswered', ending'))
      /\ Served(workload, unanswered', live', ending')
      /\ Accounted(driver', commands, later, caller)
      /\ Shaped' /\ driver'.registered = e.registered
      /\ driver'.pending_joins \subseteq e.pending_joins
      /\ Shown(e) => Shown(driver')
      /\ connected' => (OnItsWay(e) => OnItsWay(driver'))
  <2>1. ~connected => /\ e.wire = {} /\ Chan(e.proto).state \notin Active
                      /\ e.proto.next_reference = driver.proto.next_reference
    BY <1>4, <1>7 DEF Rested
  <2> QED BY <1>3, <1>5, <1>7, <1>8, <2>1, RecordStep DEF c, later, W
<1>10. Visible(driver', later, connected')
  BY <1>1, <1>2, <1>4, <1>5, <1>6, <1>9 DEF Visible
<1>11. FirstHandle(driver', later, handles, caller)
  <2> SUFFICES ASSUME handles <= 1
               PROVE  /\ \A j, k \in DOMAIN later :
                           later[j] = RegisterCommand /\ later[k] = RegisterCommand
                             => j = k
                      /\ handles = 0 \/ RegisterCommand \in ToSet(later) =>
                           ~driver'.registered /\ driver'.pending_joins = {}
                      /\ handles = 0 => RegisterCommand \notin ToSet(later)
                      /\ Clear(driver') \/ Given(driver', caller)
    BY DEF FirstHandle
  <2>1. RegisterCommand \in ToSet(lifecycle)
    BY <1>1, <1>2
  <2>2. handles # 0 /\ driver.pending_joins = {}
    BY <1>4, <2>1 DEF FirstHandle
  <2>3. driver'.pending_joins = {}
    BY <1>7, <1>9, <2>2
  <2>4. RegisterCommand \notin ToSet(later)
    BY <1>1, <1>2
  <2> QED BY <1>1, <2>2, <2>3, <2>4 DEF Clear
<1>12. Core(driver', workload, connected', unanswered', live', ending', commands, later,
            caller, handles)
  BY <1>9, <1>10, <1>11 DEF Core
<1> QED BY <1>1, <1>9, <1>12 DEF Inv

(* The record of a dropped handle goes; its joins remain pending.          *)
LEMMA HandleUnregisterKeeps ==
  ASSUME Inv, HandleLifecycle, Head(lifecycle).kind = "Unregister"
  PROVE  Inv'
<1> DEFINE c == Head(lifecycle)
           later == Tail(lifecycle)
           W == Owes(unanswered, ending)
           e == IF connected THEN ConnectedUnregister(driver) ELSE Unregister(driver)
<1>1. /\ c \in LifecycleCommands /\ lifecycle' = later
      /\ ToSet(lifecycle) = ToSet(later) \cup {c}
      /\ handles <= 1 => \A j, k \in DOMAIN later :
           later[j] = RegisterCommand /\ later[k] = RegisterCommand => j = k
      /\ UNCHANGED <<commands, workload, caller, handles, live_handle>>
  BY LifecycleTaken
<1>2. e = LifecycleEffect(c)
  BY DEF LifecycleEffect
<1>3. /\ Rested(driver, workload, connected, W)
      /\ FirstHandle(driver, lifecycle, handles, caller)
      /\ Steady(driver, W) /\ Once(driver) /\ Buffered(driver)
      /\ driver.wire = {}
  BY DEF Inv, Core, Rested
<1>4. /\ Steady(e, W) /\ Moves(driver, e, {})
      /\ ~e.registered /\ e.capacity = driver.capacity /\ e.queued = <<>>
      /\ e.pending_joins = driver.pending_joins /\ OnItsWay(e)
      /\ ~connected => Calm(driver, e)
  <2> HIDE DEF W
  <2>1. CASE connected
    BY <1>3, <2>1, ConnectedUnregisterKeeps
  <2>2. CASE ~connected
    BY <1>3, <2>2, UnregisterKeeps
  <2> QED BY <2>1, <2>2
<1> HIDE DEF e, c, later
<1>5. Buffered(e) /\ Shown(e)
  BY <1>3, <1>4 DEF Buffered, Shown, Steady, Drivers
<1>6. /\ Rested(driver', workload, connected', Owes(unanswered', ending'))
      /\ Served(workload, unanswered', live', ending')
      /\ Accounted(driver', commands, later, caller)
      /\ Shaped' /\ driver'.registered = e.registered
      /\ driver'.pending_joins \subseteq e.pending_joins
      /\ Shown(e) => Shown(driver')
      /\ connected' => (OnItsWay(e) => OnItsWay(driver'))
  <2>1. ~connected => /\ e.wire = {} /\ Chan(e.proto).state \notin Active
                      /\ e.proto.next_reference = driver.proto.next_reference
    BY <1>3, <1>4 DEF Rested, Calm, Active, P!Absent
  <2> QED BY <1>2, <1>4, <1>5, <2>1, RecordStep DEF c, later, W
<1>7. Visible(driver', later, connected')
  BY <1>4, <1>5, <1>6 DEF Visible
<1>8. FirstHandle(driver', later, handles, caller)
  <2> SUFFICES ASSUME handles <= 1
               PROVE  /\ \A j, k \in DOMAIN later :
                           later[j] = RegisterCommand /\ later[k] = RegisterCommand
                             => j = k
                      /\ handles = 0 \/ RegisterCommand \in ToSet(later) =>
                           ~driver'.registered /\ driver'.pending_joins = {}
                      /\ handles = 0 => RegisterCommand \notin ToSet(later)
                      /\ Clear(driver') \/ Given(driver', caller)
    BY DEF FirstHandle
  <2>1. /\ handles = 0 \/ RegisterCommand \in ToSet(later) =>
             driver.pending_joins = {}
        /\ handles = 0 => RegisterCommand \notin ToSet(later)
    BY <1>1, <1>3 DEF FirstHandle
  <2>2. ~driver'.registered
    BY <1>4, <1>6
  <2> QED BY <1>1, <1>4, <1>6, <2>1, <2>2 DEF Clear
<1>9. Core(driver', workload, connected', unanswered', live', ending', commands, later,
           caller, handles)
  BY <1>6, <1>7, <1>8 DEF Core
<1> QED BY <1>1, <1>6, <1>9 DEF Inv

(* Any lifecycle command.                                                  *)
LEMMA HandleLifecycleKeeps ==
  ASSUME Inv, HandleLifecycle
  PROVE  Inv'
<1>1. Head(lifecycle) \in LifecycleCommands
  BY LifecycleTaken
<1>2. Head(lifecycle).kind \in {"Register", "Unregister", "Cancel"}
  BY <1>1 DEF LifecycleCommands
<1> QED BY <1>2, HandleRegisterKeeps, HandleUnregisterKeeps, HandleCancelKeeps

---------------------------------------------------------------------------
(* Frames of the server.                                                   *)

(* A frame is handled that the server may send, being left with no more    *)
(* than V of the requests W that it owed.                                  *)
LEMMA FrameKeeps ==
  ASSUME Inv, Idle, NEW f, NEW n, NEW ok \in BOOLEAN,
         NEW owed, NEW speaking, NEW closing,
         HandleFrame(f, n, ok, owed, speaking, closing),
         NEW W, NEW V, Steady(driver, W), W \subseteq Owings, Spoken(driver, f, W, V),
         f.event = "phx_reply" => Extent(driver, n, ok),
         Allowed(workload, V, owed, speaking, closing)
  PROVE  Inv'
<1> DEFINE e == Incoming(driver, f, n, ok)
<1>1. /\ driver' = Landed(e, ok) /\ connected' = ok /\ connections' = connections
      /\ unanswered' = WithSent(owed, e, ok)
      /\ live' = Remains(speaking, ok) /\ ending' = Remains(closing, ok)
      /\ e.proto.next_reference <= workload.references
  BY DEF HandleFrame, Handled, Server, Landed, Remains, WithSent
<1>2. /\ connected
      /\ UNCHANGED <<commands, lifecycle, workload, caller, handles, live_handle>>
  BY DEF Idle, handleVars
<1>3. /\ Once(driver) /\ Buffered(driver) /\ driver.wire = {}
      /\ driver.capacity = workload.capacity
      /\ Accounted(driver, commands, lifecycle, caller)
  BY Resting
<1>4. /\ Steady(e, V) /\ Moves(driver, e, {})
      /\ e.capacity = driver.capacity /\ e.registered = driver.registered
      /\ Len(e.queued) <= Len(driver.queued)
      /\ ok => Done(driver, e, {}) /\ (OnItsWay(driver) => OnItsWay(e))
  BY <1>3, IncomingKeeps
<1> HIDE DEF e
<1>5. Len(e.queued) <= e.capacity
  <2>1. /\ Len(e.queued) \in Nat /\ Len(driver.queued) \in Nat
        /\ driver.capacity \in Nat
    <3>1. e.queued \in Seq(Pushes) /\ driver.queued \in Seq(Pushes)
      BY <1>4 DEF Steady, Drivers
    <3> QED BY <1>3, <3>1, Bounded
  <2>2. Len(driver.queued) <= driver.capacity
    BY <1>3 DEF Buffered
  <2> QED BY <1>4, <2>1, <2>2
<1>6. Advance(driver, e, {}, {})
  BY <1>3, <1>4, AdvanceMoves
<1>7. ok => /\ Buffered(e) /\ Follows(driver, e) /\ (Shown(driver) => Shown(e))
            /\ (OnItsWay(driver) => OnItsWay(e))
  <2> SUFFICES ASSUME ok
               PROVE  /\ Buffered(e) /\ Follows(driver, e)
                      /\ (Shown(driver) => Shown(e))
                      /\ (OnItsWay(driver) => OnItsWay(e))
    OBVIOUS
  <2> QED BY <1>3, <1>4, DoneFollows
<1>8. Ready(driver, e, workload, {}, {}, ok)
  BY <1>1, <1>3, <1>4, <1>5, <1>6, <1>7 DEF Ready, Moves
<1>9. Taken(commands, commands, {}, lifecycle, lifecycle, handles) /\ Gone(caller, {})
  BY <1>3 DEF Taken, Gone, Accounted, Inv, Core, FirstHandle
<1>10. Core(driver, workload, TRUE, unanswered, live, ending, commands, lifecycle,
            caller, handles)
  <2>1. connected = TRUE
    BY <1>2 DEF Inv, Shaped
  <2> QED BY <2>1 DEF Inv
<1>11. Core(Landed(e, ok), workload, ok, WithSent(owed, e, ok),
            Remains(speaking, ok), Remains(closing, ok), commands, lifecycle, caller,
            handles)
  BY <1>4, <1>8, <1>9, <1>10, HandlerKeeps
<1>12. Shaped'
  BY <1>1, <1>2 DEF Inv, Shaped
<1> QED BY <1>1, <1>2, <1>11, <1>12 DEF Inv

(* The requests of the server are what the driver may be owed.             *)
LEMMA ServerHas ==
  ASSUME Inv
  PROVE  /\ unanswered \subseteq Asks
         /\ live \cup ending \subseteq 1..workload.references
         /\ Owes(unanswered, ending) \subseteq Owings
<1>1. /\ unanswered \subseteq Asks
      /\ live \cup ending \subseteq 1..workload.references
  BY DEF Inv, Core, Served
<1>2. 1..workload.references \subseteq Nat
  BY Bounded
<1>3. Owes(unanswered, ending) \subseteq Owings
  BY <1>1, <1>2 DEF Owes, Ended, Owings, Asks
<1> QED BY <1>1, <1>3

(* A flush gets as far as the buffer goes.                                 *)
LEMMA ExtentOfFlush ==
  ASSUME NEW n \in 0..Len(driver.queued), NEW ok \in BOOLEAN, FlushExtent(n, ok)
  PROVE  Extent(driver, n, ok)
BY DEF FlushExtent, Extent

(* The server ends a generation, and answers its join no more.             *)
LEMMA HandleTerminationKeeps ==
  ASSUME Inv, HandleTermination
  PROVE  Inv'
<1>1. PICK g \in live, kind \in {"phx_close", "phx_error"} :
        HandleFrame(Frame(kind, g, 0, "none"), 0, TRUE,
                    {q \in unanswered : q.kind # "Join" \/ q.ref # g},
                    live \ {g}, ending)
  BY DEF HandleTermination
<1> DEFINE f == Frame(kind, g, 0, "none")
           owed == {q \in unanswered : q.kind # "Join" \/ q.ref # g}
           speaking == live \ {g}
           V == Owes(owed, ending)
           W == Owes(unanswered, ending)
<1>2. Idle /\ HandleFrame(f, 0, TRUE, owed, speaking, ending)
  BY <1>1 DEF HandleTermination
<1>3. Steady(driver, W) /\ W \subseteq Owings
  BY Resting, ServerHas
<1>4. g # 0
  BY ServerHas, Bounded
<1>5. /\ f.event = kind /\ f.topic = Topic /\ f.join_ref = g
  BY DEF Frame
<1>6. V \subseteq W
  BY DEF Owes
<1>7. \A q \in V : q.kind = "Join" => q.ref # g
  BY DEF Owes, Ended
<1>8. Allowed(workload, V, owed, speaking, ending)
  BY ServerHas DEF Allowed
<1> HIDE DEF f, owed, speaking, V, W
<1>9. Spoken(driver, f, W, V)
  BY <1>4, <1>5, <1>6, <1>7 DEF Spoken
<1>10. f.event # "phx_reply"
  BY <1>5
<1> QED BY <1>2, <1>3, <1>8, <1>9, <1>10, FrameKeeps

(* The close that follows the answer of a leave: of a generation that is   *)
(* over, whose join is answered.                                           *)
LEMMA HandleFinalCloseKeeps ==
  ASSUME Inv, HandleFinalClose
  PROVE  Inv'
<1>1. PICK g \in ending :
        HandleFrame(Frame("phx_close", g, 0, "none"), 0, TRUE,
                    unanswered, live, ending \ {g})
  BY DEF HandleFinalClose
<1> DEFINE f == Frame("phx_close", g, 0, "none")
           closing == ending \ {g}
           W == Owes(unanswered, ending)
           left == [kind |-> "Left", ref |-> 0, join_ref |-> g]
<1>2. Idle /\ HandleFrame(f, 0, TRUE, unanswered, live, closing)
  BY <1>1 DEF HandleFinalClose
<1>3. Steady(driver, W) /\ W \subseteq Owings
  BY Resting, ServerHas
<1>4. g # 0
  BY ServerHas, Bounded
<1>5. f.event = "phx_close" /\ f.topic = Topic /\ f.join_ref = g
  BY DEF Frame
<1>6. left \in W
  BY DEF Owes, Ended
<1>7. Allowed(workload, W, unanswered, live, closing)
  BY ServerHas DEF Allowed, Owes, Ended
<1> HIDE DEF f, closing, W
<1>8. ASSUME g = JoinRef(driver), NEW q \in W, q.kind = "Join"
      PROVE  q.ref # JoinRef(driver)
  <2>1. Sent(driver, left) /\ Sent(driver, q)
    BY <1>3, <1>6, <1>8 DEF Steady, Owing
  <2>2. Chan(driver.proto).state # "Joining"
    BY <1>8, <2>1 DEF Sent
  <2> QED BY <1>8, <2>1, <2>2 DEF Sent
<1>9. Spoken(driver, f, W, W)
  BY <1>4, <1>5, <1>8 DEF Spoken
<1>10. f.event # "phx_reply"
  BY <1>5
<1> QED BY <1>2, <1>3, <1>7, <1>9, <1>10, FrameKeeps

(* A leave that is to be answered may be answered by the close as well.    *)
LEMMA LeftIsOwed ==
  ASSUME NEW d, NEW W, Steady(d, W), NEW q \in W, q.kind = "Leave"
  PROVE  Steady(d, W \cup Ended({q.join_ref}))
<1> DEFINE left == [kind |-> "Left", ref |-> 0, join_ref |-> q.join_ref]
<1>1. Sent(d, q)
  BY DEF Steady, Owing
<1>2. \A x \in d.proto.pending : x.ref # 0
  BY StateFacts DEF Steady, Numbered
<1>3. Sent(d, left)
  BY <1>1, <1>2 DEF Sent
<1>4. Ended({q.join_ref}) = {left}
  BY DEF Ended
<1> HIDE DEF left
<1> QED BY <1>3, <1>4 DEF Steady, Owing

(* An answer; that of a leave lets the generation close.                   *)
LEMMA ReplyKeeps ==
  ASSUME Inv, Idle, NEW q \in unanswered, NEW status, NEW ok \in BOOLEAN,
         NEW n \in 0..Len(driver.queued), FlushExtent(n, ok),
         NEW speaking, speaking \subseteq live,
         NEW closing, closing \subseteq ending
                        \cup IF q.kind = "Leave" THEN live \cap {q.join_ref} ELSE {},
         HandleFrame(Reply(q, status), n, ok, unanswered \ {q}, speaking, closing)
  PROVE  Inv'
<1> DEFINE f == Reply(q, status)
           owed == unanswered \ {q}
           W == Owes(unanswered, ending)
           X == IF q.kind = "Leave" THEN W \cup Ended({q.join_ref}) ELSE W
           V == X \ {q}
<1>1. /\ f.event = "phx_reply" /\ f.topic = Topic
      /\ f.join_ref = q.join_ref /\ f.ref = q.ref
  BY DEF Reply, Frame
<1>2. q \in Asks /\ q \in W
  BY ServerHas DEF Owes
<1>3. Steady(driver, W) /\ W \subseteq Owings
  BY Resting, ServerHas
<1>4. q.kind \in {"Join", "Leave", "Push"} /\ q.join_ref \in Nat
  BY <1>2 DEF Asks
<1>5. q.join_ref # 0
  <2>1. Sent(driver, q)
    BY <1>2, <1>3, <1>4 DEF Steady, Owing
  <2> QED BY <2>1, Bounded DEF Sent
<1>6. Ended({q.join_ref}) \subseteq Owings
  BY <1>4 DEF Ended, Owings
<1>7. Owes(owed, closing) \subseteq V
  <2>1. \A x \in Ended(closing) : x # q
    BY <1>4 DEF Ended
  <2>2. Ended(closing) \subseteq X
    BY DEF Ended, Owes
  <2>3. owed \subseteq V
    BY DEF Owes
  <2> QED BY <2>1, <2>2, <2>3 DEF Owes
<1>8. Allowed(workload, V, owed, speaking, closing)
  <2>1. closing \subseteq ending \cup live
    OBVIOUS
  <2>2. owed \subseteq Asks /\ speaking \cup closing \subseteq 1..workload.references
    BY <2>1, ServerHas
  <2> HIDE DEF V, owed
  <2> QED BY <1>7, <2>2 DEF Allowed
<1> HIDE DEF f, W
<1>9. Steady(driver, X) /\ X \subseteq Owings /\ q \in X
  BY <1>2, <1>3, <1>6, LeftIsOwed
<1> HIDE DEF X, owed
<1>10. Spoken(driver, f, X, V)
  <2>1. q.kind # "Cast" /\ V = X \ {q}
    BY <1>4
  <2>2. V \subseteq X
    OBVIOUS
  <2> HIDE DEF V
  <2> QED BY <1>1, <1>5, <1>9, <2>1, <2>2 DEF Spoken
<1>11. Extent(driver, n, ok)
  BY ExtentOfFlush
<1>12. HandleFrame(f, n, ok, owed, speaking, closing)
  BY DEF f, owed
<1> HIDE DEF V
<1> QED BY <1>8, <1>9, <1>10, <1>11, <1>12, FrameKeeps

(* A frame of the server.                                                  *)
LEMMA HandleReplyKeeps ==
  ASSUME Inv, HandleReply
  PROVE  Inv'
<1>1. PICK q \in unanswered, status \in {"ok", "error"}, ok \in BOOLEAN,
           n \in 0..Len(driver.queued) :
        /\ FlushExtent(n, ok)
        /\ HandleFrame(Reply(q, status), n, ok, unanswered \ {q},
             IF q.kind = "Leave" \/ (q.kind = "Join" /\ status = "error")
               THEN live \ {q.join_ref} ELSE live,
             IF q.kind = "Leave" THEN ending \cup (live \cap {q.join_ref})
                                 ELSE ending)
  BY DEF HandleReply
<1> DEFINE speaking == IF q.kind = "Leave" \/ (q.kind = "Join" /\ status = "error")
                         THEN live \ {q.join_ref} ELSE live
           closing == IF q.kind = "Leave" THEN ending \cup (live \cap {q.join_ref})
                                          ELSE ending
<1>2. Idle
  BY DEF HandleReply
<1>3. HandleFrame(Reply(q, status), n, ok, unanswered \ {q}, speaking, closing)
  BY <1>1
<1>4. speaking \subseteq live
  OBVIOUS
<1>5. closing \subseteq ending
         \cup IF q.kind = "Leave" THEN live \cap {q.join_ref} ELSE {}
  OBVIOUS
<1> HIDE DEF speaking, closing
<1> QED BY <1>1, <1>2, <1>3, <1>4, <1>5, ReplyKeeps

(* A reply that does not decode.                                           *)
LEMMA HandleInvalidReplyKeeps ==
  ASSUME Inv, HandleInvalidReply
  PROVE  Inv'
<1>1. PICK q \in unanswered :
        driver' = Disconnected([driver EXCEPT
                    !.proto = P!Receive(@, Reply(q, "invalid"))])
  BY DEF HandleInvalidReply
<1> DEFINE f == Reply(q, "invalid")
           d == Received(driver, f)
           W == Owes(unanswered, ending)
           V == W \ {q}
<1>2. /\ f.event = "phx_reply" /\ f.topic = Topic
      /\ f.join_ref = q.join_ref /\ f.ref = q.ref
  BY DEF Reply, Frame
<1>3. q \in Asks /\ q \in W
  BY ServerHas DEF Owes
<1>4. /\ Steady(driver, W) /\ W \subseteq Owings /\ Once(driver) /\ driver.wire = {}
      /\ Buffered(driver) /\ driver.proto.next_reference <= workload.references
  <2>1. Steady(driver, W) /\ W \subseteq Owings
    BY Resting, ServerHas
  <2>2. /\ Once(driver) /\ driver.wire = {}
        /\ Buffered(driver) /\ driver.proto.next_reference <= workload.references
    BY DEF Inv, Core, Rested
  <2> QED BY <2>1, <2>2
<1>5. q.kind \in {"Join", "Leave", "Push"} /\ q.join_ref \in Nat
  BY <1>3 DEF Asks
<1>6. q.join_ref # 0
  <2>1. Sent(driver, q)
    BY <1>3, <1>4, <1>5 DEF Steady, Owing
  <2> QED BY <2>1, Bounded DEF Sent
<1> HIDE DEF f, W
<1>7. Spoken(driver, f, W, V)
  BY <1>2, <1>3, <1>5, <1>6 DEF Spoken
<1> HIDE DEF V
<1>8. Steady(d, V) /\ Alike(driver, d, {"proto"})
  BY <1>4, <1>7, ReceivedSteady
<1>9. d.proto.next_reference = driver.proto.next_reference
  <2>1. driver.proto \in P!ProtocolState /\ Tidy(driver.proto)
    BY <1>4 DEF Steady, Drivers
  <2>2. P!Receive(driver.proto, f).next_reference = driver.proto.next_reference
    BY <1>2, <2>1, ReceiveEffect
  <2>3. d.proto = P!Receive(driver.proto, f)
    BY <1>4 DEF Received, Steady, Drivers
  <2> QED BY <2>2, <2>3
<1>10. driver' = Disconnected(d)
  BY <1>1 DEF Received, f
<1> HIDE DEF d
<1>11. /\ d.wire = {} /\ d.capacity = driver.capacity /\ d.registered = driver.registered
       /\ d.queued = driver.queued
  BY <1>4, <1>8, AlikeFields
<1>12. Moves(driver, d, {})
  <2>1. Alike(driver, d, Fields \ Holding)
    BY <1>8 DEF Alike, Fields, Holding
  <2> QED BY <1>4, <2>1, KeepsAll
<1>13. Len(d.queued) <= d.capacity
  BY <1>4, <1>11 DEF Buffered
<1>14. Once(d)
  BY <1>12 DEF Moves
<1>15. /\ connected' = FALSE /\ Server({}, {}, {}, FALSE)
       /\ UNCHANGED <<workload, connections, commands, lifecycle, caller, handles,
                      live_handle>>
  BY DEF HandleInvalidReply, Idle, handleVars
<1>16. d.proto.next_reference <= workload.references
  BY <1>4, <1>9
<1> QED BY <1>8, <1>10, <1>11, <1>12, <1>13, <1>14, <1>15, <1>16, OfflineKeeps

---------------------------------------------------------------------------
(* The invariant holds.                                                    *)

(* A driver that has done nothing.                                         *)
LEMMA NewDriverRests ==
  ASSUME NEW w \in Workloads
  PROVE  LET d == NewDriver(w.capacity)
         IN  /\ Rested(d, w, FALSE, {}) /\ ~d.registered /\ d.pending_joins = {}
             /\ \A i \in Ids : New(d, i)
             /\ Closed(d) = {}
<1> DEFINE d == NewDriver(w.capacity)
           p == P!NewProtocol
<1>1. w.capacity \in Nat /\ w.references \in Nat
  BY DriverBounds
<1>2. /\ p \in P!ProtocolState /\ Chan(p) = P!Absent /\ p.pending = {}
      /\ p.next_reference = 0 /\ P!Absent.state = "Absent" /\ P!Absent.join_ref = 0
  BY DEF P!NewProtocol, P!ProtocolState, P!Absent, P!ChannelRecord, P!InactiveStates,
         Chan
<1> HIDE DEF p
<1>3. /\ d.proto = p /\ ~d.registered /\ ~d.desired /\ ~d.ever_joined
      /\ d.active_payload = 0 /\ ~d.rejoin_scheduled /\ d.join_waiters = {}
      /\ d.queued = <<>> /\ d.deferred_leave = NoLeave /\ d.status = "Closed"
      /\ d.pending_joins = {} /\ d.pending_calls = {} /\ d.pending_leaves = {}
      /\ d.loads = {} /\ d.rejoins = 0 /\ d.op_timeouts = {}
      /\ d.capacity = w.capacity /\ d.wire = {} /\ d.sent = <<>>
      /\ \A i \in Ids : d.answer[i] = "none"
  BY DEF NewDriver, p
<1>4. d \in Drivers
  <2>1. "Closed" \in Statuses /\ [i \in Ids |-> "none"] \in [Ids -> Answers]
    BY DEF Statuses, Answers
  <2> QED BY <1>1, <1>2, <2>1 DEF NewDriver, Drivers, p
<1> HIDE DEF d
<1>5. /\ ToSet(d.queued) = {} /\ ToSet(d.sent) = {} /\ Len(d.queued) = 0
      /\ IsInjective(d.queued) /\ IsInjective(d.sent)
  BY <1>3 DEF ToSet, IsInjective
<1>6. ~NoLeave.open /\ NoLeave.id \notin Leaves
  BY DriverAssumption DEF NoLeave
<1>7. \A i : ~Has(d, i)
  BY <1>3, <1>5, <1>6 DEF Has
<1>8. Once(d)
  BY <1>3, <1>5, <1>6, <1>7 DEF Once
<1>9. Tidy(d.proto) /\ Numbered(d) /\ Watched(d) /\ Tracked(d)
  BY <1>2, <1>3 DEF Tidy, Numbered, Watched, Tracked, JoinRef, Chan
<1>10. Timed(d)
  BY <1>2, <1>3, FS_EmptySet DEF Timed, Active
<1>11. Unrecorded(d)
  BY <1>2, <1>3 DEF Unrecorded
<1>12. Owing(d, {})
  BY <1>3 DEF Owing
<1>13. Steady(d, {})
  BY <1>4, <1>9, <1>10, <1>11, <1>12 DEF Steady
<1>14. Buffered(d)
  BY <1>1, <1>3, <1>5 DEF Buffered
<1>15. Rested(d, w, FALSE, {})
  BY <1>1, <1>2, <1>3, <1>8, <1>13, <1>14 DEF Rested, Active
<1>16. \A i \in Ids : New(d, i)
  BY <1>3, <1>5, <1>7 DEF New
<1>17. Closed(d) = {}
  BY <1>3, <1>6 DEF Closed
<1> QED BY <1>3, <1>15, <1>16, <1>17 DEF d

(* The first state.                                                        *)
LEMMA InitHolds == Init => Inv
<1> SUFFICES ASSUME Init
             PROVE  Inv
  OBVIOUS
<1>1. /\ workload \in Workloads /\ driver = NewDriver(workload.capacity)
      /\ connected = FALSE /\ connections = 0 /\ commands = <<>> /\ lifecycle = <<>>
      /\ caller = [i \in Ids |-> "idle"] /\ handles = 0 /\ live_handle = FALSE
      /\ unanswered = {} /\ live = {} /\ ending = {}
  BY DEF Init
<1>2. /\ Rested(driver, workload, FALSE, {}) /\ ~driver.registered
      /\ driver.pending_joins = {}
      /\ \A i \in Ids : New(driver, i)
      /\ Closed(driver) = {}
  BY <1>1, NewDriverRests
<1>3. workload.handles \in Nat
  BY <1>1, DriverBounds
<1>4. ToSet(commands) = {} /\ ToSet(lifecycle) = {} /\ IsInjective(commands)
      /\ commands \in Seq(Ids) /\ lifecycle \in Seq(LifecycleCommands)
      /\ DOMAIN lifecycle = {}
  BY <1>1 DEF ToSet, IsInjective
<1>5. Shaped
  <2>1. connections \in 0..MaxConnections /\ handles \in 0..workload.handles
    BY <1>1, <1>3, DriverBounds
  <2>2. caller \in [Ids -> {"idle", "waiting", "gone"}]
    BY <1>1
  <2> QED BY <1>1, <1>4, <2>1, <2>2 DEF Shaped
<1>6. Owes({}, {}) = {}
  BY DEF Owes, Ended
<1>7. Served(workload, {}, {}, {})
  BY DEF Served
<1>8. Accounted(driver, commands, lifecycle, caller)
  BY <1>1, <1>2, <1>4 DEF Accounted
<1>9. Visible(driver, lifecycle, FALSE)
  BY <1>2 DEF Visible, Shown
<1>10. FirstHandle(driver, lifecycle, handles, caller)
  BY <1>1, <1>2, <1>4 DEF FirstHandle, Clear
<1> QED BY <1>1, <1>2, <1>5, <1>6, <1>7, <1>8, <1>9, <1>10 DEF Inv, Core

(* Every step.                                                             *)
LEMMA NextKeeps == Inv /\ [Next]_vars => Inv'
<1> SUFFICES ASSUME Inv, [Next]_vars
             PROVE  Inv'
  OBVIOUS
<1>1. CASE CreateHandle
  BY <1>1, CreateHandleKeeps
<1>2. CASE DropHandle
  BY <1>2, DropHandleKeeps
<1>3. ASSUME NEW id \in Ids, Request(id)
      PROVE  Inv'
  BY <1>3, RequestKeeps
<1>4. ASSUME NEW id \in Ids, GiveUp(id)
      PROVE  Inv'
  BY <1>4, GiveUpKeeps
<1>5. CASE HandleLifecycle
  BY <1>5, HandleLifecycleKeeps
<1>6. CASE HandleCommand
  BY <1>6, HandleCommandKeeps
<1>7. CASE HandleOfflineCommand
  BY <1>7, HandleOfflineCommandKeeps
<1>8. CASE HandlePayload
  BY <1>8, HandlePayloadKeeps
<1>9. CASE HandleRejoin
  BY <1>9, HandleRejoinKeeps
<1>10. CASE HandleOperationTimeout
  BY <1>10, HandleOperationTimeoutKeeps
<1>11. CASE HandleReply
  BY <1>11, HandleReplyKeeps
<1>12. CASE HandleInvalidReply
  BY <1>12, HandleInvalidReplyKeeps
<1>13. CASE HandleTermination
  BY <1>13, HandleTerminationKeeps
<1>14. CASE HandleFinalClose
  BY <1>14, HandleFinalCloseKeeps
<1>15. CASE Connect
  BY <1>15, ConnectKeeps
<1>16. CASE LoseConnection
  BY <1>16, LoseConnectionKeeps
<1>17. CASE UNCHANGED vars
  BY <1>17 DEF vars, Inv, Shaped
<1> QED BY <1>1, <1>2, <1>3, <1>4, <1>5, <1>6, <1>7, <1>8, <1>9, <1>10, <1>11, <1>12,
           <1>13, <1>14, <1>15, <1>16, <1>17 DEF Next

(* The inductive invariant: between two handlers the driver's tables, the  *)
(* protocol's, the queues, the callers and what the server owes agree.     *)
THEOREM DriverInvariant == Spec => []Inv
BY InitHolds, NextKeeps, PTL DEF Spec

---------------------------------------------------------------------------
(* What the invariant means for the application.                           *)

(* The types are among it.                                                 *)
LEMMA InvTyped == Inv => TypeOK
<1> SUFFICES ASSUME Inv
             PROVE  TypeOK
  OBVIOUS
<1> DEFINE W == Owes(unanswered, ending)
<1>1. /\ Steady(driver, W) /\ driver.wire = {}
      /\ driver.capacity = workload.capacity
  BY Resting
<1>2. /\ driver \in Drivers /\ Numbered(driver) /\ Timed(driver)
      /\ Unrecorded(driver) /\ Owing(driver, W)
  BY <1>1 DEF Steady
<1>3. 1..driver.proto.next_reference \subseteq References
  BY Bounded DEF References
<1>4. /\ driver.pending_joins \subseteq References
      /\ \A call \in driver.pending_calls : call.ref \in References
      /\ \A pending \in driver.pending_leaves : pending.ref \in References
      /\ \A timeout \in driver.op_timeouts : timeout.ref \in References
  BY <1>2, <1>3 DEF Numbered
<1>5. driver.pending_calls \subseteq [ref : References, id : Calls]
  BY <1>2, <1>4 DEF Drivers
<1>6. driver.pending_leaves \subseteq [ref : References, id : Leaves, open : BOOLEAN]
  BY <1>2, <1>4 DEF Drivers
<1>7. driver.op_timeouts \subseteq [kind : {"Join", "Leave"}, ref : References]
  BY <1>2, <1>4 DEF Drivers
<1>8. ~driver.registered => driver = FreshRecord(driver)
  BY <1>2 DEF Unrecorded, FreshRecord, Drivers
<1>9. unanswered \subseteq [kind : {"Join", "Leave", "Push"},
                            ref : References, join_ref : References]
  <2>1. ASSUME NEW q \in unanswered
        PROVE  /\ q \in Asks /\ q.ref \in References /\ q.join_ref \in References
    <3>1. q \in Asks /\ q \in W
      BY ServerHas DEF Owes
    <3>2. q.kind \in {"Join", "Leave", "Push"}
      BY <3>1 DEF Asks
    <3>3. Sent(driver, q)
      BY <1>2, <3>1, <3>2 DEF Owing
    <3> QED BY <1>3, <3>1, <3>2, <3>3 DEF Sent
  <2> QED BY <2>1 DEF Asks
<1>10. live \cup ending \subseteq References
  BY ServerHas DEF References
<1>11. /\ driver.active_payload \in driver.loads \cup {0}
  BY <1>2 DEF Timed
<1>12. \A b \in {driver.registered, driver.desired, driver.ever_joined,
                driver.rejoin_scheduled, connected, live_handle} : b \in BOOLEAN
  BY <1>2 DEF Drivers, Inv, Shaped
<1>13. /\ driver.proto \in P!ProtocolState /\ driver.join_waiters \subseteq Joins
       /\ driver.queued \in Seq(Pushes) /\ driver.sent \in Seq(Pushes)
       /\ driver.deferred_leave \in [id : Leaves, open : BOOLEAN] \cup {NoLeave}
       /\ driver.status \in {"WaitingForSocket", "WaitingToJoin", "Joining",
                             "Joined", "Leaving", "Left", "Errored", "Closed"}
       /\ driver.loads \subseteq Nat /\ driver.rejoins \in Nat
       /\ driver.answer \in [Ids -> {"none", "ok", "failed", "interrupted"}]
  BY <1>2 DEF Drivers, Statuses, Answers
<1> HIDE DEF W
<1> QED BY <1>1, <1>4, <1>5, <1>6, <1>7, <1>8, <1>9, <1>10, <1>11, <1>12, <1>13
        DEF TypeOK, Inv, Shaped

(* Types.                                                                  *)
THEOREM DriverTypeCorrect == Spec => []TypeOK
BY DriverInvariant, InvTyped, PTL

(* A request is known to the driver where its response is held.            *)
LEMMA HasHolder ==
  ASSUME NEW id \in Ids
  PROVE  /\ Has(driver, id) <=> \/ id \in driver.join_waiters
                                \/ id \in ToSet(driver.queued)
                                \/ \E call \in driver.pending_calls : call.id = id
                                \/ id \in OpenLeave(driver.deferred_leave)
                                \/ id \in OpenLeaves(driver)
         /\ id \in OpenLeaves(driver) <=>
              \E pending \in driver.pending_leaves : pending.open /\ pending.id = id
         /\ id \in OpenLeave(driver.deferred_leave) <=>
              driver.deferred_leave.open /\ driver.deferred_leave.id = id
<1>1. id \in OpenLeaves(driver) <=>
        \E pending \in driver.pending_leaves : pending.open /\ pending.id = id
  BY DEF OpenLeaves, OpenLeave
<1>2. id \in OpenLeave(driver.deferred_leave) <=>
        driver.deferred_leave.open /\ driver.deferred_leave.id = id
  BY DEF OpenLeave
<1> QED BY <1>1, <1>2 DEF Has

(* One of six alternatives.                                                *)
LEMMA OneHolder ==
  ASSUME NEW id \in Ids,
         NEW name \in {"commands", "waiters", "queued", "calls", "deferred", "leaves"},
         id \in ToSet(commands) <=> name = "commands",
         id \in driver.join_waiters <=> name = "waiters",
         id \in ToSet(driver.queued) <=> name = "queued",
         (\E call \in driver.pending_calls : call.id = id) <=> name = "calls",
         id \in OpenLeave(driver.deferred_leave) <=> name = "deferred",
         id \in OpenLeaves(driver) <=> name = "leaves"
  PROVE  Cardinality(Holders(id)) = 1
<1>1. \A p \in {"commands", "waiters", "queued", "calls", "deferred", "leaves"} :
        (CASE p = "commands" -> id \in ToSet(commands)
           [] p = "waiters"  -> id \in driver.join_waiters
           [] p = "queued"   -> id \in ToSet(driver.queued)
           [] p = "calls"    -> \E call \in driver.pending_calls : call.id = id
           [] p = "deferred" -> id \in OpenLeave(driver.deferred_leave)
           [] p = "leaves"   -> id \in OpenLeaves(driver)) <=> p = name
  OBVIOUS
<1>2. Holders(id) = {name}
  BY <1>1 DEF Holders
<1> QED BY <1>2, FS_Singleton

(* A caller that waits is accounted for once.                              *)
LEMMA InvHolds == Inv => EveryRequestHeldOnce
<1> SUFFICES ASSUME Inv
             PROVE  EveryRequestHeldOnce
  OBVIOUS
<1>1. /\ Steady(driver, Owes(unanswered, ending)) /\ Once(driver)
      /\ Accounted(driver, commands, lifecycle, caller)
  BY Resting
<1>2. driver \in Drivers
  BY <1>1 DEF Steady
<1>3. ASSUME NEW id \in Ids, driver.answer[id] # "none"
      PROVE  Holders(id) = {}
  <2>1. ~Has(driver, id) /\ id \notin ToSet(commands)
    BY <1>1, <1>3 DEF Once, Accounted, New
  <2> QED BY <2>1, HasHolder DEF Holders
<1>4. ASSUME NEW id \in Ids, caller[id] = "waiting", driver.answer[id] = "none"
      PROVE  Cardinality(Holders(id)) = 1
  <2>1. Has(driver, id) \/ id \in ToSet(commands)
    BY <1>1, <1>4 DEF Accounted
  <2>2. id \in ToSet(commands) => ~Has(driver, id)
    BY <1>1 DEF Accounted, New
  <2>3. /\ id \in driver.join_waiters => id \in Joins
        /\ id \in ToSet(driver.queued) => id \in Pushes
        /\ (\E call \in driver.pending_calls : call.id = id) => id \in Pushes
        /\ driver.deferred_leave.open /\ driver.deferred_leave.id = id => id \in Leaves
        /\ (\E pending \in driver.pending_leaves : pending.open /\ pending.id = id) =>
             id \in Leaves
    BY <1>2, HeldIds DEF Drivers, Pushes, NoLeave
  <2>4. /\ id \in Joins => id \notin Leaves \cup Pushes
        /\ id \in Leaves => id \notin Pushes
    BY DriverAssumption
  <2>5. (\E call \in driver.pending_calls : call.id = id) =>
          id \notin ToSet(driver.queued)
    BY <1>1 DEF Once
  <2>6. driver.deferred_leave.open /\ driver.deferred_leave.id = id =>
          ~\E pending \in driver.pending_leaves : pending.open /\ pending.id = id
    BY <1>1 DEF Once
  <2>7. CASE id \in ToSet(commands)
    BY <2>2, <2>7, HasHolder, OneHolder
  <2>8. CASE id \in driver.join_waiters
    BY <2>2, <2>3, <2>4, <2>8, HasHolder, OneHolder
  <2>9. CASE id \in ToSet(driver.queued)
    BY <2>2, <2>3, <2>4, <2>5, <2>9, HasHolder, OneHolder
  <2>10. CASE \E call \in driver.pending_calls : call.id = id
    BY <2>2, <2>3, <2>4, <2>5, <2>10, HasHolder, OneHolder
  <2>11. CASE id \in OpenLeave(driver.deferred_leave)
    BY <2>2, <2>3, <2>4, <2>6, <2>11, HasHolder, OneHolder
  <2>12. CASE id \in OpenLeaves(driver)
    BY <2>2, <2>3, <2>4, <2>6, <2>12, HasHolder, OneHolder
  <2> QED BY <2>1, <2>7, <2>8, <2>9, <2>10, <2>11, <2>12, HasHolder
<1> QED BY <1>3, <1>4, InvTyped DEF EveryRequestHeldOnce

(* No request is lost or held twice: the response a caller waits for is in *)
(* one place of the driver until it is given, and in none afterwards.      *)
THEOREM RequestsHeldOnce == Spec => []EveryRequestHeldOnce
BY DriverInvariant, InvHolds, PTL

(* A sequence without repetitions is as long as it has elements.           *)
LEMMA DistinctElements ==
  ASSUME NEW S, NEW s \in Seq(S), IsInjective(s)
  PROVE  Cardinality(ToSet(s)) = Len(s)
<1> DEFINE D == 1..Len(s)
           T == ToSet(s)
<1>1. Len(s) \in Nat /\ DOMAIN s = D /\ s \in [D -> S]
  OBVIOUS
<1>2. IsFiniteSet(D) /\ Cardinality(D) = Len(s)
  BY <1>1, FS_Interval
<1>3. s \in Bijection(D, T)
  <2>1. s \in [D -> T]
    BY <1>1 DEF ToSet
  <2>2. \A y \in T : \E x \in D : s[x] = y
    BY <1>1 DEF ToSet
  <2>3. \A x, y \in D : s[x] = s[y] => x = y
    BY <1>1 DEF IsInjective
  <2> HIDE DEF D, T
  <2> QED BY <2>1, <2>2, <2>3 DEF Bijection, Injection, Surjection, IsInjective
<1>4. ExistsBijection(D, T)
  BY <1>3 DEF ExistsBijection
<1> HIDE DEF D, T
<1> QED BY <1>2, <1>4, FS_Bijection DEF T

(* No push is put on the wire twice.                                       *)
THEOREM PushesSentOnce == Spec => []SentAtMostOnce
<1>1. Inv => SentAtMostOnce
  <2> SUFFICES ASSUME Inv
               PROVE  SentAtMostOnce
    OBVIOUS
  <2>1. Once(driver) /\ driver.sent \in Seq(Pushes)
    BY Resting DEF Steady, Drivers
  <2>2. IsInjective(driver.sent)
    BY <2>1 DEF Once
  <2> QED BY <2>1, <2>2, DistinctElements DEF SentAtMostOnce
<1> QED BY <1>1, DriverInvariant, PTL

(* A channel that waits for the server has its watchdog.                   *)
THEOREM WatchdogsRun == Spec => []WaitingHasWatchdog
<1>1. Inv => WaitingHasWatchdog
  <2> SUFFICES ASSUME Inv
               PROVE  WaitingHasWatchdog
    OBVIOUS
  <2>1. Steady(driver, Owes(unanswered, ending))
    BY Resting
  <2>2. State(driver) = Chan(driver.proto).state /\ Watched(driver)
    BY <2>1, StateFacts DEF Steady
  <2> QED BY <2>2 DEF Watched, WaitingHasWatchdog
<1> QED BY <1>1, DriverInvariant, PTL

(* The application sees Joined exactly while it may push.                  *)
THEOREM StatusAgrees == Spec => []StatusIsJoinedWhenJoined
<1>1. Inv => StatusIsJoinedWhenJoined
  <2> SUFFICES ASSUME Inv
               PROVE  StatusIsJoinedWhenJoined
    OBVIOUS
  <2>1. State(driver) = Chan(driver.proto).state
    BY Resting, StateFacts
  <2>2. Visible(driver, lifecycle, connected)
    BY DEF Inv, Core
  <2> QED BY <2>1, <2>2 DEF Visible, Shown, StatusIsJoinedWhenJoined, Abandoned,
                            UnregisterCommand
<1> QED BY <1>1, DriverInvariant, PTL

(* The push buffer keeps its capacity, and is empty on a joined channel.   *)
THEOREM BufferBounded == Spec => []BufferWithinLimits
<1>1. Inv => BufferWithinLimits
  <2> SUFFICES ASSUME Inv
               PROVE  BufferWithinLimits
    OBVIOUS
  <2>1. State(driver) = Chan(driver.proto).state
    BY Resting, StateFacts
  <2>2. Buffered(driver) /\ driver.capacity = workload.capacity
    BY Resting
  <2>3. Len(<<>>) <= 0
    OBVIOUS
  <2> QED BY <2>1, <2>2, <2>3 DEF Buffered, BufferWithinLimits
<1> QED BY <1>1, DriverInvariant, PTL

(* The protocol and the driver track the same calls.                       *)
THEOREM TrackedPushesCalled == Spec => []TrackedPushesHaveCallers
<1>1. Inv => TrackedPushesHaveCallers
  <2> SUFFICES ASSUME Inv
               PROVE  TrackedPushesHaveCallers
    OBVIOUS
  <2>1. Tracked(driver)
    BY Resting DEF Steady
  <2> QED BY <2>1 DEF Tracked, TrackedPushesHaveCallers
<1> QED BY <1>1, DriverInvariant, PTL

(* A wanted channel is on its way, but for the case of a leave that a join *)
(* timed out under.                                                        *)
THEOREM WantedProgresses == Spec => []WantedUnlessLeftProgresses
<1>1. Inv => WantedUnlessLeftProgresses
  <2> SUFFICES ASSUME Inv, driver.status # "Left", ~Abandoned, connected,
                      driver.desired, State(driver) # "Joined"
               PROVE  Progresses
    BY DEF WantedUnlessLeftProgresses, WantedChannelProgresses
  <2>1. Steady(driver, Owes(unanswered, ending))
    BY Resting
  <2>2. State(driver) = Chan(driver.proto).state /\ Timed(driver)
    BY <2>1, StateFacts DEF Steady
  <2>3. OnItsWay(driver)
    BY DEF Inv, Core, Visible, Abandoned, UnregisterCommand
  <2> QED BY <2>2, <2>3 DEF OnItsWay, Timed, Progresses, Active
<1> QED BY <1>1, DriverInvariant, PTL

---------------------------------------------------------------------------
(* The timeouts of operations.                                             *)

Timers(d) == "op_timeouts" \in DOMAIN d

(* From d to e no timeout expires.                                         *)
Timing(d, e) == Timers(e) /\ d.op_timeouts \subseteq e.op_timeouts

(* What the handlers share.                                                *)
LEMMA HelpersTime ==
  ASSUME NEW d, Timers(d)
  PROVE  /\ \A requests, result : Timing(d, Answer(d, requests, result))
         /\ \A kind, ref : Timing(d, Send(d, kind, ref))
         /\ \A status : Timing(d, SetStatus(d, status))
         /\ Timing(d, ScheduleRejoin(d))
         /\ Timing(d, LoadPayload(d))
<1>1. \A requests, result : Timing(d, Answer(d, requests, result))
  BY DEF Timers, Timing, Answer
<1>2. \A kind, ref : Timing(d, Send(d, kind, ref))
  BY DEF Timers, Timing, Send
<1>3. \A status : Timing(d, SetStatus(d, status))
  BY DEF Timers, Timing, SetStatus
<1>4. Timing(d, ScheduleRejoin(d))
  BY DEF Timers, Timing, ScheduleRejoin
<1>5. Timing(d, LoadPayload(d))
  BY DEF Timers, Timing, LoadPayload
<1> QED BY <1>1, <1>2, <1>3, <1>4, <1>5

(* None of the operators a handler is composed of takes a timer:           *)
(* stop_channel.                                                           *)
LEMMA StopTimes ==
  ASSUME NEW d, Timers(d)
  PROVE  Timing(d, StopChannel(d))
<1> DEFINE s == [d EXCEPT !.desired = FALSE, !.active_payload = 0,
                          !.rejoin_scheduled = FALSE, !.deferred_leave = NoLeave,
                          !.join_waiters = {}, !.queued = <<>>]
<1>1. Timing(d, s)
  BY DEF Timers, Timing
<1>2. StopChannel(d) = Answer(s, Held(d), "interrupted")
  BY DEF StopChannel
<1> HIDE DEF s
<1> QED BY <1>1, <1>2, HelpersTime DEF Timing

(* A leave adds its own.                                                   *)
LEMMA StartLeaveTimes ==
  ASSUME NEW d, Timers(d), NEW pending
  PROVE  Timing(d, StartLeave(d, pending))
<1> DEFINE ref == P!NextRef(d.proto)
           s == [d EXCEPT
                   !.proto = P!Leave(@, Topic),
                   !.pending_leaves = @ \cup
                     {[ref |-> ref, id |-> pending.id, open |-> pending.open]},
                   !.op_timeouts = @ \cup {[kind |-> "Leave", ref |-> ref]}]
<1> HIDE DEF ref
<1>1. Timing(d, s)
  BY DEF Timers, Timing
<1>2. StartLeave(d, pending) = Send(s, "Leave", ref)
  BY DEF StartLeave, ref
<1> HIDE DEF s
<1> QED BY <1>1, <1>2, HelpersTime DEF Timing

(* What follows a leave.                                                   *)
LEMMA AfterLeaveTimes ==
  ASSUME NEW d, Timers(d)
  PROVE  Timing(d, AfterLeave(d))
<1>1. CASE d.desired
  <2> DEFINE s == SetStatus(d, "WaitingToJoin")
  <2>1. Timing(d, s)
    BY HelpersTime
  <2>2. AfterLeave(d) = LoadPayload(s)
    BY <1>1 DEF AfterLeave
  <2> HIDE DEF s
  <2> QED BY <2>1, <2>2, HelpersTime DEF Timing
<1>2. CASE ~d.desired
  BY <1>2, HelpersTime DEF AfterLeave
<1> QED BY <1>1, <1>2

(* A push.                                                                 *)
LEMMA SendPushTimes ==
  ASSUME NEW d, Timers(d), NEW id, NEW ok
  PROVE  Timing(d, SendPush(d, id, ok))
<1> DEFINE ref == P!NextRef(d.proto)
           call == [d EXCEPT !.proto = P!Push(@, Topic),
                             !.pending_calls = @ \cup {[ref |-> ref, id |-> id]},
                             !.sent = Append(@, id)]
           cast == [d EXCEPT !.sent = Append(@, id)]
           answered == Answer(cast, {id}, IF ok THEN "ok" ELSE "interrupted")
<1> HIDE DEF ref
<1>1. Timing(d, call) /\ Timing(d, cast)
  BY DEF Timers, Timing
<1>2. SendPush(d, id, ok) = IF id \in BinaryRefused THEN Answer(d, {id}, "failed")
                            ELSE IF id \in Calls THEN Send(call, "Push", ref)
                            ELSE Send(answered, "Cast", 0)
  BY DEF SendPush, ref
<1> HIDE DEF call, cast
<1>3. Timing(cast, answered)
  BY <1>1, HelpersTime DEF Timing
<1> HIDE DEF answered
<1>4. Timing(d, Answer(d, {id}, "failed")) /\ Timing(call, Send(call, "Push", ref))
      /\ Timing(answered, Send(answered, "Cast", 0))
  BY <1>1, <1>3, HelpersTime DEF Timing
<1> QED BY <1>1, <1>2, <1>3, <1>4 DEF Timing

(* A flush, push by push.                                                  *)
LEMMA FlushTimes ==
  ASSUME NEW d, Timers(d), NEW n \in Nat, NEW ok
  PROVE  Timing(d, Flush(d, n, ok))
<1> PICK e : FlushSteps(e, d, n, ok)
  BY FlushHasSteps
<1> DEFINE S == {k \in Nat : k <= n => Timing(d, e[k])}
<1>1. 0 \in S
  BY DEF FlushSteps, Timing
<1>2. ASSUME NEW k \in S
      PROVE  k + 1 \in S
  <2> SUFFICES ASSUME k + 1 <= n
               PROVE  Timing(d, e[k + 1])
    OBVIOUS
  <2> DEFINE c == [e[k] EXCEPT !.queued = Tail(@)]
  <2>1. Timing(d, e[k]) /\ k + 1 \in 1..n /\ (k + 1) - 1 = k
    OBVIOUS
  <2>2. e[k + 1] = SendPush(c, d.queued[k + 1], ok \/ k + 1 < n)
    BY <2>1 DEF FlushSteps
  <2>3. Timing(e[k], c)
    BY <2>1 DEF Timing, Timers
  <2> HIDE DEF c
  <2>4. Timing(c, e[k + 1])
    BY <2>2, <2>3, SendPushTimes DEF Timing
  <2> QED BY <2>1, <2>3, <2>4 DEF Timing
<1> HIDE DEF S
<1>3. n \in S
  BY <1>1, <1>2, Induction
<1> QED BY <1>3 DEF S, FlushSteps

(* The push buffer.                                                        *)
LEMMA QueueTimes ==
  ASSUME NEW d, Timers(d), NEW id
  PROVE  Timing(d, Queue(d, id))
BY HelpersTime DEF Queue, Timers, Timing

(* The handlers of commands.                                               *)
LEMMA CommandsTime ==
  ASSUME NEW d, Timers(d), NEW id, NEW ok
  PROVE  /\ Timing(d, JoinCommand(d, id)) /\ Timing(d, PushCommand(d, id, ok))
         /\ Timing(d, LeaveCommand(d, id))
<1>1. Timing(d, JoinCommand(d, id))
  <2> DEFINE again == [d EXCEPT !.desired = TRUE, !.status = "Joined"]
             waiting == [d EXCEPT !.desired = TRUE, !.status = "WaitingToJoin",
                                  !.join_waiters = @ \cup {id}]
  <2>1. Timing(d, again) /\ Timing(d, waiting)
    BY DEF Timers, Timing
  <2>2. JoinCommand(d, id) = IF ~d.registered THEN Answer(d, {id}, "failed")
                             ELSE IF State(d) = "Joined"
                               THEN Answer(again, {id}, "failed")
                               ELSE LoadPayload(waiting)
    BY DEF JoinCommand
  <2> HIDE DEF again, waiting
  <2>3. /\ Timing(d, Answer(d, {id}, "failed")) /\ Timing(waiting, LoadPayload(waiting))
        /\ Timing(again, Answer(again, {id}, "failed"))
    BY <2>1, HelpersTime DEF Timing
  <2> QED BY <2>1, <2>2, <2>3 DEF Timing
<1>2. Timing(d, PushCommand(d, id, ok))
  BY SendPushTimes, QueueTimes DEF PushCommand
<1>3. Timing(d, LeaveCommand(d, id))
  <2> DEFINE pending == [id |-> id, open |-> TRUE]
             shown == SetStatus(d, IF State(d) \in {"Joined", "Joining"} THEN "Leaving"
                                                                         ELSE "Left")
             stopped == StopChannel(shown)
             deferred == [stopped EXCEPT !.deferred_leave = pending]
  <2>1. LeaveCommand(d, id) \in {StartLeave(stopped, pending), deferred,
                                 Answer(stopped, {id}, "ok")}
    BY DEF LeaveCommand
  <2>2. Timing(d, shown)
    BY HelpersTime
  <2> HIDE DEF shown
  <2>3. Timing(shown, stopped)
    BY <2>2, StopTimes DEF Timing
  <2> HIDE DEF stopped, pending
  <2>4. Timing(stopped, deferred)
    BY <2>3 DEF Timing, Timers
  <2> HIDE DEF deferred
  <2>5. /\ Timing(stopped, StartLeave(stopped, pending))
        /\ Timing(stopped, Answer(stopped, {id}, "ok"))
    BY <2>3, HelpersTime, StartLeaveTimes DEF Timing
  <2> QED BY <2>1, <2>2, <2>3, <2>4, <2>5 DEF Timing
<1> QED BY <1>1, <1>2, <1>3

(* The record of the topic.                                                *)
LEMMA RecordsTime ==
  ASSUME NEW d, Timers(d)
  PROVE  Timing(d, Register(d)) /\ Timing(d, ConnectedUnregister(d))
<1>1. Timing(d, Register(d))
  BY DEF Register, FreshRecord, Timers, Timing
<1>2. ASSUME NEW s, Timing(d, s)
      PROVE  Timing(d, Unregister(s))
  <2>1. Timing(s, StopChannel(s))
    BY <1>2, StopTimes DEF Timing
  <2> DEFINE t == StopChannel(s)
  <2>2. Unregister(s) = [FreshRecord(t) EXCEPT !.registered = FALSE,
                                               !.proto = P!Discard(@, Topic)]
    BY DEF Unregister
  <2> HIDE DEF t
  <2>3. Timing(t, Unregister(s))
    BY <2>1, <2>2 DEF Timing, Timers, FreshRecord, t
  <2> QED BY <1>2, <2>1, <2>3 DEF Timing, t
<1>3. Timing(d, d)
  BY DEF Timing
<1>4. Timing(d, ConnectedUnregister(d))
  <2> DEFINE left == [d EXCEPT !.proto = P!Leave(@, Topic)]
             s == Send(left, "Leave", P!NextRef(d.proto))
  <2>1. Timing(d, left)
    BY DEF Timing, Timers
  <2>2. ConnectedUnregister(d) \in {Unregister(s), Unregister(d)}
    BY DEF ConnectedUnregister
  <2> HIDE DEF left
  <2>3. Timing(d, s)
    BY <2>1, HelpersTime DEF Timing
  <2> HIDE DEF s
  <2> QED BY <1>2, <1>3, <2>2, <2>3
<1> QED BY <1>1, <1>4

(* A cancelled request.                                                    *)
LEMMA CancelTimes ==
  ASSUME NEW d, Timers(d), NEW id
  PROVE  Timing(d, Cancel(d, id))
<1>1. Timing(d, CancelJoin(d, id))
  BY DEF CancelJoin, AbandonJoin, Timing, Timers
<1>2. Timing(d, CancelLeave(d, id))
  BY DEF CancelLeave, Timing, Timers
<1>3. \A call : Timing(d, CancelCall(d, call))
  BY DEF CancelCall, Timing, Timers
<1>4. \A leave : Timing(d, [d EXCEPT !.deferred_leave.open = leave])
  BY DEF Timing, Timers
<1>5. \A queue : Timing(d, [d EXCEPT !.queued = queue])
  BY DEF Timing, Timers
<1> DEFINE calls == {call \in d.pending_calls : call.id = id}
           rest == RemoveAt(d.queued, CHOOSE k \in DOMAIN d.queued : d.queued[k] = id)
<1>6. Cancel(d, id) \in {CancelJoin(d, id), [d EXCEPT !.deferred_leave.open = FALSE],
                         [d EXCEPT !.queued = rest],
                         CancelCall(d, CHOOSE call \in calls : TRUE),
                         CancelLeave(d, id)}
  BY DEF Cancel
<1> HIDE DEF calls, rest
<1> QED BY <1>1, <1>2, <1>3, <1>4, <1>5, <1>6

(* The end of a payload load, a rejoin, a new connection.                  *)
LEMMA LoadsTime ==
  ASSUME NEW d, Timers(d), NEW id, NEW loaded
  PROVE  /\ Timing(d, PayloadLoaded(d, id, loaded)) /\ Timing(d, RejoinDue(d))
         /\ Timing(d, Connected(d))
<1>1. Timing(d, PayloadLoaded(d, id, loaded))
  <2> DEFINE e == [d EXCEPT !.loads = @ \ {id}]
             idle == [e EXCEPT !.active_payload = 0]
             errored == [idle EXCEPT !.desired = FALSE, !.status = "Errored",
                                     !.join_waiters = {}]
             ref == P!NextRef(e.proto)
             joining == [idle EXCEPT
                           !.proto = P!Rejoin(@, Topic), !.status = "Joining",
                           !.pending_joins = @ \cup {ref},
                           !.op_timeouts = @ \cup {[kind |-> "Join", ref |-> ref]}]
  <2>1. PayloadLoaded(d, id, loaded) \in
          {e, idle, Answer(errored, e.join_waiters, "failed"),
           Send(joining, "Join", ref)}
    BY DEF PayloadLoaded
  <2> HIDE DEF ref
  <2>2. Timing(d, e)
    BY DEF Timing, Timers
  <2> HIDE DEF e
  <2>3. Timing(e, idle)
    BY <2>2 DEF Timing, Timers
  <2> HIDE DEF idle
  <2>4. Timing(idle, errored) /\ Timing(idle, joining)
    BY <2>3 DEF Timing, Timers
  <2> HIDE DEF errored, joining
  <2>5. /\ Timing(errored, Answer(errored, e.join_waiters, "failed"))
        /\ Timing(joining, Send(joining, "Join", ref))
    BY <2>4, HelpersTime DEF Timing
  <2> QED BY <2>1, <2>2, <2>3, <2>4, <2>5 DEF Timing
<1>2. Timing(d, RejoinDue(d))
  <2> DEFINE s == [d EXCEPT !.rejoins = @ - 1, !.rejoin_scheduled = FALSE]
  <2>1. Timing(d, s)
    BY DEF Timing, Timers
  <2>2. RejoinDue(d) = LoadPayload(s)
    BY DEF RejoinDue
  <2> HIDE DEF s
  <2> QED BY <2>1, <2>2, HelpersTime DEF Timing
<1>3. Timing(d, Connected(d))
  <2> DEFINE s == [d EXCEPT !.rejoin_scheduled = FALSE]
  <2>1. Timing(d, s)
    BY DEF Timing, Timers
  <2>2. Connected(d) = LoadPayload(s)
    BY DEF Connected
  <2> HIDE DEF s
  <2> QED BY <2>1, <2>2, HelpersTime DEF Timing
<1> QED BY <1>1, <1>2, <1>3

(* The handlers of frames.                                                 *)
LEMMA JoinEndsTime ==
  ASSUME NEW d, Timers(d), NEW ref, NEW n \in Nat, NEW ok
  PROVE  Timing(d, JoinAccepted(d, ref, n, ok)) /\ Timing(d, JoinRefused(d, ref))
<1>1. Timing(d, JoinAccepted(d, ref, n, ok))
  <2> DEFINE waiting == [d EXCEPT !.pending_joins = @ \ {ref}]
             joined == [d EXCEPT !.pending_joins = @ \ {ref}, !.ever_joined = TRUE,
                          !.rejoin_scheduled = FALSE, !.deferred_leave = NoLeave,
                          !.join_waiters = {}, !.status = "Joined"]
             answered == Answer(joined, d.join_waiters, "ok")
             left == [answered EXCEPT !.status = "Leaving"]
  <2>1. JoinAccepted(d, ref, n, ok) \in
          {waiting, StartLeave(left, d.deferred_leave), Flush(answered, n, ok)}
    BY DEF JoinAccepted
  <2>2. Timing(d, waiting) /\ Timing(d, joined)
    BY DEF Timing, Timers
  <2> HIDE DEF waiting, joined
  <2>3. Timing(joined, answered)
    BY <2>2, HelpersTime DEF Timing
  <2> HIDE DEF answered
  <2>4. Timing(answered, left)
    BY <2>3 DEF Timing, Timers
  <2> HIDE DEF left
  <2>5. Timing(left, StartLeave(left, d.deferred_leave))
    BY <2>4, StartLeaveTimes DEF Timing
  <2>6. Timing(answered, Flush(answered, n, ok))
    BY <2>3, FlushTimes DEF Timing
  <2> QED BY <2>1, <2>2, <2>3, <2>4, <2>5, <2>6 DEF Timing
<1>2. Timing(d, JoinRefused(d, ref))
  <2> DEFINE refused == [d EXCEPT !.pending_joins = @ \ {ref},
                                  !.deferred_leave = NoLeave, !.join_waiters = {}]
             left == Answer(refused, OpenLeave(d.deferred_leave), "ok")
             answered == Answer(left, d.join_waiters, "failed")
             shown == SetStatus(answered, IF d.deferred_leave = NoLeave THEN "Errored"
                                                                        ELSE "Left")
  <2>1. JoinRefused(d, ref) = ScheduleRejoin(shown)
    BY DEF JoinRefused
  <2>2. Timing(d, refused)
    BY DEF Timing, Timers
  <2> HIDE DEF refused
  <2>3. Timing(refused, left)
    BY <2>2, HelpersTime DEF Timing
  <2> HIDE DEF left
  <2>4. Timing(left, answered)
    BY <2>3, HelpersTime DEF Timing
  <2> HIDE DEF answered
  <2>5. Timing(answered, shown)
    BY <2>4, HelpersTime DEF Timing
  <2> HIDE DEF shown
  <2>6. Timing(shown, ScheduleRejoin(shown))
    BY <2>5, HelpersTime DEF Timing
  <2> QED BY <2>1, <2>2, <2>3, <2>4, <2>5, <2>6 DEF Timing
<1> QED BY <1>1, <1>2

(* Answers to a leave and to a call.                                       *)
LEMMA AnswersTime ==
  ASSUME NEW d, Timers(d), NEW ref
  PROVE  Timing(d, LeaveAnswered(d, ref)) /\ Timing(d, CallAnswered(d, ref))
<1>1. Timing(d, LeaveAnswered(d, ref))
  <2> DEFINE over == {pending \in d.pending_leaves : pending.ref = ref}
             s == [d EXCEPT !.pending_leaves = @ \ over]
             t == Answer(s, UNION {OpenLeave(pending) : pending \in over}, "ok")
  <2>1. LeaveAnswered(d, ref) = AfterLeave(t)
    BY DEF LeaveAnswered
  <2>2. Timing(d, s)
    BY DEF Timing, Timers
  <2> HIDE DEF s, over
  <2>3. Timing(s, t)
    BY <2>2, HelpersTime DEF Timing
  <2> HIDE DEF t
  <2> QED BY <2>1, <2>2, <2>3, AfterLeaveTimes DEF Timing
<1>2. Timing(d, CallAnswered(d, ref))
  <2> DEFINE over == {call \in d.pending_calls : call.ref = ref}
             s == [d EXCEPT !.pending_calls = @ \ over]
  <2>1. CallAnswered(d, ref) = Answer(s, {call.id : call \in over}, "ok")
    BY DEF CallAnswered
  <2>2. Timing(d, s)
    BY DEF Timing, Timers
  <2> HIDE DEF s, over
  <2> QED BY <2>1, <2>2, HelpersTime DEF Timing
<1> QED BY <1>1, <1>2

(* The end of a channel.                                                   *)
LEMMA EndsTime ==
  ASSUME NEW d, Timers(d)
  PROVE  Timing(d, ChannelErrored(d)) /\ Timing(d, ChannelClosed(d))
<1> DEFINE s == [d EXCEPT !.pending_joins = {}]
           errored == SetStatus(s, "Errored")
           closed == SetStatus(s, "Closed")
<1>1. ChannelErrored(d) = ScheduleRejoin(errored) /\ ChannelClosed(d) = StopChannel(closed)
  BY DEF ChannelErrored, ChannelClosed
<1>2. Timing(d, s)
  BY DEF Timing, Timers
<1> HIDE DEF s
<1>3. Timing(s, errored) /\ Timing(s, closed)
  BY <1>2, HelpersTime DEF Timing
<1> HIDE DEF errored, closed
<1>4. Timing(errored, ScheduleRejoin(errored)) /\ Timing(closed, StopChannel(closed))
  BY <1>3, HelpersTime, StopTimes DEF Timing
<1> QED BY <1>1, <1>2, <1>3, <1>4 DEF Timing

(* A frame of the server.                                                  *)
LEMMA IncomingTimes ==
  ASSUME NEW d, Timers(d), NEW f, NEW n \in Nat, NEW ok
  PROVE  Timing(d, Incoming(d, f, n, ok))
<1> DEFINE s == [d EXCEPT !.proto = P!Receive(@, f)]
<1>1. Incoming(d, f, n, ok) \in
        {JoinAccepted(s, f.ref, n, ok), JoinRefused(s, f.ref), LeaveAnswered(s, f.ref),
         CallAnswered(s, f.ref), ChannelErrored(s), ChannelClosed(s), s}
  BY DEF Incoming
<1>2. Timing(d, s)
  BY DEF Timing, Timers
<1> HIDE DEF s
<1>3. /\ Timing(s, JoinAccepted(s, f.ref, n, ok)) /\ Timing(s, JoinRefused(s, f.ref))
      /\ Timing(s, LeaveAnswered(s, f.ref)) /\ Timing(s, CallAnswered(s, f.ref))
      /\ Timing(s, ChannelErrored(s)) /\ Timing(s, ChannelClosed(s)) /\ Timing(s, s)
  BY <1>2, JoinEndsTime, AnswersTime, EndsTime DEF Timing
<1> QED BY <1>1, <1>2, <1>3 DEF Timing

(* The handlers of timeouts.                                               *)
LEMMA JoinTimeoutTimes ==
  ASSUME NEW d, Timers(d), NEW ref
  PROVE  Timing(d, JoinTimedOut(d, ref))
<1> DEFINE out == [d EXCEPT !.pending_joins = @ \ {ref},
                            !.proto = P!Discard(@, Topic), !.active_payload = 0]
           given == [out EXCEPT !.deferred_leave = NoLeave, !.status = "Left"]
           errored == [out EXCEPT !.status = "Errored", !.join_waiters = {}]
           answered == Answer(errored, d.join_waiters, "failed")
<1>1. JoinTimedOut(d, ref) \in
        {d, Answer(given, OpenLeave(d.deferred_leave), "failed"),
         ScheduleRejoin(answered), SetStatus(out, "Left")}
  BY DEF JoinTimedOut
<1>2. Timing(d, out) /\ Timing(d, d)
  BY DEF Timing, Timers
<1> HIDE DEF out
<1>3. Timing(out, given) /\ Timing(out, errored)
  BY <1>2 DEF Timing, Timers
<1> HIDE DEF given, errored
<1>4. Timing(errored, answered)
  BY <1>3, HelpersTime DEF Timing
<1> HIDE DEF answered
<1>5. /\ Timing(given, Answer(given, OpenLeave(d.deferred_leave), "failed"))
      /\ Timing(answered, ScheduleRejoin(answered))
      /\ Timing(out, SetStatus(out, "Left"))
  BY <1>2, <1>3, <1>4, HelpersTime DEF Timing
<1> QED BY <1>1, <1>2, <1>3, <1>4, <1>5 DEF Timing

(* What follows a leave that timed out takes no further timer.             *)
LEMMA LeaveTimeoutTimes ==
  ASSUME NEW d, Timers(d), NEW ref
  PROVE  Timing(d, LeaveTimedOut(d, ref))
<1> DEFINE late == {pending \in d.pending_leaves : pending.ref = ref}
           s == [d EXCEPT !.pending_leaves = @ \ late, !.proto = P!Discard(@, Topic)]
           t == Answer(s, UNION {OpenLeave(pending) : pending \in late}, "failed")
<1>1. LeaveTimedOut(d, ref) \in {d, AfterLeave(t)}
  BY DEF LeaveTimedOut
<1>2. Timing(d, s) /\ Timing(d, d)
  BY DEF Timing, Timers
<1> HIDE DEF s, late
<1>3. Timing(s, t)
  BY <1>2, HelpersTime DEF Timing
<1> HIDE DEF t
<1>4. Timing(t, AfterLeave(t))
  BY <1>3, AfterLeaveTimes DEF Timing
<1> QED BY <1>1, <1>2, <1>3, <1>4 DEF Timing

(* The handler has sent its frames.                                        *)
LEMMA HandledTimes ==
  ASSUME connected', NEW e, NEW ok, Handled(e, ok), Timing(driver, e)
  PROVE  driver.op_timeouts \subseteq driver'.op_timeouts
<1>1. driver' = [e EXCEPT !.wire = {}]
  BY DEF Handled
<1>2. driver'.op_timeouts = e.op_timeouts
  BY <1>1 DEF Timing, Timers
<1> QED BY <1>2 DEF Timing

(* No step lets a timeout expire but the one it is due to.                 *)
LEMMA TimeoutsWait ==
  ASSUME Inv, [Next]_vars, connected', ~HandleOperationTimeout
  PROVE  driver.op_timeouts \subseteq driver'.op_timeouts
<1>1. Timers(driver)
  BY Resting DEF Timers, Steady, Drivers
<1>2. CASE UNCHANGED driver
  BY <1>2
<1>3. CASE DropHandle
  <2>1. Timing(driver, SetStatus(driver, "Closed"))
    BY <1>1, HelpersTime
  <2> QED BY <1>3, <2>1 DEF DropHandle, Timing
<1>4. CASE HandleLifecycle
  <2> DEFINE c == Head(lifecycle)
             e == LifecycleEffect(c)
  <2>1. connected /\ \E ok \in BOOLEAN : DriverStep(e, ok)
    BY <1>4 DEF HandleLifecycle
  <2>2. c.kind \in {"Register", "Unregister", "Cancel"}
    BY <1>4, LifecycleTaken DEF LifecycleCommands
  <2> HIDE DEF c
  <2>3. e \in {Register(driver), ConnectedUnregister(driver), Cancel(driver, c.id)}
    BY <2>1, <2>2 DEF LifecycleEffect
  <2> HIDE DEF e
  <2>4. Timing(driver, e)
    BY <1>1, <2>3, RecordsTime, CancelTimes
  <2> QED BY <2>1, <2>4, HandledTimes DEF DriverStep
<1>5. CASE HandleCommand
  <2> DEFINE id == Head(commands)
  <2>1. PICK ok \in BOOLEAN : DriverStep(ConnectedEffect(id, ok), ok)
    BY <1>5 DEF HandleCommand
  <2>2. id \in Ids
    BY <1>5, Resting, Shifted DEF HandleCommand, TakeCommand
  <2> HIDE DEF id
  <2> DEFINE e == ConnectedEffect(id, ok)
  <2>3. e \in {JoinCommand(driver, id), LeaveCommand(driver, id),
               PushCommand(driver, id, ok)}
    BY <2>2 DEF ConnectedEffect, Ids
  <2>4. DriverStep(e, ok)
    BY <2>1
  <2> HIDE DEF e
  <2>5. Timing(driver, e)
    BY <1>1, <2>3, CommandsTime
  <2> QED BY <2>4, <2>5, HandledTimes DEF DriverStep
<1>6. CASE HandlePayload
  <2> PICK id \in driver.loads, loaded \in BOOLEAN, ok \in BOOLEAN :
        DriverStep(PayloadLoaded(driver, id, loaded), ok)
    BY <1>6 DEF HandlePayload
  <2>1. Timing(driver, PayloadLoaded(driver, id, loaded))
    BY <1>1, LoadsTime
  <2> QED BY <2>1, HandledTimes DEF DriverStep
<1>7. CASE HandleRejoin
  <2>1. Timing(driver, RejoinDue(driver))
    BY <1>1, LoadsTime
  <2> QED BY <1>7, <2>1, HandledTimes DEF HandleRejoin, DriverStep
<1>8. CASE Connect
  <2>1. Timing(driver, Connected(driver))
    BY <1>1, LoadsTime
  <2> QED BY <1>8, <2>1 DEF Connect, Timing
<1>9. ASSUME NEW f, NEW n \in Nat, NEW ok, NEW owed, NEW speaking, NEW closing,
             HandleFrame(f, n, ok, owed, speaking, closing)
      PROVE  driver.op_timeouts \subseteq driver'.op_timeouts
  <2>1. Timing(driver, Incoming(driver, f, n, ok))
    BY <1>1, IncomingTimes
  <2> QED BY <1>9, <2>1, HandledTimes DEF HandleFrame
<1>10. CASE HandleReply
  <2> PICK q \in unanswered, status \in {"ok", "error"}, ok \in BOOLEAN,
           n \in 0..Len(driver.queued) :
        HandleFrame(Reply(q, status), n, ok, unanswered \ {q},
             IF q.kind = "Leave" \/ (q.kind = "Join" /\ status = "error")
               THEN live \ {q.join_ref} ELSE live,
             IF q.kind = "Leave" THEN ending \cup (live \cap {q.join_ref})
                                 ELSE ending)
    BY <1>10 DEF HandleReply
  <2>1. n \in Nat
    OBVIOUS
  <2> QED BY <1>9, <2>1
<1>11. CASE HandleTermination
  BY <1>9, <1>11 DEF HandleTermination
<1>12. CASE HandleFinalClose
  BY <1>9, <1>12 DEF HandleFinalClose
<1>13. CASE CreateHandle \/ (\E id \in Ids : Request(id) \/ GiveUp(id)) \/ UNCHANGED vars
  BY <1>2, <1>13 DEF CreateHandle, Request, GiveUp, driverVars, vars
<1>14. ~(HandleOfflineCommand \/ LoseConnection \/ HandleInvalidReply)
  BY DEF HandleOfflineCommand, LoseConnection, HandleInvalidReply
<1> QED BY <1>3, <1>4, <1>5, <1>6, <1>7, <1>8, <1>10, <1>11, <1>12, <1>13, <1>14 DEF Next

(* The timeout of a join that is over, under the first handle of the       *)
(* topic.                                                                  *)
LEMMA TimeoutSpares ==
  ASSUME Inv, HandleOperationTimeout, connected', handles = 1, ~LeaveGivenUp,
         NEW u \in driver.op_timeouts, u \notin driver'.op_timeouts,
         u.kind = "Join", u.ref # JoinRef(driver)
  PROVE  State(driver') = State(driver)
<1>1. PICK timeout \in driver.op_timeouts : DriverStep(TimedOut(driver, timeout), TRUE)
  BY DEF HandleOperationTimeout
<1> DEFINE d == [driver EXCEPT !.op_timeouts = @ \ {timeout}]
           e == TimedOut(driver, timeout)
           W == Owes(unanswered, ending)
<1>2. Steady(driver, W) /\ Once(driver)
  BY Resting
<1>3. Steady(e, W) /\ Done(driver, e, {})
  <2> HIDE DEF W
  <2> QED BY <1>2, TimedOutKeeps
<1>4. driver' = [e EXCEPT !.wire = {}]
  BY <1>1 DEF DriverStep, Handled
<1>5. /\ d \in Drivers /\ d.op_timeouts = driver.op_timeouts \ {timeout}
      /\ d.proto = driver.proto /\ d.pending_joins = driver.pending_joins
  <2>1. driver \in Drivers
    BY <1>2 DEF Steady
  <2> QED BY <2>1 DEF Drivers
<1>6. e = IF timeout.kind = "Join" THEN JoinTimedOut(d, timeout.ref)
                                   ELSE LeaveTimedOut(d, timeout.ref)
  BY DEF TimedOut
<1>7. Timers(d)
  BY <1>5 DEF Timers, Drivers
<1> HIDE DEF d, e, W
<1>8. driver'.proto = e.proto /\ driver'.op_timeouts = e.op_timeouts
  BY <1>3, <1>4 DEF Steady, Drivers
<1>9. CASE timeout = u
  <2>1. e = JoinTimedOut(d, u.ref)
    BY <1>6, <1>9
  <2>2. CASE u.ref \notin driver.pending_joins
    <3>1. e = d
      BY <1>5, <2>1, <2>2 DEF JoinTimedOut
    <3> QED BY <1>5, <1>8, <3>1 DEF State
  <2>3. CASE u.ref \in driver.pending_joins
    <3>1. Clear(driver)
      BY DEF Inv, Core, FirstHandle, Given, LeaveGivenUp
    <3>2. ~driver.registered /\ ~e.registered
      BY <1>3, <2>3, <3>1 DEF Clear, Done
    <3>3. State(driver) = "Absent" /\ State(e) = "Absent"
      BY <1>2, <1>3, <3>2, StateFacts DEF Steady, Unrecorded, P!Absent
    <3> QED BY <1>8, <3>3 DEF State
  <2> QED BY <2>2, <2>3
<1>10. CASE timeout # u
  <2>1. u \in d.op_timeouts
    BY <1>5, <1>10
  <2>2. Timing(d, e)
    <3>1. ASSUME NEW ref
          PROVE  Timing(d, JoinTimedOut(d, ref))
      BY <1>7, JoinTimeoutTimes
    <3>2. ASSUME NEW ref
          PROVE  Timing(d, LeaveTimedOut(d, ref))
      BY <1>7, LeaveTimeoutTimes
    <3> QED BY <1>6, <3>1, <3>2
  <2> QED BY <1>8, <2>1, <2>2 DEF Timing
<1> QED BY <1>9, <1>10

(* The timeout of a join that is over spares the next generation.          *)
THEOREM TimeoutsSpareNewJoins == Spec => OldTimeoutSparesNewJoin
<1>1. Inv /\ [Next]_vars =>
        [\A timeout \in driver.op_timeouts \ driver'.op_timeouts :
           handles = 1 /\ ~LeaveGivenUp /\ connected' /\ timeout.kind = "Join"
             /\ timeout.ref # JoinRef(driver) =>
             State(driver') = State(driver)]_vars
  <2> SUFFICES ASSUME Inv, [Next]_vars,
                      NEW timeout \in driver.op_timeouts \ driver'.op_timeouts,
                      handles = 1, ~LeaveGivenUp, connected', timeout.kind = "Join",
                      timeout.ref # JoinRef(driver)
               PROVE  State(driver') = State(driver)
    OBVIOUS
  <2>1. HandleOperationTimeout
    BY TimeoutsWait
  <2> QED BY <2>1, TimeoutSpares
<1> QED BY <1>1, DriverInvariant, PTL DEF Spec, OldTimeoutSparesNewJoin
=============================================================================
