--------------------------- MODULE PresenceProofs ---------------------------
(***************************************************************************)
(* What is proved about presences: what sync_state and sync_diff do to any *)
(* presence state, what a tracker makes of a state and the diffs it queued,*)
(* and that in Presence, for any keys, metas, joins and size of the stream,*)
(* a state brings the truth, pushed diffs keep it, and the events the      *)
(* application is given account for it.                                    *)
(***************************************************************************)
EXTENDS Presence, FiniteSetTheorems, NaturalsInduction, WellFoundedInduction, TLAPS

---------------------------------------------------------------------------
(* sync_state and sync_diff.                                               *)

(* A presence state gives each key it has some metas.                      *)
LEMMA StateShape ==
  ASSUME NEW state \in PresenceState
  PROVE  /\ DOMAIN state \subseteq Keys /\ IsFiniteSet(DOMAIN state)
         /\ state = [k \in DOMAIN state |-> state[k]]
         /\ \A k \in DOMAIN state : state[k] \subseteq Metas /\ state[k] # {}
<1>1. PICK S \in {T \in SUBSET Keys : IsFiniteSet(T)} :
        state \in [S -> (SUBSET Metas) \ {{}}]
  BY DEF PresenceState
<1> QED  BY <1>1

(* Entries makes a presence state of any assignment of metas to keys.      *)
LEMMA EntriesType ==
  ASSUME NEW S \in SUBSET Keys, IsFiniteSet(S), NEW f, f = [k \in S |-> f[k]],
         \A k \in S : f[k] \subseteq Metas
  PROVE  Entries(f) \in PresenceState
<1> DEFINE T == {k \in S : f[k] # {}}
<1>1. DOMAIN f = S
  OBVIOUS
<1>2. Entries(f) = [k \in T |-> f[k]]
  BY <1>1 DEF Entries
<1>3. [k \in T |-> f[k]] \in [T -> (SUBSET Metas) \ {{}}]
  OBVIOUS
<1>4. T \in SUBSET Keys /\ IsFiniteSet(T)
  BY FS_Subset
<1> QED  BY <1>2, <1>3, <1>4 DEF PresenceState

(* Two presence states with the same metas for every key are the same.     *)
LEMMA SameMetas ==
  ASSUME NEW s \in PresenceState, NEW t \in PresenceState,
         \A k \in Keys : MetasOf(s, k) = MetasOf(t, k)
  PROVE  s = t
<1>1. DOMAIN s = DOMAIN t
  BY StateShape DEF MetasOf
<1>2. \A k \in DOMAIN s : s[k] = t[k]
  BY <1>1, StateShape DEF MetasOf
<1> QED  BY <1>1, <1>2, StateShape

(* sync_diff: whatever the diff, each key has the metas it had and those   *)
(* that join, without those that leave, and no key stays without metas.    *)
THEOREM SyncDiffMetas ==
  ASSUME NEW state \in PresenceState, NEW diff \in PresenceDiff
  PROVE  /\ SyncDiff(state, diff) \in PresenceState
         /\ \A k \in Keys :
              MetasOf(SyncDiff(state, diff), k)
                = (MetasOf(state, k) \cup MetasOf(diff.joins, k))
                    \ MetasOf(diff.leaves, k)
<1> DEFINE S == DOMAIN state \cup DOMAIN diff.joins
           joined == [k \in S |->
                        MetasOf(state, k) \cup MetasOf(diff.joins, k)]
           f == [k \in S |-> joined[k] \ MetasOf(diff.leaves, k)]
<1>1. diff.joins \in PresenceState /\ diff.leaves \in PresenceState
  BY DEF PresenceDiff
<1>2. S \in SUBSET Keys /\ IsFiniteSet(S)
  BY <1>1, StateShape, FS_Union
<1>3. \A k \in S : f[k] \subseteq Metas
  BY <1>1, StateShape DEF MetasOf
<1>4. SyncDiff(state, diff) = Entries(f)
  BY Zenon DEF SyncDiff
<1>5. Entries(f) \in PresenceState
  BY <1>2, <1>3, EntriesType, Zenon
<1>6. ASSUME NEW k \in Keys
      PROVE  MetasOf(Entries(f), k)
               = (MetasOf(state, k) \cup MetasOf(diff.joins, k))
                   \ MetasOf(diff.leaves, k)
  <2>1. CASE k \in S
    BY <2>1 DEF Entries, MetasOf
  <2>2. CASE k \notin S
    BY <2>2 DEF Entries, MetasOf
  <2> QED  BY <2>1, <2>2
<1> QED  BY <1>4, <1>5, <1>6

(* What sync_state reports is a diff, and exactly the difference of the    *)
(* two states: the metas that are new, and the metas that are gone.        *)
THEOREM ChangesAreDifferences ==
  ASSUME NEW state \in PresenceState, NEW new_state \in PresenceState
  PROVE  /\ Changes(state, new_state) \in PresenceDiff
         /\ \A k \in Keys :
              /\ MetasOf(Changes(state, new_state).joins, k)
                   = MetasOf(new_state, k) \ MetasOf(state, k)
              /\ MetasOf(Changes(state, new_state).leaves, k)
                   = MetasOf(state, k) \ MetasOf(new_state, k)
<1> DEFINE f == [k \in DOMAIN new_state |-> new_state[k] \ MetasOf(state, k)]
           g == [k \in DOMAIN state |-> state[k] \ MetasOf(new_state, k)]
<1>1. /\ DOMAIN state \in SUBSET Keys /\ IsFiniteSet(DOMAIN state)
      /\ DOMAIN new_state \in SUBSET Keys /\ IsFiniteSet(DOMAIN new_state)
  BY StateShape
<1>2. /\ \A k \in DOMAIN new_state : f[k] \subseteq Metas
      /\ \A k \in DOMAIN state : g[k] \subseteq Metas
  BY StateShape
<1>3. Entries(f) \in PresenceState
  BY <1>1, <1>2, EntriesType, Zenon
<1>4. Entries(g) \in PresenceState
  BY <1>1, <1>2, EntriesType, Zenon
<1>5. Changes(state, new_state) = [joins |-> Entries(f), leaves |-> Entries(g)]
  BY DEF Changes
<1>6. ASSUME NEW k \in Keys
      PROVE  /\ MetasOf(Entries(f), k)
                  = MetasOf(new_state, k) \ MetasOf(state, k)
             /\ MetasOf(Entries(g), k)
                  = MetasOf(state, k) \ MetasOf(new_state, k)
  BY DEF Entries, MetasOf
<1> HIDE DEF f, g
<1> QED  BY <1>3, <1>4, <1>5, <1>6 DEF PresenceDiff

(* A full state replaces the one there was, whatever the two are: applying *)
(* the reported changes with sync_diff leaves nothing of the old state.    *)
THEOREM SyncStateReplaces ==
  ASSUME NEW state \in PresenceState, NEW new_state \in PresenceState
  PROVE  SyncState(state, new_state) = new_state
<1> DEFINE changes == Changes(state, new_state)
<1>1. changes \in PresenceDiff
  BY ChangesAreDifferences
<1>2. SyncState(state, new_state) \in PresenceState
  BY <1>1, SyncDiffMetas DEF SyncState
<1>3. ASSUME NEW k \in Keys
      PROVE  MetasOf(SyncState(state, new_state), k) = MetasOf(new_state, k)
  <2>1. MetasOf(SyncState(state, new_state), k)
          = (MetasOf(state, k) \cup MetasOf(changes.joins, k))
              \ MetasOf(changes.leaves, k)
    BY <1>1, SyncDiffMetas DEF SyncState
  <2>2. /\ MetasOf(changes.joins, k)
             = MetasOf(new_state, k) \ MetasOf(state, k)
        /\ MetasOf(changes.leaves, k)
             = MetasOf(state, k) \ MetasOf(new_state, k)
    BY ChangesAreDifferences
  <2> HIDE DEF changes
  <2> QED  BY <2>1, <2>2
<1> QED  BY <1>2, <1>3, SameMetas

(* Nobody is a presence state, and no changes are a diff.                  *)
LEMMA NobodyThere ==
  /\ Nobody \in PresenceState /\ NoChanges \in PresenceDiff
  /\ \A k : MetasOf(Nobody, k) = {}
<1>1. {} \in {T \in SUBSET Keys : IsFiniteSet(T)}
  BY FS_EmptySet
<1>2. Nobody \in [{} -> (SUBSET Metas) \ {{}}] /\ DOMAIN Nobody = {}
  BY DEF Nobody
<1> QED BY <1>1, <1>2 DEF PresenceState, PresenceDiff, NoChanges, MetasOf

(* The metas of a key are metas.                                           *)
LEMMA MetasType ==
  ASSUME NEW state \in PresenceState, NEW k
  PROVE  MetasOf(state, k) \subseteq Metas
BY StateShape DEF MetasOf

(* What With does: one key gets these metas, the others keep theirs.       *)
LEMMA WithMetas ==
  ASSUME NEW state \in PresenceState, NEW key \in Keys, NEW metas \in SUBSET Metas
  PROVE  /\ With(state, key, metas) \in PresenceState
         /\ \A k \in Keys : MetasOf(With(state, key, metas), k)
                              = IF k = key THEN metas ELSE MetasOf(state, k)
<1> DEFINE S == DOMAIN state \cup {key}
           f == [k \in S |-> IF k = key THEN metas ELSE state[k]]
<1>1. S \in SUBSET Keys /\ IsFiniteSet(S)
  BY StateShape, FS_AddElement
<1>2. \A k \in S : f[k] \subseteq Metas
  BY StateShape
<1>3. With(state, key, metas) = Entries(f)
  BY Zenon DEF With
<1>4. Entries(f) \in PresenceState
  BY <1>1, <1>2, EntriesType, Zenon
<1>5. ASSUME NEW k \in Keys
      PROVE  MetasOf(Entries(f), k) = IF k = key THEN metas ELSE MetasOf(state, k)
  <2>1. CASE k \in S
    BY <2>1, StateShape DEF Entries, MetasOf
  <2>2. CASE k \notin S
    BY <2>2 DEF Entries, MetasOf
  <2> QED BY <2>1, <2>2
<1> QED BY <1>3, <1>4, <1>5

(* A single presence.                                                      *)
LEMMA SingleMetas ==
  ASSUME NEW key \in Keys, NEW m \in Metas
  PROVE  /\ Single(key, m) \in PresenceState
         /\ \A k : MetasOf(Single(key, m), k) = IF k = key THEN {m} ELSE {}
<1>1. {key} \in {T \in SUBSET Keys : IsFiniteSet(T)}
  BY FS_Singleton
<1>2. Single(key, m) \in [{key} -> (SUBSET Metas) \ {{}}]
  BY DEF Single
<1> QED BY <1>1, <1>2 DEF PresenceState, Single, MetasOf

(* PresenceDiff::extend joins what two states say of a key.                *)
LEMMA ExtendMetas ==
  ASSUME NEW s \in PresenceState, NEW t \in PresenceState
  PROVE  /\ ExtendState(s, t) \in PresenceState
         /\ \A k : MetasOf(ExtendState(s, t), k) = MetasOf(s, k) \cup MetasOf(t, k)
<1> DEFINE S == DOMAIN s \cup DOMAIN t
<1>1. S \in {T \in SUBSET Keys : IsFiniteSet(T)}
  BY StateShape, FS_Union
<1>2. ExtendState(s, t) \in [S -> (SUBSET Metas) \ {{}}]
  BY StateShape DEF ExtendState, MetasOf
<1> QED BY <1>1, <1>2 DEF PresenceState, ExtendState, MetasOf

---------------------------------------------------------------------------
(* Diffs, in and out of queues.                                            *)

(* A diff adds a meta of a key, or drops it.                               *)
Adds(d, k, m) == m \in MetasOf(d.joins, k)

Drops(d, k, m) == m \in MetasOf(d.leaves, k)

(* What one diff makes of a state and of the changes reported so far.      *)
LEMMA WithDiffEffect ==
  ASSUME NEW s, s.state \in PresenceState, s.changes \in PresenceDiff,
         NEW d \in PresenceDiff
  PROVE  LET t == WithDiff(s, d)
         IN  /\ t.state \in PresenceState /\ t.changes \in PresenceDiff
             /\ \A k \in Keys, m \in Metas :
                  /\ m \in MetasOf(t.state, k) <=>
                       (m \in MetasOf(s.state, k) \/ Adds(d, k, m)) /\ ~Drops(d, k, m)
                  /\ Adds(t.changes, k, m) <=> Adds(s.changes, k, m) \/ Adds(d, k, m)
<1> DEFINE t == WithDiff(s, d)
<1>1. t.state = SyncDiff(s.state, d) /\ t.changes = Extend(s.changes, d)
  BY DEF WithDiff
<1>2. /\ d.joins \in PresenceState /\ d.leaves \in PresenceState
      /\ s.changes.joins \in PresenceState /\ s.changes.leaves \in PresenceState
  BY DEF PresenceDiff
<1>3. t.changes \in PresenceDiff
  BY <1>1, <1>2, ExtendMetas DEF Extend, PresenceDiff
<1>4. t.changes.joins = ExtendState(s.changes.joins, d.joins)
  BY <1>1 DEF Extend
<1> HIDE DEF t
<1>5. \A k \in Keys, m \in Metas :
        Adds(t.changes, k, m) <=> Adds(s.changes, k, m) \/ Adds(d, k, m)
  BY <1>2, <1>4, ExtendMetas DEF Adds
<1>6. \A k \in Keys, m \in Metas :
        m \in MetasOf(t.state, k) <=>
          (m \in MetasOf(s.state, k) \/ Adds(d, k, m)) /\ ~Drops(d, k, m)
  BY <1>1, SyncDiffMetas DEF Adds, Drops
<1> QED BY <1>1, <1>3, <1>5, <1>6, SyncDiffMetas DEF t

(* The order of the numbers.                                               *)
Less == {pair \in Nat \X Nat : pair[1] < pair[2]}

(* Induction over the numbers, with a set for the predicate.               *)
LEMMA Induction ==
  ASSUME NEW S, 0 \in S, \A n \in S \cap Nat : n + 1 \in S
  PROVE  Nat \subseteq S
<1> DEFINE T == Nat \ S
<1> SUFFICES ASSUME T # {}
             PROVE  FALSE
  OBVIOUS
<1>1. T \subseteq Nat
  OBVIOUS
<1>2. IsWellFoundedOn(Less, Nat)
  BY NatLessThanWellFounded DEF OpToRel, Less
<1> HIDE DEF T
<1>3. \E x \in T : \A y \in T : ~(<<y, x>> \in Less)
  BY <1>1, <1>2, WFMin
<1>4. PICK x \in T : \A y \in T : ~(y < x)
  BY <1>1, <1>3 DEF Less
<1>5. x \in Nat /\ x \notin S /\ x # 0
  BY <1>4 DEF T
<1>6. x - 1 \in Nat /\ x - 1 < x /\ (x - 1) + 1 = x
  BY <1>5
<1>7. x - 1 \in S
  BY <1>4, <1>6 DEF T
<1> QED BY <1>5, <1>6, <1>7

Trackers ==
  [state : PresenceState, join_ref : 0..MaxJoins, pending_diffs : Seq(PresenceDiff)]

(* The second diff does not add what the first one drops.                  *)
Spares(c, d) == \A k \in Keys, m \in Metas : Drops(c, k, m) => ~Adds(d, k, m)

(* No diff of a queue adds what it or an earlier one drops: a meta is used *)
(* once.                                                                   *)
Clean(q) == \A i, j \in DOMAIN q : i <= j => Spares(q[i], q[j])

(* What a tracker was synced with, from the state to its last queued diff. *)
SyncSteps(e, t, frame, n) ==
  /\ e[0] = [state   |-> SyncState(t.state, frame.state),
             changes |-> Changes(t.state, frame.state)]
  /\ \A i \in 1..n : e[i] = WithDiff(e[i - 1], t.pending_diffs[i])
  /\ ApplyState(t, frame) =
       [update  |-> "Synced", changes |-> e[n].changes,
        tracker |-> [state |-> e[n].state, join_ref |-> frame.join_ref,
                     pending_diffs |-> <<>>]]

(* ApplyState, a recursive function, takes the queued diffs one by one.    *)
LEMMA StateHasSteps ==
  ASSUME NEW t \in Trackers, NEW frame
  PROVE  \E e : SyncSteps(e, t, frame, Len(t.pending_diffs))
<1> DEFINE n == Len(t.pending_diffs)
           base == [state   |-> SyncState(t.state, frame.state),
                    changes |-> Changes(t.state, frame.state)]
           Step(e, i) == WithDiff(e, t.pending_diffs[i])
           Run(e, l) == e = [i \in 0..l |-> IF i = 0 THEN base ELSE Step(e[i - 1], i)]
           S == {l \in Nat : \E e : Run(e, l)}
<1>0. n \in Nat
  BY DEF Trackers
<1>1. 0 \in S
  <2>1. Run([i \in 0..0 |-> base], 0)
    OBVIOUS
  <2> QED BY <2>1
<1>2. ASSUME NEW l \in S
      PROVE  l + 1 \in S
  <2> PICK e : Run(e, l)
    OBVIOUS
  <2> DEFINE f == [i \in 0..(l + 1) |-> IF i = l + 1 THEN Step(e[l], l + 1) ELSE e[i]]
  <2> HIDE DEF Step, base
  <2>1. \A i \in 0..(l + 1) : f[i] = IF i = 0 THEN base ELSE Step(f[i - 1], i)
    OBVIOUS
  <2> HIDE DEF f
  <2>2. f = [i \in 0..(l + 1) |-> f[i]]
    BY DEF f
  <2>3. Run(f, l + 1)
    BY <2>1, <2>2
  <2> QED BY <2>3
<1>3. n \in S
  BY <1>0, <1>1, <1>2, Induction
<1> DEFINE e == CHOOSE e : Run(e, n)
<1>4. Run(e, n)
  BY <1>3
<1>5. ApplyState(t, frame) =
       [update  |-> "Synced", changes |-> e[n].changes,
        tracker |-> [state |-> e[n].state, join_ref |-> frame.join_ref,
                     pending_diffs |-> <<>>]]
  BY DEF ApplyState
<1> HIDE DEF e, Step, base, n
<1>6. e[0] = base /\ \A i \in 1..n : e[i] = Step(e[i - 1], i)
  <2>1. 0 \in 0..n /\ \A i \in 1..n : i \in 0..n /\ i # 0
    BY <1>0
  <2> QED BY <1>4, <2>1
<1> QED BY <1>5, <1>6 DEF Step, base, n, SyncSteps

(* What is left of a state and the first n diffs of a queue.               *)
Folded(s, q, n, k, m) ==
  /\ m \in MetasOf(s, k) \/ \E i \in 1..n : Adds(q[i], k, m)
  /\ \A i \in 1..n : ~Drops(q[i], k, m)

(* What ApplyState returns and leaves.  A meta is in the new state if the  *)
(* frame or a queued diff has it and no queued diff drops it: their order  *)
(* does not matter, as long as no meta is used again.  And everyone in the *)
(* first state of a tracker is reported as joined.                         *)
THEOREM ApplyStateEffect ==
  ASSUME NEW t \in Trackers, NEW frame, frame.state \in PresenceState
  PROVE  LET a == ApplyState(t, frame)
             q == t.pending_diffs
         IN  /\ a.update = "Synced" /\ a.changes \in PresenceDiff
             /\ a.tracker = [state |-> a.tracker.state, join_ref |-> frame.join_ref,
                             pending_diffs |-> <<>>]
             /\ a.tracker.state \in PresenceState
             /\ t.state = Nobody => \A k \in Keys :
                  MetasOf(a.tracker.state, k) \subseteq MetasOf(a.changes.joins, k)
             /\ Clean(q) => \A k \in Keys, m \in Metas :
                  m \in MetasOf(a.tracker.state, k) <=>
                    Folded(frame.state, q, Len(q), k, m)
<1> DEFINE q == t.pending_diffs
           n == Len(q)
           a == ApplyState(t, frame)
<1>1. PICK e : SyncSteps(e, t, frame, n)
  BY StateHasSteps
<1>2. /\ t.state \in PresenceState /\ q \in Seq(PresenceDiff)
      /\ n \in Nat /\ DOMAIN q = 1..n /\ \A i \in 1..n : q[i] \in PresenceDiff
  BY DEF Trackers
<1> DEFINE Good(i) ==
             /\ e[i].state \in PresenceState /\ e[i].changes \in PresenceDiff
             /\ t.state = Nobody => \A k \in Keys, m \in Metas :
                  m \in MetasOf(e[i].state, k) => Adds(e[i].changes, k, m)
             /\ Clean(q) => \A k \in Keys, m \in Metas :
                  m \in MetasOf(e[i].state, k) <=> Folded(frame.state, q, i, k, m)
           S == {i \in Nat : i <= n => Good(i)}
<1>3. /\ e[0].state = frame.state
      /\ e[0].changes = Changes(t.state, frame.state)
      /\ \A i \in 1..n : e[i] = WithDiff(e[i - 1], q[i])
      /\ a = [update  |-> "Synced", changes |-> e[n].changes,
              tracker |-> [state |-> e[n].state, join_ref |-> frame.join_ref,
                           pending_diffs |-> <<>>]]
  BY <1>1, <1>2, SyncStateReplaces DEF SyncSteps
<1>4. Good(0)
  <2>1. e[0].state \in PresenceState /\ e[0].changes \in PresenceDiff
    BY <1>2, <1>3, ChangesAreDifferences
  <2>2. t.state = Nobody => \A k \in Keys, m \in Metas :
          m \in MetasOf(e[0].state, k) => Adds(e[0].changes, k, m)
    BY <1>2, <1>3, ChangesAreDifferences, NobodyThere DEF Adds
  <2>3. \A k \in Keys, m \in Metas :
          m \in MetasOf(e[0].state, k) <=> Folded(frame.state, q, 0, k, m)
    BY <1>3 DEF Folded
  <2> QED BY <2>1, <2>2, <2>3
<1>5. ASSUME NEW i \in S
      PROVE  i + 1 \in S
  <2> SUFFICES ASSUME i + 1 <= n
               PROVE  Good(i + 1)
    OBVIOUS
  <2>1. i \in Nat /\ i <= n /\ i + 1 \in 1..n /\ (i + 1) - 1 = i
    BY <1>2
  <2>2. Good(i)
    BY <2>1
  <2>3. e[i + 1] = WithDiff(e[i], q[i + 1]) /\ q[i + 1] \in PresenceDiff
    BY <1>2, <1>3, <2>1
  <2>4. /\ e[i + 1].state \in PresenceState /\ e[i + 1].changes \in PresenceDiff
        /\ \A k \in Keys, m \in Metas :
             /\ m \in MetasOf(e[i + 1].state, k) <=>
                  (m \in MetasOf(e[i].state, k) \/ Adds(q[i + 1], k, m))
                    /\ ~Drops(q[i + 1], k, m)
             /\ Adds(e[i + 1].changes, k, m) <=>
                  Adds(e[i].changes, k, m) \/ Adds(q[i + 1], k, m)
    BY <2>2, <2>3, WithDiffEffect
  <2>5. ASSUME Clean(q), NEW k \in Keys, NEW m \in Metas
        PROVE  m \in MetasOf(e[i + 1].state, k)
                 <=> Folded(frame.state, q, i + 1, k, m)
    <3>1. \A j \in 1..(i + 1) : j = i + 1 \/ j \in 1..i
      BY <2>1
    <3>2. \A j \in 1..i : j \in 1..(i + 1)
      BY <2>1
    <3>3. i + 1 \in 1..(i + 1)
      BY <2>1
    <3>4. \A j \in 1..i : Drops(q[j], k, m) => ~Adds(q[i + 1], k, m)
      BY <1>2, <2>1, <2>5 DEF Clean, Spares
    <3>5. m \in MetasOf(e[i].state, k) <=> Folded(frame.state, q, i, k, m)
      BY <2>2, <2>5
    <3>6. m \in MetasOf(e[i + 1].state, k) <=>
            (m \in MetasOf(e[i].state, k) \/ Adds(q[i + 1], k, m))
              /\ ~Drops(q[i + 1], k, m)
      BY <2>4
    <3> HIDE DEF q
    <3> QED BY <3>1, <3>2, <3>3, <3>4, <3>5, <3>6, Zenon DEF Folded
  <2> QED BY <2>2, <2>4, <2>5
<1>6. n \in S
  <2>1. 0 \in S
    BY <1>4
  <2> HIDE DEF S
  <2> QED BY <1>2, <1>5, <2>1, Induction
<1>7. Good(n)
  BY <1>2, <1>6
<1> HIDE DEF a, q, n
<1>8. /\ a.update = "Synced" /\ a.changes = e[n].changes
      /\ a.tracker = [state |-> e[n].state, join_ref |-> frame.join_ref,
                      pending_diffs |-> <<>>]
      /\ a.tracker.state = e[n].state
  BY <1>3
<1>9. t.state = Nobody => \A k \in Keys :
        MetasOf(a.tracker.state, k) \subseteq MetasOf(a.changes.joins, k)
  BY <1>7, <1>8, MetasType DEF Adds
<1> QED BY <1>7, <1>8, <1>9 DEF a, q, n

---------------------------------------------------------------------------
(* The events an update returns, and the application that follows them.    *)

(* One sequence after the other.                                           *)
LEMMA Concatenated ==
  ASSUME NEW S, NEW s \in Seq(S), NEW t \in Seq(S)
  PROVE  /\ s \o t \in Seq(S) /\ Len(s \o t) = Len(s) + Len(t)
         /\ \A i \in 1..(Len(s) + Len(t)) :
              (s \o t)[i] = IF i <= Len(s) THEN s[i] ELSE t[i - Len(s)]
OBVIOUS

(* A finite set as a sequence has all of its elements.                     *)
LEMMA SetToSeqHasAll ==
  ASSUME NEW S, IsFiniteSet(S)
  PROVE  /\ SetToSeq(S) \in Seq(S)
         /\ \A x \in S : \E i \in DOMAIN SetToSeq(S) : SetToSeq(S)[i] = x
<1> DEFINE n == Cardinality(S)
           D == 1..n
           F == {f \in [D -> S] : IsInjective(f)}
           s == SetToSeq(S)
<1>1. n \in Nat /\ ExistsBijection(D, S)
  BY FS_CardinalityType
<1>2. \E f \in [D -> S] : IsInjective(f)
  BY <1>1 DEF ExistsBijection, Bijection, Injection
<1>3. s = CHOOSE f \in [D -> S] : IsInjective(f)
  BY DEF SetToSeq
<1> HIDE DEF s, D
<1>4. s \in [D -> S] /\ IsInjective(s)
  BY <1>2, <1>3
<1>5. s \in Injection(D, S)
  BY <1>4 DEF Injection
<1>6. IsFiniteSet(D) /\ Cardinality(D) = n
  BY <1>1, FS_Interval DEF D
<1>7. s \in Surjection(D, S)
  BY <1>5, <1>6, FS_Injection
<1>8. \A x \in S : \E i \in D : s[i] = x
  BY <1>7 DEF Surjection
<1>9. s \in Seq(S) /\ DOMAIN s = D
  BY <1>1, <1>4 DEF D
<1> QED BY <1>8, <1>9 DEF s

Reports ==
  [kind : {"Joined", "Left"}, key : Keys, metas : SUBSET Metas]
    \cup [kind : {"Synced"}]

(* The events of an update tell of every meta that was added, and of those *)
(* dropped, for keys that were present before.                             *)
LEMMA UpdateTells ==
  ASSUME NEW previous \in PresenceState, NEW changes \in PresenceDiff
  PROVE  LET es == PresenceEvents(previous, changes)
         IN  /\ es \in Seq(Reports)
             /\ \A k \in Keys, m \in Metas : Adds(changes, k, m) =>
                  \E i \in DOMAIN es : /\ es[i].kind = "Joined" /\ es[i].key = k
                                       /\ m \in es[i].metas
             /\ \A i \in DOMAIN es : es[i].kind = "Left" =>
                  /\ es[i].key \in DOMAIN previous
                  /\ es[i].metas = MetasOf(changes.leaves, es[i].key)
<1> DEFINE A == DOMAIN changes.joins
           B == DOMAIN changes.leaves \cap DOMAIN previous
           joined == SetToSeq(A)
           left == SetToSeq(B)
           es == PresenceEvents(previous, changes)
           Event(kind, k, metas) == [kind |-> kind, key |-> k, metas |-> metas]
           f == [i \in DOMAIN joined |->
                   Event("Joined", joined[i], changes.joins[joined[i]])]
           g == [i \in DOMAIN left |->
                   Event("Left", left[i], changes.leaves[left[i]])]
           h == <<[kind |-> "Synced"]>>
<1>1. changes.joins \in PresenceState /\ changes.leaves \in PresenceState
  BY DEF PresenceDiff
<1>2. /\ A \subseteq Keys /\ IsFiniteSet(A) /\ B \subseteq Keys /\ IsFiniteSet(B)
      /\ \A k \in A : changes.joins[k] \subseteq Metas
      /\ \A k \in B : changes.leaves[k] \subseteq Metas
  BY <1>1, StateShape, FS_Subset
<1>3. es = f \o g \o h
  BY DEF PresenceEvents
<1> HIDE DEF A, B, es
<1>4. /\ joined \in Seq(A) /\ \A k \in A : \E i \in DOMAIN joined : joined[i] = k
      /\ left \in Seq(B)
  BY <1>2, SetToSeqHasAll
<1> HIDE DEF joined, left
<1>5. /\ Len(joined) \in Nat /\ DOMAIN joined = 1..Len(joined)
      /\ Len(left) \in Nat /\ DOMAIN left = 1..Len(left)
      /\ \A i \in DOMAIN joined : joined[i] \in A
      /\ \A i \in DOMAIN left : left[i] \in B
  BY <1>4
<1>6. \A i \in DOMAIN joined : f[i] \in Reports
  BY <1>2, <1>5 DEF Reports
<1>7. \A i \in DOMAIN left : g[i] \in Reports
  BY <1>2, <1>5 DEF Reports
<1>8. f \in Seq(Reports) /\ g \in Seq(Reports) /\ h \in Seq(Reports)
  <2>1. f \in Seq(Reports)
    BY <1>5, <1>6
  <2>2. g \in Seq(Reports)
    BY <1>5, <1>7
  <2>3. [kind |-> "Synced"] \in Reports
    BY DEF Reports
  <2>4. h \in Seq(Reports)
    BY <2>3
  <2> QED BY <2>1, <2>2, <2>4
<1>9. /\ DOMAIN f = 1..Len(joined) /\ DOMAIN g = 1..Len(left)
      /\ \A i \in DOMAIN f : /\ f[i].kind = "Joined" /\ f[i].key = joined[i]
                             /\ f[i].metas = changes.joins[joined[i]]
      /\ \A i \in DOMAIN g : /\ g[i].kind = "Left" /\ g[i].key = left[i]
                             /\ g[i].metas = changes.leaves[left[i]]
      /\ h[1].kind = "Synced" /\ Len(h) = 1
  BY <1>5
<1> HIDE DEF f, g, h
<1>10. /\ es \in Seq(Reports)
       /\ \A i \in DOMAIN f : i \in DOMAIN es /\ es[i] = f[i]
       /\ \A i \in DOMAIN es : \/ i \in DOMAIN f /\ es[i] = f[i]
                               \/ \E j \in DOMAIN g : es[i] = g[j]
                               \/ es[i] = h[1]
  <2>1. Len(f) = Len(joined) /\ Len(g) = Len(left)
    BY <1>5, <1>8, <1>9
  <2> DEFINE fg == f \o g
  <2>2. /\ fg \in Seq(Reports) /\ Len(fg) = Len(f) + Len(g)
        /\ \A i \in 1..(Len(f) + Len(g)) :
             fg[i] = IF i <= Len(f) THEN f[i] ELSE g[i - Len(f)]
    BY <1>8, Concatenated
  <2>3. /\ es \in Seq(Reports) /\ Len(es) = Len(fg) + 1
        /\ \A i \in 1..(Len(fg) + 1) :
             es[i] = IF i <= Len(fg) THEN fg[i] ELSE h[i - Len(fg)]
    <3>1. es = fg \o h
      BY <1>3
    <3> HIDE DEF fg
    <3>2. fg \in Seq(Reports) /\ h \in Seq(Reports) /\ Len(h) = 1
      BY <1>8, <1>9, <2>2
    <3>3. /\ es \in Seq(Reports) /\ Len(es) = Len(fg) + Len(h)
          /\ \A i \in 1..(Len(fg) + Len(h)) :
               es[i] = IF i <= Len(fg) THEN fg[i] ELSE h[i - Len(fg)]
      BY <3>1, <3>2, Concatenated, Zenon
    <3> QED BY <3>2, <3>3
  <2> HIDE DEF fg
  <2>4. DOMAIN es = 1..(Len(f) + Len(g) + 1)
    BY <2>1, <2>2, <2>3, <1>5
  <2>5. ASSUME NEW i \in DOMAIN es
        PROVE  \/ i \in DOMAIN f /\ es[i] = f[i]
               \/ \E j \in DOMAIN g : es[i] = g[j]
               \/ es[i] = h[1]
    <3>1. CASE i <= Len(f)
      BY <1>5, <1>9, <2>1, <2>2, <2>3, <2>4, <3>1
    <3>2. CASE i > Len(f) /\ i <= Len(f) + Len(g)
      <4>1. i - Len(f) \in DOMAIN g
        BY <1>5, <1>9, <2>1, <2>4, <3>2
      <4>2. es[i] = g[i - Len(f)]
        BY <1>5, <2>1, <2>2, <2>3, <2>4, <3>2
      <4> QED BY <4>1, <4>2
    <3>3. CASE i > Len(f) + Len(g)
      <4>1. i - Len(fg) = 1
        BY <1>5, <2>1, <2>2, <2>4, <3>3
      <4> QED BY <1>5, <2>1, <2>2, <2>3, <2>4, <3>3, <4>1
    <3> QED BY <1>5, <2>1, <2>4, <3>1, <3>2, <3>3
  <2>6. \A i \in DOMAIN f : i \in DOMAIN es /\ es[i] = f[i]
    BY <1>5, <1>9, <2>1, <2>2, <2>3, <2>4
  <2> QED BY <2>3, <2>5, <2>6
<1>11. ASSUME NEW k \in Keys, NEW m \in Metas, Adds(changes, k, m)
       PROVE  \E i \in DOMAIN es : /\ es[i].kind = "Joined" /\ es[i].key = k
                                   /\ m \in es[i].metas
  <2>1. k \in A /\ m \in changes.joins[k]
    BY <1>11 DEF A, Adds, MetasOf
  <2>2. PICK i \in DOMAIN f : joined[i] = k
    BY <1>4, <1>5, <1>9, <2>1
  <2> QED BY <1>9, <1>10, <2>1, <2>2
<1>12. ASSUME NEW i \in DOMAIN es, es[i].kind = "Left"
       PROVE  /\ es[i].key \in DOMAIN previous
              /\ es[i].metas = MetasOf(changes.leaves, es[i].key)
  <2>1. PICK j \in DOMAIN g : es[i] = g[j]
    BY <1>9, <1>10, <1>12
  <2>2. left[j] \in B
    BY <1>5, <1>9
  <2> QED BY <1>9, <2>1, <2>2 DEF B, MetasOf
<1> QED BY <1>10, <1>11, <1>12 DEF es

(* What the application has been told, or will be told: of everyone in the *)
(* state, and of nobody in it that he left.                                *)
Covered(state, told, es) ==
  \A k \in Keys, m \in Metas : m \in MetasOf(state, k) =>
    /\ \/ m \in MetasOf(told, k)
       \/ \E i \in DOMAIN es : /\ es[i].kind = "Joined" /\ es[i].key = k
                               /\ m \in es[i].metas
    /\ \A i \in DOMAIN es : es[i].kind = "Left" /\ es[i].key = k =>
                              m \notin es[i].metas

---------------------------------------------------------------------------
(* Queues.                                                                 *)

(* A queue with one more element at its end.                               *)
LEMMA Appended ==
  ASSUME NEW S, NEW s \in Seq(S), NEW c \in S
  PROVE  /\ Append(s, c) \in Seq(S) /\ Append(s, c) # <<>>
         /\ Len(s) \in Nat /\ Len(Append(s, c)) = Len(s) + 1
         /\ DOMAIN s = 1..Len(s) /\ DOMAIN Append(s, c) = 1..(Len(s) + 1)
         /\ \A i \in DOMAIN s : Append(s, c)[i] = s[i]
         /\ Append(s, c)[Len(s) + 1] = c
         /\ \A i \in DOMAIN Append(s, c) : i \in DOMAIN s \/ i = Len(s) + 1
         /\ Len(s) + 1 \in DOMAIN Append(s, c)
         /\ \A i \in DOMAIN s : i \in DOMAIN Append(s, c) /\ i \in Nat
                                /\ i < Len(s) + 1
OBVIOUS

(* A queue whose first element is taken.                                   *)
LEMMA Shifted ==
  ASSUME NEW S, NEW s \in Seq(S), s # <<>>
  PROVE  /\ Tail(s) \in Seq(S) /\ Head(s) \in S
         /\ Head(s) = s[1] /\ 1 \in DOMAIN s
         /\ Len(s) \in Nat /\ Len(Tail(s)) = Len(s) - 1 /\ Len(s) > 0
         /\ DOMAIN s = 1..Len(s) /\ DOMAIN Tail(s) = 1..(Len(s) - 1)
         /\ \A i \in DOMAIN Tail(s) :
              /\ i \in Nat /\ i + 1 \in DOMAIN s /\ Tail(s)[i] = s[i + 1] /\ i >= 1
         /\ \A i \in DOMAIN s : i = 1 \/ (/\ i - 1 \in DOMAIN Tail(s) /\ i > 1
                                           /\ Tail(s)[i - 1] = s[i])
<1> DEFINE t == Tail(s)
<1>1. /\ t \in Seq(S) /\ Len(s) \in Nat \ {0} /\ Head(s) \in S
      /\ DOMAIN s = 1..Len(s) /\ DOMAIN t = 1..(Len(s) - 1)
      /\ Len(t) = Len(s) - 1 /\ Len(s) > 0
      /\ Head(s) = s[1] /\ \A i \in 1..(Len(s) - 1) : t[i] = s[i + 1]
  OBVIOUS
<1> HIDE DEF t
<1>2. /\ 1 \in DOMAIN s
      /\ \A i \in DOMAIN t :
           i \in Nat /\ i + 1 \in DOMAIN s /\ t[i] = s[i + 1] /\ i >= 1
  BY <1>1
<1>3. \A i \in DOMAIN s : i = 1 \/ (/\ i - 1 \in DOMAIN t /\ i > 1
                                     /\ t[i - 1] = s[i])
  BY <1>1
<1> QED BY <1>1, <1>2, <1>3 DEF t

(* All diffs of a first queue were sent before those of a second one.      *)
Before(p, q) == \A i \in DOMAIN p, j \in DOMAIN q : Spares(p[i], q[j])

(* The diffs the tracker queued, those of the events and those not sent.   *)
Line(p, e, o) ==
  /\ Clean(p) /\ Clean(e) /\ Clean(o)
  /\ Before(p, e) /\ Before(p, o) /\ Before(e, o)

(* No changes spare, and are spared by, all others.                        *)
LEMMA NoChangesSpare == \A d : Spares(NoChanges, d) /\ Spares(d, NoChanges)
BY NobodyThere DEF Spares, Adds, Drops, NoChanges

(* A queue stays clean when its first diff is taken.                       *)
LEMMA CleanShifted ==
  ASSUME NEW q \in Seq(PresenceDiff), q # <<>>
  PROVE  /\ Clean(q) => /\ Clean(Tail(q)) /\ Spares(Head(q), Head(q))
                        /\ \A i \in DOMAIN Tail(q) : Spares(Head(q), Tail(q)[i])
         /\ \A p : Before(p, q) => /\ Before(p, Tail(q))
                                   /\ \A i \in DOMAIN p : Spares(p[i], Head(q))
         /\ \A p : Before(q, p) => /\ Before(Tail(q), p)
                                   /\ \A i \in DOMAIN p : Spares(Head(q), p[i])
<1> DEFINE t == Tail(q)
<1>1. /\ Head(q) = q[1] /\ 1 \in DOMAIN q
      /\ \A i \in DOMAIN t : i \in Nat /\ i + 1 \in DOMAIN q /\ t[i] = q[i + 1]
                             /\ i >= 1
  BY Shifted
<1>2. \A i, j \in DOMAIN t : i <= j => i + 1 <= j + 1
  BY <1>1
<1> HIDE DEF t
<1>3. ASSUME Clean(q)
      PROVE  /\ Clean(t) /\ Spares(Head(q), Head(q))
             /\ \A i \in DOMAIN t : Spares(Head(q), t[i])
  <2>1. Clean(t)
    BY <1>1, <1>2, <1>3 DEF Clean
  <2>2. Spares(Head(q), Head(q))
    BY <1>1, <1>3 DEF Clean
  <2>3. \A i \in DOMAIN t : 1 <= i + 1
    BY <1>1
  <2> QED BY <1>1, <1>3, <2>1, <2>2, <2>3 DEF Clean
<1> QED BY <1>1, <1>3 DEF Before, t

(* And when a diff is put at its end that those in it spare.               *)
LEMMA CleanAppended ==
  ASSUME NEW q \in Seq(PresenceDiff), NEW d \in PresenceDiff
  PROVE  /\ Clean(q) /\ Spares(d, d) /\ (\A i \in DOMAIN q : Spares(q[i], d)) =>
              Clean(Append(q, d))
         /\ \A p : Before(p, q) /\ (\A i \in DOMAIN p : Spares(p[i], d)) =>
              Before(p, Append(q, d))
         /\ \A p : Before(q, p) /\ (\A i \in DOMAIN p : Spares(d, p[i])) =>
              Before(Append(q, d), p)
<1> DEFINE t == Append(q, d)
           n == Len(q) + 1
<1>1. /\ t[n] = d /\ n \in DOMAIN t
      /\ \A i \in DOMAIN q : t[i] = q[i] /\ i < n
      /\ \A i \in DOMAIN t : i \in DOMAIN q \/ i = n
  BY Appended
<1>2. \A i \in DOMAIN q : ~(n <= i)
  BY <1>1, Appended
<1> HIDE DEF t, n
<1>3. ASSUME Clean(q), Spares(d, d), \A i \in DOMAIN q : Spares(q[i], d)
      PROVE  Clean(t)
  BY <1>1, <1>2, <1>3 DEF Clean
<1> QED BY <1>1, <1>3 DEF Before, t

(* A diff goes from the server to the stream, or is lost.                  *)
LEMMA LineSent ==
  ASSUME NEW p \in Seq(PresenceDiff), NEW e \in Seq(PresenceDiff),
         NEW o \in Seq(PresenceDiff), o # <<>>, Line(p, e, o)
  PROVE  Line(p, Append(e, Head(o)), Tail(o)) /\ Line(p, e, Tail(o))
<1>1. Head(o) \in PresenceDiff
  BY Shifted
<1>2. /\ Clean(Tail(o)) /\ Before(p, Tail(o)) /\ Before(e, Tail(o))
      /\ Spares(Head(o), Head(o))
      /\ \A i \in DOMAIN p : Spares(p[i], Head(o))
      /\ \A i \in DOMAIN e : Spares(e[i], Head(o))
      /\ \A i \in DOMAIN Tail(o) : Spares(Head(o), Tail(o)[i])
  BY CleanShifted DEF Line
<1>3. /\ Clean(Append(e, Head(o))) /\ Before(p, Append(e, Head(o)))
      /\ Before(Append(e, Head(o)), Tail(o))
  BY <1>1, <1>2, CleanAppended DEF Line
<1> QED BY <1>2, <1>3 DEF Line

(* A diff goes from the stream to the tracker, or is applied.              *)
LEMMA LineTaken ==
  ASSUME NEW p \in Seq(PresenceDiff), NEW e \in Seq(PresenceDiff),
         NEW o \in Seq(PresenceDiff), e # <<>>, Line(p, e, o)
  PROVE  Line(Append(p, Head(e)), Tail(e), o) /\ Line(p, Tail(e), o)
<1>1. Head(e) \in PresenceDiff
  BY Shifted
<1>2. /\ Clean(Tail(e)) /\ Before(p, Tail(e)) /\ Before(Tail(e), o)
      /\ Spares(Head(e), Head(e))
      /\ \A i \in DOMAIN p : Spares(p[i], Head(e))
      /\ \A i \in DOMAIN o : Spares(Head(e), o[i])
      /\ \A i \in DOMAIN Tail(e) : Spares(Head(e), Tail(e)[i])
  BY CleanShifted DEF Line
<1>3. /\ Clean(Append(p, Head(e))) /\ Before(Append(p, Head(e)), Tail(e))
      /\ Before(Append(p, Head(e)), o)
  BY <1>1, <1>2, CleanAppended DEF Line
<1> QED BY <1>2, <1>3 DEF Line

(* The tracker or the stream is emptied.                                   *)
LEMMA LineCleared ==
  ASSUME NEW p, NEW e, NEW o, Line(p, e, o)
  PROVE  Line(<<>>, e, o) /\ Line(p, <<>>, o)
BY DEF Line, Clean, Before

(* An event that carries no diff.                                          *)
LEMMA LineQuiet ==
  ASSUME NEW p \in Seq(PresenceDiff), NEW e \in Seq(PresenceDiff),
         NEW o \in Seq(PresenceDiff), Line(p, e, o)
  PROVE  Line(p, Append(e, NoChanges), o)
BY CleanAppended, NoChangesSpare, NobodyThere DEF Line

(* A new diff of the server.                                               *)
LEMMA LineGrows ==
  ASSUME NEW p \in Seq(PresenceDiff), NEW e \in Seq(PresenceDiff),
         NEW o \in Seq(PresenceDiff), Line(p, e, o),
         NEW d \in PresenceDiff, Spares(d, d),
         \A i \in DOMAIN p : Spares(p[i], d),
         \A i \in DOMAIN e : Spares(e[i], d),
         \A i \in DOMAIN o : Spares(o[i], d)
  PROVE  Line(p, e, Append(o, d))
BY CleanAppended DEF Line

---------------------------------------------------------------------------
(* The events of the stream.                                               *)

(* What the stream carries; Phoenix either pushes its diffs or not.        *)
StateFrames == {StateFrame(g, s) : g \in 1..MaxJoins, s \in PresenceState}

DiffFrames(pushes) ==
  {DiffFrame(g, d) : g \in IF pushes THEN 1..MaxJoins ELSE {0}, d \in PresenceDiff}

Breaks == {Other("Ended"), Other("Lagged")}

Frames(pushes) == StateFrames \cup DiffFrames(pushes) \cup Breaks

Break(f) == f.kind \in {"Ended", "Lagged"}

(* Only diffs carry one, and only states and pushed diffs a join_ref.      *)
LEMMA FrameFacts ==
  ASSUME NEW pushes \in BOOLEAN, NEW f \in Frames(pushes)
  PROVE  /\ f.kind \in {"State", "Diff", "Ended", "Lagged"}
         /\ f.join_ref \in 0..MaxJoins /\ f.join_ref \in Nat
         /\ f.state \in PresenceState /\ f.diff \in PresenceDiff
         /\ f.kind # "Diff" => f.diff = NoChanges
         /\ f.kind = "State" => f.join_ref # 0
         /\ Break(f) => f.join_ref = 0
         /\ f.kind = "Diff" => (f.join_ref # 0 <=> pushes)
<1>0. MaxJoins \in Nat
  BY PresenceBounds
<1>1. CASE f \in StateFrames
  <2>1. PICK g \in 1..MaxJoins, s \in PresenceState : f = StateFrame(g, s)
    BY <1>1 DEF StateFrames
  <2> QED BY <1>0, <2>1, NobodyThere DEF StateFrame, Break
<1>2. CASE f \in DiffFrames(pushes)
  <2>1. PICK g \in IF pushes THEN 1..MaxJoins ELSE {0}, d \in PresenceDiff :
          f = DiffFrame(g, d)
    BY <1>2 DEF DiffFrames
  <2>2. g \in 0..MaxJoins /\ (g # 0 <=> pushes)
    BY <1>0, <2>1
  <2> QED BY <1>0, <2>1, <2>2, NobodyThere DEF DiffFrame, Break
<1>3. CASE f \in Breaks
  BY <1>0, <1>3, NobodyThere DEF Breaks, Other, Break
<1> QED BY <1>1, <1>2, <1>3 DEF Frames

Diffs(evs) == [i \in DOMAIN evs |-> evs[i].diff]

(* The diffs of the events are a queue of their own.                       *)
LEMMA DiffsType ==
  ASSUME NEW pushes \in BOOLEAN, NEW evs \in Seq(Frames(pushes))
  PROVE  /\ Diffs(evs) \in Seq(PresenceDiff)
         /\ DOMAIN Diffs(evs) = DOMAIN evs
         /\ \A i \in DOMAIN evs : Diffs(evs)[i] = evs[i].diff /\ evs[i] \in Frames(pushes)
         /\ Diffs(evs) = <<>> <=> evs = <<>>
<1>1. DOMAIN evs = 1..Len(evs) /\ Len(evs) \in Nat
      /\ \A i \in DOMAIN evs : evs[i] \in Frames(pushes)
  OBVIOUS
<1>2. \A i \in DOMAIN evs : evs[i].diff \in PresenceDiff
  BY <1>1, FrameFacts
<1>3. Diffs(evs) \in Seq(PresenceDiff)
  BY <1>1, <1>2 DEF Diffs
<1>4. DOMAIN Diffs(evs) = DOMAIN evs
  BY DEF Diffs
<1>5. Diffs(evs) = <<>> <=> evs = <<>>
  BY <1>1, <1>3, <1>4
<1> QED BY <1>1, <1>3, <1>4, <1>5 DEF Diffs

(* It grows and shrinks with the events.                                   *)
LEMMA DiffsFollow ==
  ASSUME NEW pushes \in BOOLEAN, NEW evs \in Seq(Frames(pushes))
  PROVE  /\ \A f \in Frames(pushes) :
              Diffs(Append(evs, f)) = Append(Diffs(evs), f.diff)
         /\ evs # <<>> => /\ Diffs(Tail(evs)) = Tail(Diffs(evs))
                          /\ Head(Diffs(evs)) = Head(evs).diff
                          /\ Head(evs) \in Frames(pushes)
<1> DEFINE F == Frames(pushes)
           ds == Diffs(evs)
<1>1. /\ ds \in Seq(PresenceDiff) /\ DOMAIN ds = DOMAIN evs
      /\ \A i \in DOMAIN evs : ds[i] = evs[i].diff
      /\ evs \in Seq(F)
  BY DiffsType
<1>2. ASSUME NEW f \in F
      PROVE  Diffs(Append(evs, f)) = Append(ds, f.diff)
  <2> DEFINE a == Diffs(Append(evs, f))
             b == Append(ds, f.diff)
             n == Len(evs) + 1
  <2>1. f.diff \in PresenceDiff
    BY FrameFacts
  <2>2. Len(ds) = Len(evs)
    BY <1>1
  <2>3. /\ DOMAIN a = 1..n /\ DOMAIN Append(evs, f) = 1..n
        /\ \A i \in 1..n : a[i] = Append(evs, f)[i].diff
    BY Appended DEF Diffs
  <2>4. /\ b \in Seq(PresenceDiff) /\ DOMAIN b = 1..n /\ b[n] = f.diff
        /\ \A i \in DOMAIN evs : b[i] = evs[i].diff
    BY <1>1, <2>1, <2>2, Appended
  <2>5. /\ Append(evs, f)[n] = f /\ \A i \in DOMAIN evs : Append(evs, f)[i] = evs[i]
        /\ \A i \in 1..n : i \in DOMAIN evs \/ i = n
    BY Appended
  <2>6. \A i \in 1..n : a[i] = b[i]
    BY <2>3, <2>4, <2>5
  <2>7. a = [i \in 1..n |-> a[i]] /\ b = [i \in 1..n |-> b[i]]
    BY <2>3, <2>4 DEF Diffs
  <2> HIDE DEF a, b, n
  <2>8. a = b
    BY <2>6, <2>7
  <2> QED BY <2>8 DEF a, b
<1>3. ASSUME evs # <<>>
      PROVE  /\ Diffs(Tail(evs)) = Tail(ds) /\ Head(ds) = Head(evs).diff
             /\ Head(evs) \in F
  <2> DEFINE a == Diffs(Tail(evs))
             b == Tail(ds)
             D == 1..(Len(evs) - 1)
  <2>1. ds # <<>> /\ Len(ds) = Len(evs)
    BY <1>1, <1>3
  <2>2. /\ DOMAIN a = D /\ \A i \in D : a[i] = Tail(evs)[i].diff
    BY <1>3, Shifted DEF Diffs
  <2>3. \A i \in D : Tail(evs)[i] = evs[i + 1] /\ i + 1 \in DOMAIN evs
    BY <1>3, Shifted
  <2>4. DOMAIN b = D /\ (\A i \in D : b[i] = ds[i + 1]) /\ b \in Seq(PresenceDiff)
        /\ Head(ds) = ds[1] /\ 1 \in DOMAIN ds
    BY <1>1, <2>1, Shifted
  <2>5. \A i \in D : a[i] = b[i]
    BY <1>1, <2>2, <2>3, <2>4
  <2>6. a = [i \in D |-> a[i]] /\ b = [i \in D |-> b[i]]
    BY <2>2, <2>4 DEF Diffs
  <2>7. Head(evs) \in F /\ Head(evs) = evs[1]
    BY <1>3, Shifted
  <2> HIDE DEF a, b, D
  <2>8. a = b
    BY <2>5, <2>6
  <2>9. Head(ds) = Head(evs).diff
    BY <1>1, <2>4, <2>7
  <2> QED BY <2>7, <2>8, <2>9 DEF a, b
<1> QED BY <1>2, <1>3

(* No event after the i-th tells of an end or of lost events.              *)
Whole(evs, i) == \A j \in DOMAIN evs : j > i => ~Break(evs[j])

(* A diff that is still to come adds a meta, or drops it.                  *)
Coming(evs, i, out, k, m) ==
  \/ \E j \in DOMAIN evs : j > i /\ Adds(evs[j].diff, k, m)
  \/ \E j \in DOMAIN out : Adds(out[j], k, m)

Going(evs, i, out, k, m) ==
  \/ \E j \in DOMAIN evs : j > i /\ Drops(evs[j].diff, k, m)
  \/ \E j \in DOMAIN out : Drops(out[j], k, m)

(* What is to come when the first event was taken ...                      *)
LEMMA ToComeShifted ==
  ASSUME NEW F, NEW evs \in Seq(F), evs # <<>>, NEW out
  PROVE  /\ \A i \in DOMAIN Tail(evs) :
              /\ Whole(Tail(evs), i) => Whole(evs, i + 1)
              /\ \A k, m : /\ Coming(evs, i + 1, out, k, m) =>
                                Coming(Tail(evs), i, out, k, m)
                           /\ Going(evs, i + 1, out, k, m) =>
                                Going(Tail(evs), i, out, k, m)
         /\ Whole(evs, 0) <=> ~Break(Head(evs)) /\ Whole(Tail(evs), 0)
         /\ Whole(evs, 1) <=> Whole(Tail(evs), 0)
         /\ \A k, m : /\ Coming(evs, 1, out, k, m) <=> Coming(Tail(evs), 0, out, k, m)
                      /\ Going(evs, 1, out, k, m) <=> Going(Tail(evs), 0, out, k, m)
         /\ \A k, m : /\ Coming(evs, 0, out, k, m) <=>
                           \/ Adds(Head(evs).diff, k, m)
                           \/ Coming(Tail(evs), 0, out, k, m)
                      /\ Going(evs, 0, out, k, m) <=>
                           \/ Drops(Head(evs).diff, k, m)
                           \/ Going(Tail(evs), 0, out, k, m)
<1> DEFINE t == Tail(evs)
<1>1. /\ Head(evs) = evs[1] /\ 1 \in DOMAIN evs
      /\ \A i \in DOMAIN t : i \in Nat /\ i + 1 \in DOMAIN evs /\ t[i] = evs[i + 1]
                             /\ i >= 1
      /\ \A i \in DOMAIN evs : i = 1 \/ (i - 1 \in DOMAIN t /\ i > 1 /\ t[i - 1] = evs[i])
      /\ \A i \in DOMAIN evs : i \in Nat /\ i > 0
  BY Shifted
<1>2. \A i, j \in DOMAIN t : j > i <=> j + 1 > i + 1
  BY <1>1
<1>3. \A i \in DOMAIN t, j \in DOMAIN evs :
        j > i + 1 => j - 1 \in DOMAIN t /\ t[j - 1] = evs[j] /\ j - 1 > i
  BY <1>1
<1>4. \A i \in DOMAIN t : i > 0
  BY <1>1
<1> HIDE DEF t
<1>5. ASSUME NEW i \in DOMAIN t
      PROVE  /\ Whole(t, i) => Whole(evs, i + 1)
             /\ \A k, m : /\ Coming(evs, i + 1, out, k, m) => Coming(t, i, out, k, m)
                          /\ Going(evs, i + 1, out, k, m) => Going(t, i, out, k, m)
  <2>1. Whole(t, i) => Whole(evs, i + 1)
    BY <1>3 DEF Whole
  <2>2. \A k, m : Coming(evs, i + 1, out, k, m) => Coming(t, i, out, k, m)
    BY <1>3 DEF Coming
  <2>3. \A k, m : Going(evs, i + 1, out, k, m) => Going(t, i, out, k, m)
    BY <1>3 DEF Going
  <2> QED BY <2>1, <2>2, <2>3
<1>6. \A i \in DOMAIN evs : i > 0 /\ (i = 1 \/ \E j \in DOMAIN t : t[j] = evs[i])
  BY <1>1
<1>7. \A j \in DOMAIN t : j > 0 /\ \E i \in DOMAIN evs : t[j] = evs[i]
  BY <1>1
<1>8. Whole(evs, 0) <=> ~Break(Head(evs)) /\ Whole(t, 0)
  BY <1>1, <1>6, <1>7 DEF Whole
<1>9. ASSUME NEW k, NEW m
      PROVE  /\ Coming(evs, 0, out, k, m) <=>
                  Adds(Head(evs).diff, k, m) \/ Coming(t, 0, out, k, m)
             /\ Going(evs, 0, out, k, m) <=>
                  Drops(Head(evs).diff, k, m) \/ Going(t, 0, out, k, m)
  <2>1. Coming(evs, 0, out, k, m) <=>
          Adds(Head(evs).diff, k, m) \/ Coming(t, 0, out, k, m)
    BY <1>1, <1>6, <1>7 DEF Coming
  <2>2. Going(evs, 0, out, k, m) <=>
          Drops(Head(evs).diff, k, m) \/ Going(t, 0, out, k, m)
    BY <1>1, <1>6, <1>7 DEF Going
  <2> QED BY <2>1, <2>2
<1>10. \A i \in DOMAIN evs : i > 1 => \E j \in DOMAIN t : t[j] = evs[i] /\ j > 0
  <2>1. \A i \in DOMAIN evs : i > 1 => i - 1 \in DOMAIN t /\ t[i - 1] = evs[i]
    BY <1>1
  <2> QED BY <1>4, <2>1
<1>11. \A j \in DOMAIN t : \E i \in DOMAIN evs : t[j] = evs[i] /\ i > 1
  BY <1>1
<1>12. Whole(evs, 1) <=> Whole(t, 0)
  BY <1>4, <1>10, <1>11 DEF Whole
<1>13. ASSUME NEW k, NEW m
       PROVE  /\ Coming(evs, 1, out, k, m) <=> Coming(t, 0, out, k, m)
              /\ Going(evs, 1, out, k, m) <=> Going(t, 0, out, k, m)
  <2>1. Coming(evs, 1, out, k, m) <=> Coming(t, 0, out, k, m)
    BY <1>4, <1>10, <1>11 DEF Coming
  <2>2. Going(evs, 1, out, k, m) <=> Going(t, 0, out, k, m)
    BY <1>4, <1>10, <1>11 DEF Going
  <2> QED BY <2>1, <2>2
<1> QED BY <1>5, <1>8, <1>9, <1>12, <1>13 DEF t

(* ... and when another event is queued.                                   *)
LEMMA ToComeAppended ==
  ASSUME NEW F, NEW evs \in Seq(F), NEW f \in F, NEW out
  PROVE  LET t == Append(evs, f)
         IN  \A i \in DOMAIN evs \cup {0} :
               /\ Whole(t, i) <=> Whole(evs, i) /\ ~Break(f)
               /\ \A k, m : /\ Coming(t, i, out, k, m) <=>
                                 Coming(evs, i, out, k, m) \/ Adds(f.diff, k, m)
                            /\ Going(t, i, out, k, m) <=>
                                 Going(evs, i, out, k, m) \/ Drops(f.diff, k, m)
<1> DEFINE t == Append(evs, f)
           n == Len(evs) + 1
<1>1. /\ t[n] = f /\ n \in DOMAIN t
      /\ \A i \in DOMAIN evs : t[i] = evs[i] /\ i \in DOMAIN t
      /\ \A i \in DOMAIN t : i \in DOMAIN evs \/ i = n
      /\ \A i \in DOMAIN evs \cup {0} : n > i
  BY Appended
<1> HIDE DEF t, n
<1> SUFFICES ASSUME NEW i \in DOMAIN evs \cup {0}
             PROVE  /\ Whole(t, i) <=> Whole(evs, i) /\ ~Break(f)
                    /\ \A k, m : /\ Coming(t, i, out, k, m) <=>
                                      Coming(evs, i, out, k, m) \/ Adds(f.diff, k, m)
                                 /\ Going(t, i, out, k, m) <=>
                                      Going(evs, i, out, k, m) \/ Drops(f.diff, k, m)
  BY DEF t
<1>2. Whole(t, i) <=> Whole(evs, i) /\ ~Break(f)
  BY <1>1 DEF Whole
<1>3. \A k, m : Coming(t, i, out, k, m) <=>
                  Coming(evs, i, out, k, m) \/ Adds(f.diff, k, m)
  BY <1>1 DEF Coming
<1>4. \A k, m : Going(t, i, out, k, m) <=>
                  Going(evs, i, out, k, m) \/ Drops(f.diff, k, m)
  BY <1>1 DEF Going
<1> QED BY <1>2, <1>3, <1>4

---------------------------------------------------------------------------
(***************************************************************************)
(* The invariant, in terms of the values it is about: a tracker t that has *)
(* yet to take the events evs of a stream that is lagging or not, diffs    *)
(* `out` that the server has yet to send, its presences `now`, the metas   *)
(* that were used, and the generation gen.                                 *)
(***************************************************************************)

(* A diff drops metas that are used and gone.                              *)
Past(q, now, metas) ==
  \A i \in DOMAIN q : \A k \in Keys, m \in Metas :
    Drops(q[i], k, m) => m \in metas /\ m \notin MetasOf(now, k)

Order(t, evs, out, now, metas) ==
  /\ Line(t.pending_diffs, Diffs(evs), out)
  /\ Past(t.pending_diffs, now, metas)
  /\ Past(Diffs(evs), now, metas) /\ Past(out, now, metas)
  /\ \A k \in Keys : MetasOf(now, k) \subseteq metas

(* A state and the diffs after the i-th event make up the presences.       *)
Current(s, evs, i, out, now) ==
  \A k \in Keys, m \in Metas :
    /\ m \in MetasOf(now, k) => m \in MetasOf(s, k) \/ Coming(evs, i, out, k, m)
    /\ m \in MetasOf(s, k) => m \in MetasOf(now, k) \/ Going(evs, i, out, k, m)

(* What was added is present, or a diff that drops it is still to come.    *)
(* Frames are of one generation until it ends, and a pushed state is       *)
(* current.  A stream that is lagging has lost events and says nothing.    *)
Stream(evs, lag, strayed, out, now, gen, pushes) ==
  /\ pushes => ~strayed
  /\ \A i \in DOMAIN out : \A k \in Keys, m \in Metas : Adds(out[i], k, m) =>
       m \in MetasOf(now, k) \/ \E j \in DOMAIN out : Drops(out[j], k, m)
  /\ \A i, j \in DOMAIN evs :
       /\ i < j /\ evs[i].join_ref # 0 /\ evs[j].join_ref # 0
       /\ \A l \in DOMAIN evs : i < l /\ l < j => ~Break(evs[l])
       => evs[i].join_ref = evs[j].join_ref
  /\ ~lag => \A i \in DOMAIN evs :
       evs[i].join_ref # 0 /\ Whole(evs, i) => evs[i].join_ref = gen
  /\ ~lag /\ ~strayed => \A i \in DOMAIN evs : Whole(evs, i) =>
       \A k \in Keys, m \in Metas : Adds(evs[i].diff, k, m) =>
         gen # 0 /\ (m \in MetasOf(now, k) \/ Going(evs, i, out, k, m))
  /\ ~lag /\ pushes => \A i \in DOMAIN evs :
       evs[i].kind = "State" /\ Whole(evs, i) =>
         Current(evs[i].state, evs, i, out, now)

(* The same of the tracker.  It queues no diff of the generation it has    *)
(* the state of.                                                           *)
Tracking(t, evs, lag, strayed, out, now, gen, pushes) ==
  /\ t.join_ref = 0 => t.state = Nobody
  /\ t.join_ref # 0 => \A i \in DOMAIN evs :
       /\ evs[i].join_ref # 0
       /\ \A l \in DOMAIN evs : l < i => ~Break(evs[l])
       => evs[i].join_ref = t.join_ref
  /\ pushes /\ t.join_ref # 0 => t.pending_diffs = <<>>
  /\ ~lag /\ t.join_ref # 0 /\ Whole(evs, 0) => t.join_ref = gen
  /\ ~lag /\ ~strayed /\ Whole(evs, 0) => \A i \in DOMAIN t.pending_diffs :
       \A k \in Keys, m \in Metas : Adds(t.pending_diffs[i], k, m) =>
         /\ gen # 0
         /\ \/ m \in MetasOf(now, k) \/ Going(evs, 0, out, k, m)
            \/ \E j \in DOMAIN t.pending_diffs : Drops(t.pending_diffs[j], k, m)
  /\ ~lag /\ pushes /\ t.join_ref # 0 /\ Whole(evs, 0) =>
       Current(t.state, evs, 0, out, now)

(* A new tracker is good for any stream.                                   *)
LEMMA NewTracking ==
  ASSUME NEW evs, NEW lag, NEW strayed, NEW out, NEW now, NEW gen, NEW pushes
  PROVE  Tracking(NewTracker, evs, lag, strayed, out, now, gen, pushes)
BY DEF Tracking, NewTracker

(* And keeps no diff that could be out of order.                           *)
LEMMA NewOrder ==
  ASSUME NEW t, NEW evs, NEW out, NEW now, NEW metas, Order(t, evs, out, now, metas)
  PROVE  /\ Order(NewTracker, evs, out, now, metas)
         /\ \A u : u.pending_diffs = <<>> => Order(u, evs, out, now, metas)
BY LineCleared DEF Order, NewTracker, Past

(* An event is taken: the stream.                                          *)
LEMMA StreamShifted ==
  ASSUME NEW pushes \in BOOLEAN, NEW evs \in Seq(Frames(pushes)), evs # <<>>,
         NEW lag, NEW strayed, NEW out, NEW now, NEW gen,
         Stream(evs, lag, strayed, out, now, gen, pushes)
  PROVE  Stream(Tail(evs), lag, strayed, out, now, gen, pushes)
<1> DEFINE t == Tail(evs)
<1>1. /\ \A i \in DOMAIN t : i \in Nat /\ i + 1 \in DOMAIN evs /\ t[i] = evs[i + 1]
                             /\ i >= 1
      /\ \A i \in DOMAIN evs : i = 1 \/ (i - 1 \in DOMAIN t /\ i > 1 /\ t[i - 1] = evs[i])
      /\ \A i \in DOMAIN evs : i \in Nat
  BY Shifted
<1>2. \A i, j \in DOMAIN t : i < j => i + 1 < j + 1
  BY <1>1
<1>3. \A i, j \in DOMAIN t, l \in DOMAIN evs :
        i + 1 < l /\ l < j + 1 => l - 1 \in DOMAIN t /\ t[l - 1] = evs[l]
                                  /\ i < l - 1 /\ l - 1 < j
  BY <1>1
<1>4. \A i \in DOMAIN t :
        /\ Whole(t, i) => Whole(evs, i + 1)
        /\ \A k, m : /\ Coming(evs, i + 1, out, k, m) => Coming(t, i, out, k, m)
                     /\ Going(evs, i + 1, out, k, m) => Going(t, i, out, k, m)
  BY ToComeShifted
<1> HIDE DEF t
<1>5. \A i, j \in DOMAIN t :
        /\ i < j /\ t[i].join_ref # 0 /\ t[j].join_ref # 0
        /\ \A l \in DOMAIN t : i < l /\ l < j => ~Break(t[l])
        => t[i].join_ref = t[j].join_ref
  <2> SUFFICES ASSUME NEW i \in DOMAIN t, NEW j \in DOMAIN t,
                      i < j, t[i].join_ref # 0, t[j].join_ref # 0,
                      \A l \in DOMAIN t : i < l /\ l < j => ~Break(t[l])
               PROVE  t[i].join_ref = t[j].join_ref
    OBVIOUS
  <2>1. \A l \in DOMAIN evs : i + 1 < l /\ l < j + 1 => ~Break(evs[l])
    BY <1>3
  <2>2. /\ i + 1 \in DOMAIN evs /\ j + 1 \in DOMAIN evs /\ i + 1 < j + 1
        /\ evs[i + 1] = t[i] /\ evs[j + 1] = t[j]
    BY <1>1, <1>2
  <2> QED BY <2>1, <2>2 DEF Stream
<1>6. ~lag => \A i \in DOMAIN t :
        t[i].join_ref # 0 /\ Whole(t, i) => t[i].join_ref = gen
  BY <1>1, <1>4 DEF Stream
<1>7. ~lag /\ ~strayed => \A i \in DOMAIN t : Whole(t, i) =>
        \A k \in Keys, m \in Metas : Adds(t[i].diff, k, m) =>
          gen # 0 /\ (m \in MetasOf(now, k) \/ Going(t, i, out, k, m))
  BY <1>1, <1>4 DEF Stream
<1>8. ~lag /\ pushes => \A i \in DOMAIN t : t[i].kind = "State" /\ Whole(t, i) =>
        Current(t[i].state, t, i, out, now)
  <2> SUFFICES ASSUME ~lag, pushes, NEW i \in DOMAIN t,
                      t[i].kind = "State", Whole(t, i)
               PROVE  Current(t[i].state, t, i, out, now)
    OBVIOUS
  <2>1. Current(t[i].state, evs, i + 1, out, now)
    BY <1>1, <1>4 DEF Stream
  <2> QED BY <1>4, <2>1 DEF Current
<1> QED BY <1>5, <1>6, <1>7, <1>8 DEF Stream, t

(* The order of what is left.                                              *)
LEMMA OrderShifted ==
  ASSUME NEW pushes \in BOOLEAN, NEW evs \in Seq(Frames(pushes)), evs # <<>>,
         NEW t \in Trackers, NEW out \in Seq(PresenceDiff), NEW now, NEW metas,
         Order(t, evs, out, now, metas)
  PROVE  /\ Order(t, Tail(evs), out, now, metas)
         /\ Order([t EXCEPT !.pending_diffs = Append(@, Head(evs).diff)],
                  Tail(evs), out, now, metas)
<1> DEFINE e == Diffs(evs)
           p == t.pending_diffs
           u == [t EXCEPT !.pending_diffs = Append(@, Head(evs).diff)]
<1>1. /\ e \in Seq(PresenceDiff) /\ e # <<>> /\ Diffs(Tail(evs)) = Tail(e)
      /\ Head(e) = Head(evs).diff /\ Head(evs) \in Frames(pushes)
  BY DiffsType, DiffsFollow
<1>2. Head(e) \in PresenceDiff /\ p \in Seq(PresenceDiff)
  BY <1>1, FrameFacts DEF Trackers
<1>3. Line(Append(p, Head(e)), Tail(e), out) /\ Line(p, Tail(e), out)
  BY <1>1, <1>2, LineTaken DEF Order
<1>4. Past(Tail(e), now, metas)
  BY <1>1, Shifted DEF Order, Past
<1>5. Past(Append(p, Head(e)), now, metas)
  <2>1. \A i \in DOMAIN Append(p, Head(e)) :
          \/ i \in DOMAIN p /\ Append(p, Head(e))[i] = p[i]
          \/ Append(p, Head(e))[i] = e[1]
    BY <1>1, <1>2, Appended, Shifted
  <2>2. 1 \in DOMAIN e
    BY <1>1, Shifted
  <2>3. Past(p, now, metas) /\ Past(e, now, metas)
    BY DEF Order
  <2> HIDE DEF p, e
  <2> QED BY <2>1, <2>2, <2>3 DEF Past
<1>6. u.pending_diffs = Append(p, Head(e))
  BY <1>1 DEF Trackers
<1> HIDE DEF e, p, u
<1> QED BY <1>1, <1>3, <1>4, <1>5, <1>6 DEF Order, e, p, u

(* What a tracker makes of the first event keeps it on the track: a state  *)
(* with the diffs it queued makes up the presences, in whatever order the  *)
(* diffs and the state were sent.                                          *)
LEMMA StateTaken ==
  ASSUME NEW pushes \in BOOLEAN, NEW evs \in Seq(Frames(pushes)), evs # <<>>,
         NEW t \in Trackers, NEW out \in Seq(PresenceDiff),
         NEW now \in PresenceState, NEW metas, NEW gen, NEW lag, NEW strayed,
         Order(t, evs, out, now, metas),
         Stream(evs, lag, strayed, out, now, gen, pushes),
         Tracking(t, evs, lag, strayed, out, now, gen, pushes),
         Head(evs).kind = "State"
  PROVE  LET u == ApplyState(t, Head(evs)).tracker
         IN  /\ u \in Trackers /\ u.pending_diffs = <<>>
             /\ Tracking(u, Tail(evs), lag, strayed, out, now, gen, pushes)
<1> DEFINE f == Head(evs)
           r == Tail(evs)
           q == t.pending_diffs
           u == ApplyState(t, f).tracker
<1>1. /\ f \in Frames(pushes) /\ f = evs[1] /\ 1 \in DOMAIN evs
      /\ \A i \in DOMAIN r : i \in Nat /\ i >= 1 /\ i + 1 \in DOMAIN evs
                             /\ r[i] = evs[i + 1]
      /\ \A i \in DOMAIN evs :
           i = 1 \/ (i - 1 \in DOMAIN r /\ i > 1 /\ r[i - 1] = evs[i])
      /\ \A i \in DOMAIN evs : i \in Nat
  BY Shifted
<1>2. /\ f.join_ref \in 0..MaxJoins /\ f.join_ref # 0 /\ f.state \in PresenceState
      /\ f.diff = NoChanges /\ ~Break(f)
  BY <1>1, FrameFacts DEF Break
<1>3. Clean(q) /\ Past(q, now, metas)
  BY DEF Order, Line
<1>4. /\ u = [state |-> u.state, join_ref |-> f.join_ref, pending_diffs |-> <<>>]
      /\ u.state \in PresenceState
      /\ \A k \in Keys, m \in Metas :
           m \in MetasOf(u.state, k) <=> Folded(f.state, q, Len(q), k, m)
  BY <1>2, <1>3, ApplyStateEffect
<1>5. DOMAIN q = 1..Len(q)
  BY DEF Trackers
<1>6. /\ Whole(evs, 0) <=> Whole(r, 0)
      /\ Whole(evs, 1) <=> Whole(r, 0)
      /\ \A k, m : /\ Coming(evs, 1, out, k, m) <=> Coming(r, 0, out, k, m)
                   /\ Going(evs, 1, out, k, m) <=> Going(r, 0, out, k, m)
                   /\ Going(evs, 0, out, k, m) <=> Drops(f.diff, k, m)
                                                   \/ Going(r, 0, out, k, m)
  BY <1>2, ToComeShifted
<1>7. \A i \in DOMAIN r :
        /\ r[i].join_ref # 0
        /\ \A l \in DOMAIN r : l < i => ~Break(r[l])
        => r[i].join_ref = f.join_ref
  <2> SUFFICES ASSUME NEW i \in DOMAIN r, r[i].join_ref # 0,
                      \A l \in DOMAIN r : l < i => ~Break(r[l])
               PROVE  r[i].join_ref = f.join_ref
    OBVIOUS
  <2>1. \A l \in DOMAIN evs : 1 < l /\ l < i + 1 =>
          l - 1 \in DOMAIN r /\ r[l - 1] = evs[l] /\ l - 1 < i
    BY <1>1
  <2>2. \A l \in DOMAIN evs : 1 < l /\ l < i + 1 => ~Break(evs[l])
    BY <2>1
  <2>3. i + 1 \in DOMAIN evs /\ 1 < i + 1 /\ evs[i + 1] = r[i]
    BY <1>1
  <2> HIDE DEF f, r
  <2> QED BY <1>1, <1>2, <2>2, <2>3 DEF Stream
<1> HIDE DEF f, r, q, u
<1>8. ~lag /\ Whole(r, 0) => f.join_ref = gen
  BY <1>1, <1>2, <1>6 DEF Stream
<1>9. ASSUME ~lag, pushes, Whole(r, 0)
      PROVE  Current(u.state, r, 0, out, now)
  <2>1. Current(f.state, evs, 1, out, now)
    BY <1>1, <1>6, <1>9 DEF Stream, f
  <2>2. ~strayed
    BY <1>9 DEF Stream
  <2>3. \A i \in DOMAIN q : \A k \in Keys, m \in Metas : Adds(q[i], k, m) =>
          \/ m \in MetasOf(now, k) \/ Going(r, 0, out, k, m)
          \/ \E j \in DOMAIN q : Drops(q[j], k, m)
    BY <1>2, <1>6, <1>9, <2>2, NoChangesSpare, NobodyThere
      DEF Tracking, q, Drops, NoChanges
  <2>4. ASSUME NEW k \in Keys, NEW m \in Metas, m \in MetasOf(now, k)
        PROVE  m \in MetasOf(u.state, k) \/ Coming(r, 0, out, k, m)
    BY <1>3, <1>4, <1>5, <1>6, <2>1, <2>4 DEF Past, Folded, Current
  <2>5. ASSUME NEW k \in Keys, NEW m \in Metas, m \in MetasOf(u.state, k)
        PROVE  m \in MetasOf(now, k) \/ Going(r, 0, out, k, m)
    BY <1>4, <1>5, <1>6, <2>1, <2>3, <2>5 DEF Folded, Current
  <2> QED BY <2>4, <2>5 DEF Current
<1>10. u \in Trackers /\ u.join_ref = f.join_ref /\ u.pending_diffs = <<>>
  <2>1. <<>> \in Seq(PresenceDiff)
    OBVIOUS
  <2>2. \A s \in PresenceState :
          [state |-> s, join_ref |-> f.join_ref, pending_diffs |-> <<>>] \in Trackers
    BY <1>2, <2>1 DEF Trackers
  <2>3. u \in Trackers
    BY <1>4, <2>2
  <2> QED BY <1>4, <2>3
<1>11. Tracking(u, r, lag, strayed, out, now, gen, pushes)
  BY <1>2, <1>7, <1>8, <1>9, <1>10 DEF Tracking
<1> QED BY <1>10, <1>11 DEF u, r, f

(* A diff of another join, or the tracker has no state: it is queued.  One *)
(* of the join it has the state of: it is applied.                         *)
LEMMA DiffTaken ==
  ASSUME NEW pushes \in BOOLEAN, NEW evs \in Seq(Frames(pushes)), evs # <<>>,
         NEW t \in Trackers, NEW out \in Seq(PresenceDiff),
         NEW now \in PresenceState, NEW metas, NEW gen, NEW lag, NEW strayed,
         Order(t, evs, out, now, metas),
         Stream(evs, lag, strayed, out, now, gen, pushes),
         Tracking(t, evs, lag, strayed, out, now, gen, pushes),
         Head(evs).kind = "Diff"
  PROVE  LET u == ApplyDiff(t, Head(evs)).tracker
         IN  /\ u \in Trackers
             /\ Order(u, Tail(evs), out, now, metas)
             /\ Tracking(u, Tail(evs), lag, strayed, out, now, gen, pushes)
<1> DEFINE f == Head(evs)
           r == Tail(evs)
           q == t.pending_diffs
           u == ApplyDiff(t, f).tracker
<1>1. /\ f \in Frames(pushes) /\ f = evs[1] /\ 1 \in DOMAIN evs
      /\ \A i \in DOMAIN r : i \in Nat /\ i >= 1 /\ i + 1 \in DOMAIN evs
                             /\ r[i] = evs[i + 1]
      /\ \A i \in DOMAIN evs :
           i = 1 \/ (i - 1 \in DOMAIN r /\ i > 1 /\ r[i - 1] = evs[i])
      /\ \A i \in DOMAIN evs : i \in Nat
  BY Shifted
<1>2. /\ f.diff \in PresenceDiff /\ ~Break(f) /\ (f.join_ref # 0 <=> pushes)
      /\ f.join_ref \in Nat
  BY <1>1, FrameFacts DEF Break
<1>3. /\ t.state \in PresenceState /\ t.join_ref \in 0..MaxJoins
      /\ q \in Seq(PresenceDiff)
      /\ t = [state |-> t.state, join_ref |-> t.join_ref, pending_diffs |-> q]
  BY DEF Trackers
<1>4. /\ Whole(evs, 0) <=> Whole(r, 0)
      /\ Whole(evs, 1) <=> Whole(r, 0)
      /\ \A k, m : /\ Going(evs, 1, out, k, m) <=> Going(r, 0, out, k, m)
                   /\ Coming(evs, 0, out, k, m) <=> Adds(f.diff, k, m)
                                                    \/ Coming(r, 0, out, k, m)
                   /\ Going(evs, 0, out, k, m) <=> Drops(f.diff, k, m)
                                                   \/ Going(r, 0, out, k, m)
  BY <1>2, ToComeShifted
<1>5. t.join_ref # 0 => \A i \in DOMAIN r :
        /\ r[i].join_ref # 0
        /\ \A l \in DOMAIN r : l < i => ~Break(r[l])
        => r[i].join_ref = t.join_ref
  <2> SUFFICES ASSUME t.join_ref # 0, NEW i \in DOMAIN r, r[i].join_ref # 0,
                      \A l \in DOMAIN r : l < i => ~Break(r[l])
               PROVE  r[i].join_ref = t.join_ref
    OBVIOUS
  <2>1. \A l \in DOMAIN evs : l < i + 1 =>
          l = 1 \/ (l - 1 \in DOMAIN r /\ r[l - 1] = evs[l] /\ l - 1 < i)
    BY <1>1
  <2>2. \A l \in DOMAIN evs : l < i + 1 => ~Break(evs[l])
    BY <1>1, <1>2, <2>1
  <2>3. i + 1 \in DOMAIN evs /\ evs[i + 1] = r[i]
    BY <1>1
  <2> HIDE DEF f, r
  <2> QED BY <2>2, <2>3 DEF Tracking
<1>6. pushes /\ t.join_ref # 0 => f.join_ref = t.join_ref
  <2>1. \A l \in DOMAIN evs : ~(l < 1)
    BY <1>1
  <2> QED BY <1>1, <1>2, <2>1 DEF Tracking
<1>7. ~lag /\ ~strayed /\ Whole(r, 0) =>
        \A k \in Keys, m \in Metas : Adds(f.diff, k, m) =>
          gen # 0 /\ (m \in MetasOf(now, k) \/ Going(r, 0, out, k, m))
  BY <1>1, <1>4 DEF Stream
<1>8. \A k \in Keys, m \in Metas : Drops(f.diff, k, m) => m \notin MetasOf(now, k)
  <2>1. Diffs(evs)[1] = f.diff /\ 1 \in DOMAIN Diffs(evs)
    BY <1>1, DiffsType
  <2> QED BY <2>1 DEF Order, Past
<1>9. /\ Order(t, r, out, now, metas)
      /\ Order([t EXCEPT !.pending_diffs = Append(@, f.diff)], r, out, now, metas)
  BY OrderShifted
<1>10. CASE t.join_ref = 0 \/ t.join_ref # f.join_ref
  <2> DEFINE n == Len(q) + 1
             p == Append(q, f.diff)
  <2>1. u = [t EXCEPT !.pending_diffs = Append(@, f.diff)]
    BY <1>10 DEF ApplyDiff
  <2>2. /\ u.state = t.state /\ u.join_ref = t.join_ref /\ u.pending_diffs = p
        /\ u = [state |-> t.state, join_ref |-> t.join_ref, pending_diffs |-> p]
    BY <1>3, <2>1
  <2>3. /\ p \in Seq(PresenceDiff) /\ p[n] = f.diff /\ n \in DOMAIN p
        /\ \A i \in DOMAIN q : p[i] = q[i] /\ i \in DOMAIN p
        /\ \A i \in DOMAIN p : i \in DOMAIN q \/ i = n
    BY <1>2, <1>3, Appended
  <2>4. u \in Trackers
    BY <1>3, <2>2, <2>3 DEF Trackers
  <2>5. ~(pushes /\ t.join_ref # 0)
    BY <1>6, <1>10
  <2> HIDE DEF n, p, f, r, u
  <2>6. ASSUME ~lag, ~strayed, Whole(r, 0), NEW i \in DOMAIN p,
               NEW k \in Keys, NEW m \in Metas, Adds(p[i], k, m)
        PROVE  /\ gen # 0
               /\ \/ m \in MetasOf(now, k) \/ Going(r, 0, out, k, m)
                  \/ \E j \in DOMAIN p : Drops(p[j], k, m)
    <3>1. CASE i \in DOMAIN q
      <4>1. /\ gen # 0
            /\ \/ m \in MetasOf(now, k) \/ Going(evs, 0, out, k, m)
               \/ \E j \in DOMAIN q : Drops(q[j], k, m)
        BY <1>4, <2>3, <2>6, <3>1 DEF Tracking
      <4> HIDE DEF q
      <4> QED BY <1>4, <2>3, <4>1
    <3>2. CASE i = n
      BY <1>7, <2>3, <2>6, <3>2
    <3> QED BY <2>3, <3>1, <3>2
  <2>7. Tracking(u, r, lag, strayed, out, now, gen, pushes)
    BY <1>4, <1>5, <2>2, <2>5, <2>6 DEF Tracking
  <2>8. Order(u, r, out, now, metas)
    BY <1>9, <2>1
  <2> QED BY <2>4, <2>7, <2>8 DEF u, r, f
<1>11. CASE t.join_ref # 0 /\ t.join_ref = f.join_ref
  <2>1. u = [t EXCEPT !.state = SyncDiff(@, f.diff)]
    BY <1>11 DEF ApplyDiff
  <2>2. /\ u.state = SyncDiff(t.state, f.diff) /\ u.join_ref = t.join_ref
        /\ u.pending_diffs = q
        /\ u = [state |-> u.state, join_ref |-> t.join_ref, pending_diffs |-> q]
    BY <1>3, <2>1
  <2>3. /\ u.state \in PresenceState
        /\ \A k \in Keys, m \in Metas : m \in MetasOf(u.state, k) <=>
             (m \in MetasOf(t.state, k) \/ Adds(f.diff, k, m)) /\ ~Drops(f.diff, k, m)
    BY <1>2, <1>3, <2>2, SyncDiffMetas DEF Adds, Drops
  <2>4. u \in Trackers
    BY <1>3, <2>2, <2>3 DEF Trackers
  <2>5. pushes /\ q = <<>>
    BY <1>2, <1>11 DEF Tracking
  <2> HIDE DEF f, r, u
  <2>6. ASSUME ~lag, Whole(r, 0)
        PROVE  Current(u.state, r, 0, out, now)
    <3>1. Current(t.state, evs, 0, out, now)
      BY <1>4, <1>11, <2>5, <2>6 DEF Tracking
    <3>2. ~strayed
      BY <2>5 DEF Stream
    <3> QED BY <1>4, <1>7, <1>8, <2>3, <2>6, <3>1, <3>2 DEF Current
  <2>7. Tracking(u, r, lag, strayed, out, now, gen, pushes)
    BY <1>4, <1>5, <1>11, <2>2, <2>5, <2>6 DEF Tracking
  <2>8. Order(u, r, out, now, metas)
    BY <1>9, <2>2 DEF Order
  <2> QED BY <2>4, <2>7, <2>8 DEF u, r, f
<1> QED BY <1>10, <1>11

(* All of it.                                                              *)
OnTrack(t, evs, lag, strayed, out, now, metas, gen, pushes) ==
  /\ Order(t, evs, out, now, metas)
  /\ Stream(evs, lag, strayed, out, now, gen, pushes)
  /\ Tracking(t, evs, lag, strayed, out, now, gen, pushes)

(* A new tracker is a tracker, with nothing in it.                         *)
LEMMA NewTrackerType ==
  NewTracker \in Trackers /\ NewTracker.state = Nobody
    /\ NewTracker.pending_diffs = <<>> /\ NewTracker.join_ref = 0
<1>1. <<>> \in Seq(PresenceDiff) /\ 0 \in 0..MaxJoins
  BY PresenceBounds
<1> QED BY <1>1, NobodyThere DEF Trackers, NewTracker

(* No changes add and drop nothing.                                        *)
LEMMA QuietNoChanges == \A k, m : ~Adds(NoChanges, k, m) /\ ~Drops(NoChanges, k, m)
BY NobodyThere DEF Adds, Drops, NoChanges

(* Whatever the first event is, taking it stays on the track.              *)
LEMMA EventTaken ==
  ASSUME NEW pushes \in BOOLEAN, NEW evs \in Seq(Frames(pushes)), evs # <<>>,
         NEW t \in Trackers, NEW out \in Seq(PresenceDiff),
         NEW now \in PresenceState, NEW metas, NEW gen, NEW lag, NEW strayed,
         OnTrack(t, evs, lag, strayed, out, now, metas, gen, pushes)
  PROVE  /\ OnTrack(NewTracker, Tail(evs), lag, strayed, out, now, metas, gen, pushes)
         /\ Head(evs).kind # "Lagged" =>
              LET u == Taken(t, Head(evs))
              IN  /\ u \in Trackers
                  /\ OnTrack(u, Tail(evs), lag, strayed, out, now, metas, gen, pushes)
<1> DEFINE f == Head(evs)
           r == Tail(evs)
<1>1. Order(t, r, out, now, metas)
  BY OrderShifted DEF OnTrack
<1>2. Stream(r, lag, strayed, out, now, gen, pushes)
  BY StreamShifted DEF OnTrack
<1>3. OnTrack(NewTracker, r, lag, strayed, out, now, metas, gen, pushes)
  BY <1>1, <1>2, NewOrder, NewTracking DEF OnTrack
<1>4. f \in Frames(pushes) /\ f.kind \in {"State", "Diff", "Ended", "Lagged"}
  BY Shifted, FrameFacts
<1>5. CASE f.kind = "State"
  <2> DEFINE u == ApplyState(t, f).tracker
  <2>1. Taken(t, f) = u
    BY <1>5 DEF Taken, Apply
  <2>2. /\ u \in Trackers /\ u.pending_diffs = <<>>
        /\ Tracking(u, r, lag, strayed, out, now, gen, pushes)
    BY <1>5, StateTaken DEF OnTrack
  <2> HIDE DEF u, f, r
  <2>3. Order(u, r, out, now, metas)
    BY <1>1, <2>2, NewOrder
  <2> QED BY <1>2, <1>3, <2>1, <2>2, <2>3 DEF OnTrack, f, r
<1>6. CASE f.kind = "Diff"
  <2> DEFINE u == ApplyDiff(t, f).tracker
  <2>1. Taken(t, f) = u
    BY <1>6 DEF Taken, Apply
  <2>2. /\ u \in Trackers /\ Order(u, r, out, now, metas)
        /\ Tracking(u, r, lag, strayed, out, now, gen, pushes)
    BY <1>6, DiffTaken DEF OnTrack
  <2> HIDE DEF u, f, r
  <2> QED BY <1>2, <1>3, <2>1, <2>2 DEF OnTrack, f, r
<1>7. CASE f.kind = "Ended"
  BY <1>3, <1>7, NewTrackerType DEF Taken, Reset
<1> QED BY <1>3, <1>4, <1>5, <1>6, <1>7

(* What was added to a queue is present, or dropped in it.                 *)
Balanced(out, now) ==
  \A i \in DOMAIN out : \A k \in Keys, m \in Metas : Adds(out[i], k, m) =>
    m \in MetasOf(now, k) \/ \E j \in DOMAIN out : Drops(out[j], k, m)

(* An end, or the report of lost events: a state that comes before it says *)
(* nothing any more, whatever was lost and whatever the generation is.     *)
LEMMA TrackBroken ==
  ASSUME NEW pushes \in BOOLEAN, NEW evs \in Seq(Frames(pushes)),
         NEW t \in Trackers, NEW out \in Seq(PresenceDiff), NEW now, NEW metas,
         NEW gen, NEW lag, NEW strayed,
         OnTrack(t, evs, lag, strayed, out, now, metas, gen, pushes),
         NEW b \in Breaks, NEW g
  PROVE  /\ Append(evs, b) \in Seq(Frames(pushes))
         /\ OnTrack(t, Append(evs, b), FALSE, strayed, out, now, metas, g, pushes)
<1> DEFINE a == Append(evs, b)
           n == Len(evs) + 1
<1>1. /\ b \in Frames(pushes) /\ b.join_ref = 0 /\ b.diff = NoChanges /\ Break(b)
      /\ b.kind # "State"
  BY FrameFacts DEF Frames, Breaks, Other, Break
<1>2. /\ a \in Seq(Frames(pushes)) /\ a[n] = b /\ n \in DOMAIN a
      /\ \A i \in DOMAIN evs : a[i] = evs[i] /\ i \in DOMAIN a /\ i < n /\ i \in Nat
      /\ \A i \in DOMAIN a : i \in DOMAIN evs \/ i = n
      /\ n \in Nat /\ n > 0
  BY <1>1, Appended
<1>3. Diffs(a) = Append(Diffs(evs), NoChanges) /\ Diffs(evs) \in Seq(PresenceDiff)
  BY <1>1, DiffsFollow, DiffsType
<1>4. t.pending_diffs \in Seq(PresenceDiff)
  BY DEF Trackers
<1>5. Line(t.pending_diffs, Diffs(a), out)
  BY <1>3, <1>4, LineQuiet DEF OnTrack, Order
<1>6. Past(Diffs(a), now, metas)
  <2>1. \A i \in DOMAIN Diffs(a) :
          \/ i \in DOMAIN Diffs(evs) /\ Diffs(a)[i] = Diffs(evs)[i]
          \/ Diffs(a)[i] = NoChanges
    BY <1>3, Appended, NobodyThere
  <2> QED BY <2>1, QuietNoChanges DEF OnTrack, Order, Past
<1>7. Order(t, a, out, now, metas)
  BY <1>5, <1>6 DEF OnTrack, Order
<1> HIDE DEF a, n
<1>8. ~Whole(a, 0) /\ \A i \in DOMAIN a : Whole(a, i) => i = n
  BY <1>1, <1>2 DEF Whole
<1>9. ASSUME NEW i \in DOMAIN a, NEW j \in DOMAIN a,
             i < j, a[i].join_ref # 0, a[j].join_ref # 0,
             \A l \in DOMAIN a : i < l /\ l < j => ~Break(a[l])
      PROVE  a[i].join_ref = a[j].join_ref
  BY <1>1, <1>2, <1>9 DEF OnTrack, Stream
<1>10. Stream(a, FALSE, strayed, out, now, g, pushes)
  <2>1. pushes => ~strayed
    BY DEF OnTrack, Stream
  <2>2. Balanced(out, now)
    BY DEF OnTrack, Stream, Balanced
  <2>3. \A i \in DOMAIN a : Whole(a, i) =>
          a[i].join_ref = 0 /\ a[i].diff = NoChanges /\ a[i].kind # "State"
    BY <1>1, <1>2, <1>8
  <2> QED BY <1>9, <2>1, <2>2, <2>3, QuietNoChanges DEF Stream, Balanced
<1>11. Tracking(t, a, FALSE, strayed, out, now, g, pushes)
  <2>1. t.join_ref # 0 => \A i \in DOMAIN a :
          /\ a[i].join_ref # 0
          /\ \A l \in DOMAIN a : l < i => ~Break(a[l])
          => a[i].join_ref = t.join_ref
    BY <1>1, <1>2 DEF OnTrack, Tracking
  <2> QED BY <1>8, <2>1 DEF OnTrack, Tracking
<1> QED BY <1>2, <1>7, <1>10, <1>11 DEF OnTrack, a

(* Events are lost: nothing is known of the presences before the stream    *)
(* says so.                                                                *)
LEMMA TrackLost ==
  ASSUME NEW pushes, NEW evs, NEW t, NEW out, NEW now, NEW metas, NEW gen, NEW lag,
         NEW strayed,
         OnTrack(t, evs, lag, strayed, out, now, metas, gen, pushes),
         NEW o, NEW g, NEW s, Balanced(o, now), Order(t, evs, o, now, metas),
         pushes => ~s
  PROVE  OnTrack(t, evs, TRUE, s, o, now, metas, g, pushes)
<1>1. Stream(evs, TRUE, s, o, now, g, pushes)
  BY DEF OnTrack, Stream, Balanced
<1>2. Tracking(t, evs, TRUE, s, o, now, g, pushes)
  BY DEF OnTrack, Tracking
<1> QED BY <1>1, <1>2 DEF OnTrack

(* While the channel is not joined, the server may drop its diffs, and a   *)
(* generation may begin: no state of it has been pushed.                   *)
LEMMA TrackIdle ==
  ASSUME NEW pushes \in BOOLEAN, NEW evs \in Seq(Frames(pushes)), NEW t, NEW out,
         NEW now, NEW metas, NEW lag, NEW strayed,
         OnTrack(t, evs, lag, strayed, out, now, metas, 0, pushes),
         NEW o, NEW g, Balanced(o, now), Order(t, evs, o, now, metas)
  PROVE  OnTrack(t, evs, lag, strayed, o, now, metas, g, pushes)
<1>1. \A i \in DOMAIN evs : evs[i].kind = "State" => evs[i].join_ref # 0
  <2>1. \A i \in DOMAIN evs : evs[i] \in Frames(pushes)
    OBVIOUS
  <2> QED BY <2>1, FrameFacts
<1>2. Stream(evs, lag, strayed, o, now, g, pushes)
  BY <1>1 DEF OnTrack, Stream, Balanced
<1>3. Tracking(t, evs, lag, strayed, o, now, g, pushes)
  BY DEF OnTrack, Tracking
<1> QED BY <1>2, <1>3 DEF OnTrack

(* What is to come when a frame goes from `out` to the stream.             *)
LEMMA ToComeSent ==
  ASSUME NEW F, NEW evs \in Seq(F), NEW f \in F, NEW out, NEW o,
         \A k, m :
           /\ (\E j \in DOMAIN out : Adds(out[j], k, m)) <=>
                Adds(f.diff, k, m) \/ \E j \in DOMAIN o : Adds(o[j], k, m)
           /\ (\E j \in DOMAIN out : Drops(out[j], k, m)) <=>
                Drops(f.diff, k, m) \/ \E j \in DOMAIN o : Drops(o[j], k, m)
  PROVE  LET t == Append(evs, f)
         IN  \A i \in DOMAIN evs \cup {0} : \A k, m :
               /\ Coming(t, i, o, k, m) <=> Coming(evs, i, out, k, m)
               /\ Going(t, i, o, k, m) <=> Going(evs, i, out, k, m)
<1> DEFINE t == Append(evs, f)
<1>1. \A i \in DOMAIN evs \cup {0} : \A k, m :
        /\ Coming(t, i, o, k, m) <=> Coming(evs, i, o, k, m) \/ Adds(f.diff, k, m)
        /\ Going(t, i, o, k, m) <=> Going(evs, i, o, k, m) \/ Drops(f.diff, k, m)
  BY ToComeAppended
<1> HIDE DEF t
<1> SUFFICES ASSUME NEW i \in DOMAIN evs \cup {0}, NEW k, NEW m
             PROVE  /\ Coming(t, i, o, k, m) <=> Coming(evs, i, out, k, m)
                    /\ Going(t, i, o, k, m) <=> Going(evs, i, out, k, m)
  BY DEF t
<1>2. Coming(t, i, o, k, m) <=> Coming(evs, i, out, k, m)
  BY <1>1 DEF Coming
<1>3. Going(t, i, o, k, m) <=> Going(evs, i, out, k, m)
  BY <1>1 DEF Going
<1> QED BY <1>2, <1>3

(* A state of this generation, which is current if the diffs are pushed,   *)
(* or a diff of `out`, enters the stream and is not lost.                  *)
LEMMA TrackGrows ==
  ASSUME NEW pushes \in BOOLEAN, NEW evs \in Seq(Frames(pushes)),
         NEW t \in Trackers, NEW out, NEW now, NEW metas, NEW gen, NEW strayed,
         OnTrack(t, evs, FALSE, strayed, out, now, metas, gen, pushes),
         NEW f \in Frames(pushes), NEW o, NEW s,
         ~Break(f), f.join_ref # 0 => f.join_ref = gen,
         f.kind = "State" /\ pushes => f.state = now,
         strayed => s, pushes => ~s, Balanced(o, now),
         Order(t, Append(evs, f), o, now, metas),
         \A k, m :
           /\ (\E j \in DOMAIN out : Adds(out[j], k, m)) <=>
                Adds(f.diff, k, m) \/ \E j \in DOMAIN o : Adds(o[j], k, m)
           /\ (\E j \in DOMAIN out : Drops(out[j], k, m)) <=>
                Drops(f.diff, k, m) \/ \E j \in DOMAIN o : Drops(o[j], k, m),
         ~s => \A k \in Keys, m \in Metas : Adds(f.diff, k, m) =>
           gen # 0 /\ (m \in MetasOf(now, k) \/ \E j \in DOMAIN o : Drops(o[j], k, m))
  PROVE  OnTrack(t, Append(evs, f), FALSE, s, o, now, metas, gen, pushes)
<1> DEFINE a == Append(evs, f)
           n == Len(evs) + 1
<1>1. /\ a[n] = f /\ n \in DOMAIN a
      /\ \A i \in DOMAIN evs : a[i] = evs[i] /\ i \in DOMAIN a /\ i < n /\ i \in Nat
      /\ \A i \in DOMAIN a : i \in DOMAIN evs \/ i = n
      /\ n \in Nat /\ n > 0
  BY Appended
<1>2. /\ Whole(a, 0) <=> Whole(evs, 0)
      /\ \A i \in DOMAIN evs : Whole(a, i) <=> Whole(evs, i)
  BY ToComeAppended
<1>3. \A i \in DOMAIN evs \cup {0} : \A k, m :
        /\ Coming(a, i, o, k, m) <=> Coming(evs, i, out, k, m)
        /\ Going(a, i, o, k, m) <=> Going(evs, i, out, k, m)
  BY ToComeSent
<1>4. \A k, m : (\E j \in DOMAIN o : Drops(o[j], k, m)) => Going(a, n, o, k, m)
  BY DEF Going
<1> HIDE DEF a, n
<1>5. ASSUME NEW i \in DOMAIN a, NEW j \in DOMAIN a,
             i < j, a[i].join_ref # 0, a[j].join_ref # 0,
             \A l \in DOMAIN a : i < l /\ l < j => ~Break(a[l])
      PROVE  a[i].join_ref = a[j].join_ref
  <2>1. CASE j \in DOMAIN evs
    <3>1. i \in DOMAIN evs
      BY <1>1, <1>5, <2>1
    <3> QED BY <1>1, <1>5, <2>1, <3>1 DEF OnTrack, Stream
  <2>2. CASE j = n
    <3>1. i \in DOMAIN evs
      BY <1>1, <1>5, <2>2
    <3>2. Whole(evs, i)
      BY <1>1, <1>5, <2>2 DEF Whole
    <3>3. evs[i].join_ref = gen
      BY <1>1, <1>5, <3>1, <3>2 DEF OnTrack, Stream
    <3> QED BY <1>1, <1>5, <2>2, <3>1, <3>3
  <2> QED BY <1>1, <2>1, <2>2
<1>6. \A i \in DOMAIN a : a[i].join_ref # 0 /\ Whole(a, i) => a[i].join_ref = gen
  BY <1>1, <1>2 DEF OnTrack, Stream
<1>7. ASSUME ~s, NEW i \in DOMAIN a, Whole(a, i),
             NEW k \in Keys, NEW m \in Metas, Adds(a[i].diff, k, m)
      PROVE  gen # 0 /\ (m \in MetasOf(now, k) \/ Going(a, i, o, k, m))
  <2>1. CASE i \in DOMAIN evs
    BY <1>1, <1>2, <1>3, <1>7, <2>1 DEF OnTrack, Stream
  <2>2. CASE i = n
    BY <1>1, <1>4, <1>7, <2>2
  <2> QED BY <1>1, <2>1, <2>2
<1>8. ASSUME pushes, NEW i \in DOMAIN a, a[i].kind = "State", Whole(a, i)
      PROVE  Current(a[i].state, a, i, o, now)
  <2>1. CASE i \in DOMAIN evs
    <3>1. Current(a[i].state, evs, i, out, now)
      BY <1>1, <1>2, <1>8, <2>1 DEF OnTrack, Stream
    <3> QED BY <1>3, <2>1, <3>1 DEF Current
  <2>2. CASE i = n
    BY <1>1, <1>8, <2>2 DEF Current
  <2> QED BY <1>1, <2>1, <2>2
<1>9. Stream(a, FALSE, s, o, now, gen, pushes)
  BY <1>5, <1>6, <1>7, <1>8 DEF Stream, Balanced
<1>10. ASSUME t.join_ref # 0, NEW i \in DOMAIN a, a[i].join_ref # 0,
              \A l \in DOMAIN a : l < i => ~Break(a[l])
       PROVE  a[i].join_ref = t.join_ref
  <2>1. CASE i \in DOMAIN evs
    BY <1>1, <1>10, <2>1 DEF OnTrack, Tracking
  <2>2. CASE i = n
    <3>1. Whole(evs, 0)
      BY <1>1, <1>10, <2>2 DEF Whole
    <3> QED BY <1>1, <1>10, <2>2, <3>1 DEF OnTrack, Tracking
  <2> QED BY <1>1, <2>1, <2>2
<1>11. ASSUME pushes, t.join_ref # 0, Whole(a, 0)
       PROVE  Current(t.state, a, 0, o, now)
  <2>1. Current(t.state, evs, 0, out, now)
    BY <1>2, <1>11 DEF OnTrack, Tracking
  <2> QED BY <1>3, <2>1 DEF Current
<1>12. ASSUME ~s, Whole(a, 0), NEW i \in DOMAIN t.pending_diffs,
              NEW k \in Keys, NEW m \in Metas, Adds(t.pending_diffs[i], k, m)
       PROVE  /\ gen # 0
              /\ \/ m \in MetasOf(now, k) \/ Going(a, 0, o, k, m)
                 \/ \E j \in DOMAIN t.pending_diffs : Drops(t.pending_diffs[j], k, m)
  BY <1>2, <1>3, <1>12 DEF OnTrack, Tracking
<1>13. Tracking(t, a, FALSE, s, o, now, gen, pushes)
  BY <1>2, <1>10, <1>11, <1>12 DEF OnTrack, Tracking
<1> QED BY <1>9, <1>13 DEF OnTrack, a

(* The first diff of a queue that is clean and balanced.                   *)
LEMMA OutboxShifted ==
  ASSUME NEW out \in Seq(PresenceDiff), out # <<>>, Clean(out),
         NEW now, Balanced(out, now)
  PROVE  /\ Tail(out) \in Seq(PresenceDiff) /\ Balanced(Tail(out), now)
         /\ \A k, m :
              /\ (\E j \in DOMAIN out : Adds(out[j], k, m)) <=>
                   \/ Adds(Head(out), k, m)
                   \/ \E j \in DOMAIN Tail(out) : Adds(Tail(out)[j], k, m)
              /\ (\E j \in DOMAIN out : Drops(out[j], k, m)) <=>
                   \/ Drops(Head(out), k, m)
                   \/ \E j \in DOMAIN Tail(out) : Drops(Tail(out)[j], k, m)
         /\ \A k \in Keys, m \in Metas : Adds(Head(out), k, m) =>
              \/ m \in MetasOf(now, k)
              \/ \E j \in DOMAIN Tail(out) : Drops(Tail(out)[j], k, m)
<1> DEFINE o == Tail(out)
           d == Head(out)
<1>1. /\ d = out[1] /\ 1 \in DOMAIN out /\ o \in Seq(PresenceDiff)
      /\ \A i \in DOMAIN o : i \in Nat /\ i + 1 \in DOMAIN out /\ o[i] = out[i + 1]
      /\ \A i \in DOMAIN out : i = 1 \/ (i - 1 \in DOMAIN o /\ o[i - 1] = out[i])
  BY Shifted
<1>2. Spares(d, d) /\ \A i \in DOMAIN o : Spares(d, o[i])
  BY CleanShifted
<1> HIDE DEF o, d
<1>3. \A i \in DOMAIN out : out[i] = d \/ \E j \in DOMAIN o : o[j] = out[i]
  BY <1>1
<1>4. \A j \in DOMAIN o : \E i \in DOMAIN out : o[j] = out[i]
  BY <1>1
<1>5. ASSUME NEW k \in Keys, NEW m \in Metas, NEW c \in PresenceDiff,
             c = d \/ \E i \in DOMAIN o : c = o[i], Adds(c, k, m)
      PROVE  m \in MetasOf(now, k) \/ \E j \in DOMAIN o : Drops(o[j], k, m)
  <2>1. ~Drops(d, k, m)
    BY <1>2, <1>5 DEF Spares
  <2>2. \E i \in DOMAIN out : c = out[i]
    BY <1>1, <1>4, <1>5
  <2>3. m \in MetasOf(now, k) \/ \E j \in DOMAIN out : Drops(out[j], k, m)
    BY <1>5, <2>2 DEF Balanced
  <2> QED BY <1>3, <2>1, <2>3
<1>6. d \in PresenceDiff /\ \A i \in DOMAIN o : o[i] \in PresenceDiff
  BY <1>1 DEF d
<1>7. Balanced(o, now)
  BY <1>5, <1>6 DEF Balanced
<1>8. \A k \in Keys, m \in Metas : Adds(d, k, m) =>
        m \in MetasOf(now, k) \/ \E j \in DOMAIN o : Drops(o[j], k, m)
  BY <1>5, <1>6
<1>9. ASSUME NEW k, NEW m
      PROVE  /\ (\E j \in DOMAIN out : Adds(out[j], k, m)) <=>
                   Adds(d, k, m) \/ \E j \in DOMAIN o : Adds(o[j], k, m)
             /\ (\E j \in DOMAIN out : Drops(out[j], k, m)) <=>
                   Drops(d, k, m) \/ \E j \in DOMAIN o : Drops(o[j], k, m)
  BY <1>1, <1>3, <1>4
<1> QED BY <1>1, <1>7, <1>8, <1>9 DEF o, d

(* Order, when an event that carries no diff is queued.                    *)
LEMMA OrderQuiet ==
  ASSUME NEW pushes \in BOOLEAN, NEW evs \in Seq(Frames(pushes)), NEW t \in Trackers,
         NEW out \in Seq(PresenceDiff), NEW now, NEW metas,
         Order(t, evs, out, now, metas),
         NEW f \in Frames(pushes), f.diff = NoChanges
  PROVE  Order(t, Append(evs, f), out, now, metas)
<1> DEFINE a == Append(evs, f)
<1>1. Diffs(a) = Append(Diffs(evs), NoChanges) /\ Diffs(evs) \in Seq(PresenceDiff)
  BY DiffsFollow, DiffsType
<1>2. t.pending_diffs \in Seq(PresenceDiff)
  BY DEF Trackers
<1> HIDE DEF a
<1>3. Line(t.pending_diffs, Diffs(a), out)
  BY <1>1, <1>2, LineQuiet DEF Order
<1>4. Past(Diffs(a), now, metas)
  <2>1. \A i \in DOMAIN Diffs(a) :
          \/ i \in DOMAIN Diffs(evs) /\ Diffs(a)[i] = Diffs(evs)[i]
          \/ Diffs(a)[i] = NoChanges
    BY <1>1, Appended, NobodyThere
  <2> QED BY <2>1, QuietNoChanges DEF Order, Past
<1> QED BY <1>3, <1>4 DEF Order, a

(* A diff of the server is lost before it is sent.                         *)
LEMMA OrderDropped ==
  ASSUME NEW pushes \in BOOLEAN, NEW evs \in Seq(Frames(pushes)), NEW t \in Trackers,
         NEW out \in Seq(PresenceDiff), out # <<>>, NEW now, NEW metas,
         Order(t, evs, out, now, metas)
  PROVE  Order(t, evs, Tail(out), now, metas)
<1>1. Diffs(evs) \in Seq(PresenceDiff) /\ t.pending_diffs \in Seq(PresenceDiff)
  BY DiffsType DEF Trackers
<1>2. \A i \in DOMAIN Tail(out) : i + 1 \in DOMAIN out /\ Tail(out)[i] = out[i + 1]
  BY Shifted
<1>3. Line(t.pending_diffs, Diffs(evs), Tail(out))
  BY <1>1, LineSent DEF Order
<1> QED BY <1>2, <1>3 DEF Order, Past

(* A diff of the server is sent, or lost on the way.                       *)
LEMMA OrderSent ==
  ASSUME NEW pushes \in BOOLEAN, NEW evs \in Seq(Frames(pushes)), NEW t \in Trackers,
         NEW out \in Seq(PresenceDiff), out # <<>>, NEW now, NEW metas,
         Order(t, evs, out, now, metas),
         NEW f \in Frames(pushes), f.diff = Head(out)
  PROVE  /\ Order(t, Append(evs, f), Tail(out), now, metas)
         /\ Order(t, evs, Tail(out), now, metas)
<1> DEFINE a == Append(evs, f)
           o == Tail(out)
<1>1. /\ Diffs(a) = Append(Diffs(evs), Head(out)) /\ Diffs(evs) \in Seq(PresenceDiff)
      /\ t.pending_diffs \in Seq(PresenceDiff)
  BY DiffsFollow, DiffsType DEF Trackers
<1>2. /\ Head(out) = out[1] /\ 1 \in DOMAIN out /\ Head(out) \in PresenceDiff
      /\ \A i \in DOMAIN o : i + 1 \in DOMAIN out /\ o[i] = out[i + 1]
  BY Shifted
<1>3. Line(t.pending_diffs, Diffs(a), o) /\ Line(t.pending_diffs, Diffs(evs), o)
  BY <1>1, LineSent DEF Order
<1> HIDE DEF a, o
<1>4. Past(o, now, metas)
  BY <1>2 DEF Order, Past
<1>5. Past(Diffs(a), now, metas)
  <2>1. \A i \in DOMAIN Diffs(a) :
          \/ i \in DOMAIN Diffs(evs) /\ Diffs(a)[i] = Diffs(evs)[i]
          \/ Diffs(a)[i] = out[1]
    BY <1>1, <1>2, Appended
  <2> QED BY <1>2, <2>1 DEF Order, Past
<1> QED BY <1>3, <1>4, <1>5 DEF Order, a, o

(* One element put after a sequence.                                       *)
LEMMA AppendedAlone ==
  ASSUME NEW S, NEW s \in Seq(S), NEW c \in S, NEW d \in S
  PROVE  /\ s \o <<>> = s /\ s \o <<c>> = Append(s, c)
         /\ s \o <<>> \o <<d>> = Append(s, d)
         /\ s \o <<c>> \o <<d>> = Append(Append(s, c), d)
         /\ Append(s, c) \in Seq(S) /\ Len(Append(s, c)) = Len(s) + 1
         /\ Len(s) \in Nat /\ Len(<<>>) = 0 /\ Len(<<c>>) = 1
<1>1. s \o <<>> = s /\ s \o <<c>> = Append(s, c) /\ s \o <<d>> = Append(s, d)
  OBVIOUS
<1>2. Append(s, c) \o <<d>> = Append(Append(s, c), d)
  OBVIOUS
<1>3. Append(s, c) \in Seq(S) /\ Len(Append(s, c)) = Len(s) + 1 /\ Len(s) \in Nat
      /\ Len(<<>>) = 0 /\ Len(<<c>>) = 1
  OBVIOUS
<1> QED BY <1>1, <1>2, <1>3

(* What Emit does: the event is queued, after a report if one is due, or   *)
(* an event is lost.                                                       *)
LEMMA EmitCases ==
  ASSUME NEW F, events \in Seq(F), lagging \in BOOLEAN, Len(events) <= Slots,
         NEW f \in F, Other("Lagged") \in F, Emit(f)
  PROVE  /\ events' \in Seq(F) /\ lagging' \in BOOLEAN /\ Len(events') <= Slots
         /\ \/ ~lagging /\ events' = Append(events, f) /\ lagging' = FALSE
            \/ /\ lagging /\ events' = Append(Append(events, Other("Lagged")), f)
               /\ lagging' = FALSE
            \/ events' = events /\ lagging' = TRUE
            \/ events' = Append(events, Other("Lagged")) /\ lagging' = TRUE
<1> DEFINE report == IF lagging THEN <<Other("Lagged")>> ELSE <<>>
           L == Other("Lagged")
<1>1. \/ /\ Len(events) + Len(report) < Slots
         /\ events' = events \o report \o <<f>>
         /\ lagging' = FALSE
      \/ /\ \/ events' = events
            \/ Len(events) + Len(report) <= Slots /\ events' = events \o report
         /\ lagging' = TRUE
  BY DEF Emit
<1>2. Slots \in Nat
  BY PresenceBounds
<1>3. /\ events \o <<>> = events /\ events \o <<L>> = Append(events, L)
      /\ events \o <<>> \o <<f>> = Append(events, f)
      /\ events \o <<L>> \o <<f>> = Append(Append(events, L), f)
      /\ Append(events, L) \in Seq(F) /\ Len(Append(events, L)) = Len(events) + 1
      /\ Append(events, f) \in Seq(F) /\ Len(Append(events, f)) = Len(events) + 1
      /\ Len(events) \in Nat /\ Len(<<>>) = 0 /\ Len(<<L>>) = 1
  BY AppendedAlone
<1>4. /\ Append(Append(events, L), f) \in Seq(F)
      /\ Len(Append(Append(events, L), f)) = Len(events) + 2
  BY <1>3, AppendedAlone
<1> DEFINE a == Append(events, f)
           b == Append(events, L)
           c == Append(b, f)
<1>5. \/ /\ ~lagging /\ Len(events) < Slots /\ events' = a /\ lagging' = FALSE
      \/ /\ lagging /\ Len(events) + 1 < Slots /\ events' = c /\ lagging' = FALSE
      \/ events' = events /\ lagging' = TRUE
      \/ Len(events) + 1 <= Slots /\ events' = b /\ lagging' = TRUE
  <2> HIDE DEF L, a, b, c
  <2>1. CASE lagging
    <3>1. report = <<L>> /\ Len(report) = 1
      BY <1>3, <2>1 DEF L
    <3> HIDE DEF report
    <3>2. events \o report = b /\ events \o report \o <<f>> = c
      BY <1>3, <3>1 DEF b, c
    <3> QED BY <1>1, <2>1, <3>1, <3>2, Zenon
  <2>2. CASE ~lagging
    <3>1. report = <<>> /\ Len(report) = 0
      BY <1>3, <2>2
    <3> HIDE DEF report
    <3>2. /\ events \o report = events /\ events \o report \o <<f>> = a
          /\ Len(events) + Len(report) = Len(events)
      BY <1>3, <3>1 DEF a
    <3> QED BY <1>1, <2>2, <3>1, <3>2, Zenon
  <2> QED BY <2>1, <2>2
<1>6. /\ a \in Seq(F) /\ Len(a) = Len(events) + 1
      /\ b \in Seq(F) /\ Len(b) = Len(events) + 1
      /\ c \in Seq(F) /\ Len(c) = Len(events) + 2
  BY <1>3, <1>4
<1>7. /\ Len(events) < Slots => Len(a) <= Slots
      /\ Len(events) + 1 < Slots => Len(c) <= Slots
      /\ Len(events) + 1 <= Slots => Len(b) <= Slots
  <2> HIDE DEF a, b, c
  <2> QED BY <1>2, <1>3, <1>6
<1> HIDE DEF a, b, c
<1>8. events' \in Seq(F) /\ lagging' \in BOOLEAN /\ Len(events') <= Slots
  BY <1>5, <1>6, <1>7
<1>9. \/ ~lagging /\ events' = a /\ lagging' = FALSE
      \/ lagging /\ events' = c /\ lagging' = FALSE
      \/ events' = events /\ lagging' = TRUE
      \/ events' = b /\ lagging' = TRUE
  BY <1>5, Zenon
<1> QED BY <1>8, <1>9, Zenon DEF a, b, c, L

(* A frame keeps the order of diffs when it is sent, and when it is lost.  *)
InOrder(f, t, out, o, now, metas, pushes) ==
  \A evs \in Seq(Frames(pushes)) : Order(t, evs, out, now, metas) =>
    Order(t, Append(evs, f), o, now, metas) /\ Order(t, evs, o, now, metas)

(* It carries what the server's queue loses.                               *)
Carries(f, out, o, now, gen, s) ==
  /\ \A k, m :
       /\ (\E j \in DOMAIN out : Adds(out[j], k, m)) <=>
            Adds(f.diff, k, m) \/ \E j \in DOMAIN o : Adds(o[j], k, m)
       /\ (\E j \in DOMAIN out : Drops(out[j], k, m)) <=>
            Drops(f.diff, k, m) \/ \E j \in DOMAIN o : Drops(o[j], k, m)
  /\ ~s => \A k \in Keys, m \in Metas : Adds(f.diff, k, m) =>
       gen # 0 /\ (m \in MetasOf(now, k) \/ \E j \in DOMAIN o : Drops(o[j], k, m))

(* A frame of this generation is sent: it enters the stream or is lost.    *)
LEMMA FrameEmitted ==
  ASSUME NEW pushes \in BOOLEAN, events \in Seq(Frames(pushes)),
         lagging \in BOOLEAN, Len(events) <= Slots,
         NEW t \in Trackers, NEW out \in Seq(PresenceDiff), NEW now, NEW metas,
         NEW gen, NEW strayed,
         OnTrack(t, events, lagging, strayed, out, now, metas, gen, pushes),
         NEW f \in Frames(pushes), NEW o, NEW s,
         ~Break(f), f.join_ref # 0 => f.join_ref = gen,
         f.kind = "State" /\ pushes => f.state = now,
         strayed => s, pushes => ~s, Balanced(o, now),
         InOrder(f, t, out, o, now, metas, pushes), Carries(f, out, o, now, gen, s),
         Emit(f)
  PROVE  /\ events' \in Seq(Frames(pushes)) /\ lagging' \in BOOLEAN
         /\ Len(events') <= Slots
         /\ OnTrack(t, events', lagging', s, o, now, metas, gen, pushes)
<1> DEFINE L == Other("Lagged")
           b == Append(events, L)
<1>1. L \in Breaks /\ L \in Frames(pushes)
  BY DEF Breaks, Frames
<1> HIDE DEF L
<1>2. /\ events' \in Seq(Frames(pushes)) /\ lagging' \in BOOLEAN
      /\ Len(events') <= Slots
      /\ \/ ~lagging /\ events' = Append(events, f) /\ lagging' = FALSE
         \/ lagging /\ events' = Append(b, f) /\ lagging' = FALSE
         \/ events' = events /\ lagging' = TRUE
         \/ events' = b /\ lagging' = TRUE
  BY <1>1, EmitCases DEF L
<1>3. /\ b \in Seq(Frames(pushes))
      /\ OnTrack(t, b, FALSE, strayed, out, now, metas, gen, pushes)
  BY <1>1, TrackBroken
<1> HIDE DEF b
<1>4. CASE ~lagging /\ events' = Append(events, f) /\ lagging' = FALSE
  <2>1. OnTrack(t, events, FALSE, strayed, out, now, metas, gen, pushes)
    BY <1>4
  <2>2. Order(t, Append(events, f), o, now, metas)
    BY DEF OnTrack, InOrder
  <2>3. OnTrack(t, Append(events, f), FALSE, s, o, now, metas, gen, pushes)
    BY <2>1, <2>2, TrackGrows DEF Carries
  <2> QED BY <1>2, <1>4, <2>3
<1>5. CASE events' = Append(b, f) /\ lagging' = FALSE
  <2>1. Order(t, Append(b, f), o, now, metas)
    BY <1>3 DEF OnTrack, InOrder
  <2>2. OnTrack(t, Append(b, f), FALSE, s, o, now, metas, gen, pushes)
    BY <1>3, <2>1, TrackGrows DEF Carries
  <2> QED BY <1>2, <1>5, <2>2
<1>6. CASE events' = events /\ lagging' = TRUE
  <2>1. Order(t, events, o, now, metas)
    BY DEF OnTrack, InOrder
  <2>2. OnTrack(t, events, TRUE, s, o, now, metas, gen, pushes)
    BY <2>1, TrackLost
  <2> QED BY <1>2, <1>6, <2>2
<1>7. CASE events' = b /\ lagging' = TRUE
  <2>1. Order(t, b, o, now, metas)
    BY <1>3 DEF OnTrack, InOrder
  <2>2. OnTrack(t, b, TRUE, s, o, now, metas, gen, pushes)
    BY <1>3, <2>1, TrackLost
  <2> QED BY <1>2, <1>7, <2>2
<1> QED BY <1>2, <1>4, <1>5, <1>6, <1>7

(* The end of a generation is sent: it enters the stream or is lost.       *)
LEMMA EndEmitted ==
  ASSUME NEW pushes \in BOOLEAN, events \in Seq(Frames(pushes)),
         lagging \in BOOLEAN, Len(events) <= Slots,
         NEW t \in Trackers, NEW out \in Seq(PresenceDiff), NEW now, NEW metas,
         NEW gen, NEW strayed,
         OnTrack(t, events, lagging, strayed, out, now, metas, gen, pushes),
         Emit(Other("Ended"))
  PROVE  /\ events' \in Seq(Frames(pushes)) /\ lagging' \in BOOLEAN
         /\ Len(events') <= Slots
         /\ OnTrack(t, events', lagging', strayed, out, now, metas, 0, pushes)
<1> DEFINE L == Other("Lagged")
           E == Other("Ended")
           b == Append(events, L)
<1>1. /\ L \in Breaks /\ L \in Frames(pushes)
      /\ E \in Breaks /\ E \in Frames(pushes)
  BY DEF Breaks, Frames
<1>2. /\ Balanced(out, now) /\ (pushes => ~strayed)
      /\ Order(t, events, out, now, metas)
  BY DEF OnTrack, Stream, Balanced
<1> HIDE DEF L, E
<1>3. /\ events' \in Seq(Frames(pushes)) /\ lagging' \in BOOLEAN
      /\ Len(events') <= Slots
      /\ \/ events' = Append(events, E) /\ lagging' = FALSE
         \/ events' = Append(b, E) /\ lagging' = FALSE
         \/ events' = events /\ lagging' = TRUE
         \/ events' = b /\ lagging' = TRUE
  BY <1>1, EmitCases DEF L, E
<1>4. /\ b \in Seq(Frames(pushes))
      /\ OnTrack(t, b, FALSE, strayed, out, now, metas, 0, pushes)
      /\ Order(t, b, out, now, metas)
  BY <1>1, TrackBroken DEF OnTrack
<1> HIDE DEF b
<1>5. OnTrack(t, Append(events, E), FALSE, strayed, out, now, metas, 0, pushes)
  BY <1>1, TrackBroken
<1>6. OnTrack(t, Append(b, E), FALSE, strayed, out, now, metas, 0, pushes)
  BY <1>1, <1>4, TrackBroken
<1>7. OnTrack(t, events, TRUE, strayed, out, now, metas, 0, pushes)
  BY <1>2, TrackLost
<1>8. OnTrack(t, b, TRUE, strayed, out, now, metas, 0, pushes)
  BY <1>2, <1>4, TrackLost
<1> QED BY <1>3, <1>5, <1>6, <1>7, <1>8

(* The server tracks or untracks, and has a diff to send that says so.     *)
LEMMA TrackChanged ==
  ASSUME NEW pushes \in BOOLEAN, NEW evs \in Seq(Frames(pushes)),
         NEW t \in Trackers, NEW out \in Seq(PresenceDiff),
         NEW now, NEW metas, NEW gen, NEW lag, NEW strayed,
         OnTrack(t, evs, lag, strayed, out, now, metas, gen, pushes),
         NEW d \in PresenceDiff, NEW new, NEW known,
         metas \subseteq known,
         \A k \in Keys : MetasOf(new, k) \subseteq known /\ MetasOf(new, k) \subseteq Metas
                         /\ MetasOf(now, k) \subseteq Metas,
         \A k \in Keys, m \in Metas :
           /\ Adds(d, k, m) => m \in MetasOf(new, k) /\ m \notin metas
           /\ Drops(d, k, m) => m \in MetasOf(now, k) /\ m \notin MetasOf(new, k)
           /\ m \in MetasOf(now, k) => m \in MetasOf(new, k) \/ Drops(d, k, m)
           /\ m \in MetasOf(new, k) => m \in MetasOf(now, k) \/ Adds(d, k, m)
  PROVE  OnTrack(t, evs, lag, strayed, Append(out, d), new, known, gen, pushes)
<1> DEFINE o == Append(out, d)
           p == t.pending_diffs
           e == Diffs(evs)
<1>1. /\ o \in Seq(PresenceDiff)
      /\ \A i \in DOMAIN out : o[i] = out[i] /\ i \in DOMAIN o
      /\ \A i \in DOMAIN o : (i \in DOMAIN out /\ o[i] = out[i]) \/ o[i] = d
      /\ \E i \in DOMAIN o : o[i] = d
  BY Appended
<1>2. p \in Seq(PresenceDiff) /\ e \in Seq(PresenceDiff)
  BY DiffsType DEF Trackers
<1> HIDE DEF o, p, e
<1>3. /\ Line(p, e, out) /\ Past(p, now, metas) /\ Past(e, now, metas)
      /\ Past(out, now, metas) /\ \A k \in Keys : MetasOf(now, k) \subseteq metas
  BY DEF OnTrack, Order, p, e
<1>4. Spares(d, d)
  BY <1>3 DEF Spares
<1>5. \A q : Past(q, now, metas) =>
        (\A i \in DOMAIN q : Spares(q[i], d)) /\ Past(q, new, known)
  BY DEF Past, Spares
<1>6. Line(p, e, o)
  <2>1. /\ \A i \in DOMAIN p : Spares(p[i], d)
        /\ \A i \in DOMAIN e : Spares(e[i], d)
        /\ \A i \in DOMAIN out : Spares(out[i], d)
    BY <1>3, <1>5
  <2> QED BY <1>2, <1>3, <1>4, <2>1, LineGrows DEF o
<1>7. Past(o, new, known)
  <2>1. Past(out, new, known)
    BY <1>3, <1>5
  <2>2. \A k \in Keys, m \in Metas : Drops(d, k, m) =>
          m \in known /\ m \notin MetasOf(new, k)
    BY <1>3
  <2> QED BY <1>1, <2>1, <2>2 DEF Past
<1>8. Order(t, evs, o, new, known)
  BY <1>3, <1>5, <1>6, <1>7 DEF Order, p, e
<1>9. \A i : \A k, m :
        /\ Coming(evs, i, o, k, m) <=> Coming(evs, i, out, k, m) \/ Adds(d, k, m)
        /\ Going(evs, i, o, k, m) <=> Going(evs, i, out, k, m) \/ Drops(d, k, m)
  <2> TAKE i
  <2> TAKE k, m
  <2>1. Coming(evs, i, o, k, m) <=> Coming(evs, i, out, k, m) \/ Adds(d, k, m)
    BY <1>1 DEF Coming
  <2>2. Going(evs, i, o, k, m) <=> Going(evs, i, out, k, m) \/ Drops(d, k, m)
    BY <1>1 DEF Going
  <2> QED BY <2>1, <2>2
<1>10. \A i, s : Current(s, evs, i, out, now) =>
         Current(s, evs, i, o, new)
  BY <1>9 DEF Current
<1>11. Balanced(o, new)
  <2>1. Balanced(out, now)
    BY DEF OnTrack, Stream, Balanced
  <2> SUFFICES ASSUME NEW i \in DOMAIN o, NEW k \in Keys, NEW m \in Metas,
                      Adds(o[i], k, m)
               PROVE  m \in MetasOf(new, k) \/ \E j \in DOMAIN o : Drops(o[j], k, m)
    BY DEF Balanced
  <2>2. CASE i \in DOMAIN out /\ o[i] = out[i]
    <3>1. m \in MetasOf(now, k) \/ \E j \in DOMAIN out : Drops(out[j], k, m)
      BY <2>1, <2>2 DEF Balanced
    <3> QED BY <1>1, <3>1
  <2>3. CASE o[i] = d
    BY <2>3
  <2> QED BY <1>1, <2>2, <2>3
<1>12. \A i \in DOMAIN evs : \A k \in Keys, m \in Metas :
         m \in MetasOf(now, k) \/ Going(evs, i, out, k, m) =>
           m \in MetasOf(new, k) \/ Going(evs, i, o, k, m)
  BY <1>9
<1>13. \A k \in Keys, m \in Metas :
         m \in MetasOf(now, k) \/ Going(evs, 0, out, k, m) =>
           m \in MetasOf(new, k) \/ Going(evs, 0, o, k, m)
  BY <1>9
<1>14. Stream(evs, lag, strayed, o, new, gen, pushes)
  <2>1. ~lag /\ ~strayed => \A i \in DOMAIN evs : Whole(evs, i) =>
          \A k \in Keys, m \in Metas : Adds(evs[i].diff, k, m) =>
            gen # 0 /\ (m \in MetasOf(new, k) \/ Going(evs, i, o, k, m))
    BY <1>12 DEF OnTrack, Stream
  <2>2. ~lag /\ pushes => \A i \in DOMAIN evs :
          evs[i].kind = "State" /\ Whole(evs, i) =>
            Current(evs[i].state, evs, i, o, new)
    BY <1>10 DEF OnTrack, Stream
  <2> QED BY <1>11, <2>1, <2>2 DEF OnTrack, Stream, Balanced
<1>15. Tracking(t, evs, lag, strayed, o, new, gen, pushes)
  <2>1. ~lag /\ ~strayed /\ Whole(evs, 0) => \A i \in DOMAIN t.pending_diffs :
          \A k \in Keys, m \in Metas : Adds(t.pending_diffs[i], k, m) =>
            /\ gen # 0
            /\ \/ m \in MetasOf(new, k) \/ Going(evs, 0, o, k, m)
               \/ \E j \in DOMAIN t.pending_diffs : Drops(t.pending_diffs[j], k, m)
    BY <1>13 DEF OnTrack, Tracking
  <2>2. ~lag /\ pushes /\ t.join_ref # 0 /\ Whole(evs, 0) =>
          Current(t.state, evs, 0, o, new)
    BY <1>10 DEF OnTrack, Tracking
  <2> QED BY <2>1, <2>2 DEF OnTrack, Tracking
<1> QED BY <1>8, <1>14, <1>15 DEF OnTrack, o

---------------------------------------------------------------------------
(* The tracker, once it has taken every event that is queued.              *)

(* What is left of a sequence after n elements.                            *)
LEMMA Remaining ==
  ASSUME NEW S, NEW s \in Seq(S), NEW n \in 0..Len(s)
  PROVE  LET r == SubSeq(s, n + 1, Len(s))
         IN  /\ r \in Seq(S)
             /\ n = 0 => r = s
             /\ n = Len(s) => r = <<>>
             /\ n < Len(s) => /\ r # <<>> /\ Head(r) = s[n + 1]
                              /\ Tail(r) = SubSeq(s, n + 2, Len(s))
<1> DEFINE r == SubSeq(s, n + 1, Len(s))
<1>1. r \in Seq(S) /\ Len(r) = Len(s) - n /\ \A i \in 1..(Len(s) - n) : r[i] = s[n + i]
  OBVIOUS
<1>2. n = 0 => r = s
  OBVIOUS
<1>3. n = Len(s) => r = <<>>
  OBVIOUS
<1>4. ASSUME n < Len(s)
      PROVE  /\ r # <<>> /\ Head(r) = s[n + 1]
             /\ Tail(r) = SubSeq(s, n + 2, Len(s))
  <2> DEFINE u == SubSeq(s, n + 2, Len(s))
  <2>1. /\ u \in Seq(S) /\ Len(u) = Len(s) - (n + 1)
        /\ \A i \in 1..(Len(s) - (n + 1)) : u[i] = s[n + 1 + i]
    BY <1>4
  <2> HIDE DEF r, u
  <2>2. /\ r # <<>> /\ Head(r) = r[1] /\ Tail(r) \in Seq(S)
        /\ Len(Tail(r)) = Len(s) - n - 1
        /\ \A i \in 1..(Len(s) - n - 1) : Tail(r)[i] = r[i + 1]
    BY <1>1, <1>4
  <2>3. Len(Tail(r)) = Len(u) /\ \A i \in 1..Len(u) : Tail(r)[i] = u[i]
    BY <1>1, <1>4, <2>1, <2>2
  <2>4. Tail(r) = u
    <3> DEFINE v == Tail(r)
               D == 1..Len(u)
    <3>1. v = [i \in D |-> v[i]] /\ u = [i \in D |-> u[i]]
      <4>1. \A w \in Seq(S) : w = [i \in 1..Len(w) |-> w[i]]
        OBVIOUS
      <4>2. v \in Seq(S) /\ Len(v) = Len(u) /\ u \in Seq(S)
        BY <2>1, <2>2, <2>3
      <4> HIDE DEF v
      <4> QED BY <4>1, <4>2
    <3> HIDE DEF v, D
    <3>2. \A i \in D : v[i] = u[i]
      BY <2>3 DEF v, D
    <3>3. v = u
      BY <3>1, <3>2
    <3> QED BY <3>3 DEF v
  <2> QED BY <1>1, <1>4, <2>2, <2>4 DEF u
<1> QED BY <1>1, <1>2, <1>3, <1>4

(* Drained, a recursive function, takes the events one by one.             *)
LEMMA DrainedHasSteps ==
  ASSUME NEW S, events \in Seq(S)
  PROVE  \E d : /\ d[0] = tracker
                /\ \A i \in 1..Len(events) : d[i] = Taken(d[i - 1], events[i])
                /\ Drained = d[Len(events)]
<1> DEFINE n == Len(events)
           Step(e, i) == Taken(e, events[i])
           Run(e, l) == e = [i \in 0..l |-> IF i = 0 THEN tracker ELSE Step(e[i - 1], i)]
           T == {l \in Nat : \E e : Run(e, l)}
<1>0. n \in Nat
  OBVIOUS
<1>1. 0 \in T
  <2>1. Run([i \in 0..0 |-> tracker], 0)
    OBVIOUS
  <2> QED BY <2>1
<1>2. ASSUME NEW l \in T
      PROVE  l + 1 \in T
  <2> PICK e : Run(e, l)
    OBVIOUS
  <2> DEFINE f == [i \in 0..(l + 1) |-> IF i = l + 1 THEN Step(e[l], l + 1) ELSE e[i]]
  <2> HIDE DEF Step
  <2>1. \A i \in 0..(l + 1) : f[i] = IF i = 0 THEN tracker ELSE Step(f[i - 1], i)
    OBVIOUS
  <2> HIDE DEF f
  <2>2. f = [i \in 0..(l + 1) |-> f[i]]
    BY DEF f
  <2>3. Run(f, l + 1)
    BY <2>1, <2>2
  <2> QED BY <2>3
<1>3. n \in T
  BY <1>0, <1>1, <1>2, Induction
<1> DEFINE e == CHOOSE e : Run(e, n)
<1>4. Run(e, n)
  BY <1>3
<1>5. Drained = e[n]
  BY DEF Drained
<1> HIDE DEF e, Step, n
<1>6. e[0] = tracker /\ \A i \in 1..n : e[i] = Step(e[i - 1], i)
  <2>1. 0 \in 0..n /\ \A i \in 1..n : i \in 0..n /\ i # 0
    BY <1>0
  <2> QED BY <1>4, <2>1
<1> QED BY <1>5, <1>6 DEF Step, n

(* It stays on the track, to the end of the stream.                        *)
LEMMA DrainedOnTrack ==
  ASSUME NEW pushes \in BOOLEAN, events \in Seq(Frames(pushes)),
         tracker \in Trackers, NEW out \in Seq(PresenceDiff),
         NEW now \in PresenceState, NEW metas, NEW gen, NEW lag, NEW strayed,
         OnTrack(tracker, events, lag, strayed, out, now, metas, gen, pushes),
         \A i \in DOMAIN events : events[i].kind # "Lagged"
  PROVE  /\ Drained \in Trackers
         /\ OnTrack(Drained, <<>>, lag, strayed, out, now, metas, gen, pushes)
<1> DEFINE n == Len(events)
           Rest(i) == SubSeq(events, i + 1, Len(events))
<1>1. PICK d : /\ d[0] = tracker
               /\ \A i \in 1..n : d[i] = Taken(d[i - 1], events[i])
               /\ Drained = d[n]
  BY DrainedHasSteps
<1>2. n \in Nat /\ DOMAIN events = 1..n
  OBVIOUS
<1>3. \A i \in 0..n :
        /\ Rest(i) \in Seq(Frames(pushes))
        /\ i = 0 => Rest(i) = events
        /\ i = n => Rest(i) = <<>>
        /\ i < n => /\ Rest(i) # <<>> /\ Head(Rest(i)) = events[i + 1]
                    /\ Tail(Rest(i)) = Rest(i + 1)
  <2> SUFFICES ASSUME NEW i \in 0..n
               PROVE  /\ Rest(i) \in Seq(Frames(pushes))
                      /\ i = 0 => Rest(i) = events
                      /\ i = n => Rest(i) = <<>>
                      /\ i < n => /\ Rest(i) # <<>> /\ Head(Rest(i)) = events[i + 1]
                                  /\ Tail(Rest(i)) = Rest(i + 1)
    OBVIOUS
  <2>1. (i + 1) + 1 = i + 2
    BY <1>2
  <2> QED BY <2>1, Remaining
<1> DEFINE Good(i) ==
             /\ d[i] \in Trackers
             /\ OnTrack(d[i], Rest(i), lag, strayed, out, now, metas, gen, pushes)
           T == {i \in Nat : i <= n => Good(i)}
<1> HIDE DEF Rest, n
<1>4. 0 \in T
  BY <1>1, <1>2, <1>3
<1>5. ASSUME NEW i \in T
      PROVE  i + 1 \in T
  <2> SUFFICES ASSUME i + 1 <= n
               PROVE  Good(i + 1)
    OBVIOUS
  <2>1. i \in 0..n /\ i < n /\ i + 1 \in 1..n /\ (i + 1) - 1 = i
    BY <1>2
  <2>2. Good(i)
    BY <2>1
  <2>3. d[i + 1] = Taken(d[i], Head(Rest(i))) /\ Head(Rest(i)).kind # "Lagged"
    BY <1>1, <1>2, <1>3, <2>1
  <2>4. Rest(i) \in Seq(Frames(pushes)) /\ Rest(i) # <<>> /\ Tail(Rest(i)) = Rest(i + 1)
    BY <1>3, <2>1
  <2>5. d[i] \in Trackers
        /\ OnTrack(d[i], Rest(i), lag, strayed, out, now, metas, gen, pushes)
    BY <2>2
  <2> DEFINE u == Taken(d[i], Head(Rest(i)))
             r == Tail(Rest(i))
  <2>6. u \in Trackers /\ OnTrack(u, r, lag, strayed, out, now, metas, gen, pushes)
    BY <2>3, <2>4, <2>5, EventTaken
  <2>7. d[i + 1] = u /\ Rest(i + 1) = r
    BY <2>3, <2>4
  <2> HIDE DEF u, r
  <2> QED BY <2>6, <2>7
<1>6. n \in T
  <2> HIDE DEF T
  <2> QED BY <1>2, <1>4, <1>5, Induction
<1>7. Good(n)
  BY <1>2, <1>6
<1> QED BY <1>1, <1>2, <1>3, <1>7

(* With nothing left to come, a state that is pushed now brings the truth. *)
LEMMA StateIsTruth ==
  ASSUME NEW pushes \in BOOLEAN, NEW t \in Trackers, NEW now \in PresenceState,
         NEW metas, NEW gen, NEW frame, frame.state = now,
         OnTrack(t, <<>>, FALSE, FALSE, <<>>, now, metas, gen, pushes)
  PROVE  ApplyState(t, frame).tracker.state = now
<1> DEFINE q == t.pending_diffs
           new == ApplyState(t, frame).tracker.state
<1>1. Clean(q) /\ Past(q, now, metas)
  BY DEF OnTrack, Order, Line
<1>2. /\ new \in PresenceState
      /\ \A k \in Keys, m \in Metas :
           m \in MetasOf(new, k) <=> Folded(now, q, Len(q), k, m)
  BY <1>1, ApplyStateEffect
<1>3. DOMAIN q = 1..Len(q)
  BY DEF Trackers
<1>4. Whole(<<>>, 0) /\ \A k, m : ~Going(<<>>, 0, <<>>, k, m)
  BY DEF Whole, Going
<1>5. \A i \in DOMAIN q : \A k \in Keys, m \in Metas : Adds(q[i], k, m) =>
        m \in MetasOf(now, k) \/ \E j \in DOMAIN q : Drops(q[j], k, m)
  BY <1>4 DEF OnTrack, Tracking
<1> HIDE DEF q, new
<1>6. ASSUME NEW k \in Keys
      PROVE  MetasOf(new, k) = MetasOf(now, k)
  <2>1. MetasOf(new, k) \subseteq Metas /\ MetasOf(now, k) \subseteq Metas
    BY <1>2, MetasType
  <2>2. \A m \in Metas : m \in MetasOf(new, k) => m \in MetasOf(now, k)
    BY <1>2, <1>3, <1>5 DEF Folded
  <2>3. \A m \in Metas : m \in MetasOf(now, k) => m \in MetasOf(new, k)
    BY <1>1, <1>2, <1>3 DEF Folded, Past
  <2> QED BY <2>1, <2>2, <2>3
<1> QED BY <1>2, <1>6, SameMetas DEF new

---------------------------------------------------------------------------
(* What the application is told.                                           *)

(* It follows the next event it is given.                                  *)
LEMMA CoveredFollowed ==
  ASSUME NEW state \in PresenceState, reported \in PresenceState,
         NEW es \in Seq(Reports), es # <<>>, Covered(state, reported, es)
  PROVE  /\ Follow(Head(es)) \in PresenceState
         /\ Covered(state, Follow(Head(es)), Tail(es))
<1> DEFINE e == Head(es)
           r == Tail(es)
           told == Follow(e)
<1>1. /\ e \in Reports /\ e = es[1] /\ 1 \in DOMAIN es
      /\ \A i \in DOMAIN r : i + 1 \in DOMAIN es /\ r[i] = es[i + 1]
      /\ \A i \in DOMAIN es : i = 1 \/ (i - 1 \in DOMAIN r /\ r[i - 1] = es[i])
  BY Shifted
<1> HIDE DEF e, r
<1>2. \A i \in DOMAIN es : es[i] = e \/ \E j \in DOMAIN r : r[j] = es[i]
  BY <1>1
<1>3. \A j \in DOMAIN r : \E i \in DOMAIN es : r[j] = es[i]
  BY <1>1
<1>4. \A k \in Keys, m \in Metas : m \in MetasOf(state, k) =>
        \A i \in DOMAIN r : r[i].kind = "Left" /\ r[i].key = k => m \notin r[i].metas
  BY <1>3 DEF Covered
<1>5. CASE e.kind = "Joined"
  <2> DEFINE metas == MetasOf(reported, e.key) \cup e.metas
  <2>1. e.key \in Keys /\ e.metas \subseteq Metas
    BY <1>1, <1>5 DEF Reports
  <2>2. told = With(reported, e.key, metas) /\ metas \in SUBSET Metas
    BY <1>5, <2>1, MetasType DEF Follow
  <2> HIDE DEF told
  <2>3. /\ told \in PresenceState
        /\ \A k \in Keys : MetasOf(told, k)
                             = IF k = e.key THEN metas ELSE MetasOf(reported, k)
    BY <2>1, <2>2, WithMetas
  <2>4. ASSUME NEW k \in Keys, NEW m \in Metas, m \in MetasOf(state, k)
        PROVE  \/ m \in MetasOf(told, k)
               \/ \E i \in DOMAIN r : /\ r[i].kind = "Joined" /\ r[i].key = k
                                      /\ m \in r[i].metas
    <3>1. \/ m \in MetasOf(reported, k)
          \/ \E i \in DOMAIN es : /\ es[i].kind = "Joined" /\ es[i].key = k
                                  /\ m \in es[i].metas
      BY <2>4 DEF Covered
    <3> QED BY <1>2, <2>3, <3>1
  <2> QED BY <1>4, <2>3, <2>4 DEF Covered, told, e, r
<1>6. CASE e.kind = "Left"
  <2> DEFINE metas == MetasOf(reported, e.key) \ e.metas
  <2>1. e.key \in Keys /\ e.metas \subseteq Metas
    BY <1>1, <1>6 DEF Reports
  <2>2. told = With(reported, e.key, metas) /\ metas \in SUBSET Metas
    BY <1>6, <2>1, MetasType DEF Follow
  <2> HIDE DEF told
  <2>3. /\ told \in PresenceState
        /\ \A k \in Keys : MetasOf(told, k)
                             = IF k = e.key THEN metas ELSE MetasOf(reported, k)
    BY <2>1, <2>2, WithMetas
  <2>4. ASSUME NEW k \in Keys, NEW m \in Metas, m \in MetasOf(state, k)
        PROVE  \/ m \in MetasOf(told, k)
               \/ \E i \in DOMAIN r : /\ r[i].kind = "Joined" /\ r[i].key = k
                                      /\ m \in r[i].metas
    <3>1. /\ \/ m \in MetasOf(reported, k)
             \/ \E i \in DOMAIN es : /\ es[i].kind = "Joined" /\ es[i].key = k
                                     /\ m \in es[i].metas
          /\ e.key = k => m \notin e.metas
      BY <1>1, <1>6, <2>4 DEF Covered
    <3>2. \A i \in DOMAIN es : es[i].kind = "Joined" => \E j \in DOMAIN r : r[j] = es[i]
      BY <1>2, <1>6
    <3> QED BY <2>3, <3>1, <3>2
  <2> QED BY <1>4, <2>3, <2>4 DEF Covered, told, e, r
<1>7. CASE e.kind = "Synced"
  <2>1. told = reported
    BY <1>7 DEF Follow
  <2>2. \A i \in DOMAIN es : es[i].kind = "Joined" => \E j \in DOMAIN r : r[j] = es[i]
    BY <1>2, <1>7
  <2> HIDE DEF told
  <2>3. Covered(state, reported, r)
    BY <1>4, <2>2 DEF Covered
  <2> QED BY <2>1, <2>3 DEF told, e, r
<1> QED BY <1>1, <1>5, <1>6, <1>7 DEF Reports

(* The events of an update, for an application that was told everything    *)
(* before it: the tracker had no state, or takes one diff.                 *)
LEMMA CoveredApplied ==
  ASSUME NEW pushes \in BOOLEAN, NEW f \in Frames(pushes), NEW t \in Trackers,
         NEW told, Covered(t.state, told, <<>>),
         f.kind \in {"State", "Diff"}, f.kind = "State" => t.state = Nobody
  PROVE  LET a == Apply(t, f)
             es == IF a.update = "Synced" THEN PresenceEvents(t.state, a.changes)
                                          ELSE <<>>
         IN  Covered(a.tracker.state, told, es)
<1> DEFINE a == Apply(t, f)
           es == PresenceEvents(t.state, a.changes)
<1>1. /\ f.state \in PresenceState /\ f.diff \in PresenceDiff
      /\ t.state \in PresenceState
  BY FrameFacts DEF Trackers
<1>2. CASE f.kind = "State"
  <2>1. a = ApplyState(t, f)
    BY <1>2 DEF Apply
  <2>2. /\ a.update = "Synced" /\ a.changes \in PresenceDiff
        /\ a.tracker.state \in PresenceState
        /\ \A k \in Keys :
             MetasOf(a.tracker.state, k) \subseteq MetasOf(a.changes.joins, k)
    BY <1>1, <1>2, <2>1, ApplyStateEffect
  <2>3. DOMAIN t.state = {}
    BY <1>2 DEF Nobody
  <2> HIDE DEF a
  <2>4. /\ \A k \in Keys, m \in Metas : Adds(a.changes, k, m) =>
             \E i \in DOMAIN es : /\ es[i].kind = "Joined" /\ es[i].key = k
                                  /\ m \in es[i].metas
        /\ \A i \in DOMAIN es : es[i].kind = "Left" => es[i].key \in DOMAIN t.state
    BY <1>1, <2>2, UpdateTells
  <2> HIDE DEF es
  <2>5. Covered(a.tracker.state, told, es)
    BY <2>2, <2>3, <2>4 DEF Covered, Adds
  <2> QED BY <2>2, <2>5 DEF a, es
<1>3. CASE f.kind = "Diff"
  <2>1. a = ApplyDiff(t, f)
    BY <1>3 DEF Apply
  <2>2. CASE t.join_ref = 0 \/ t.join_ref # f.join_ref
    <3>1. a.update = "Pending" /\ a.tracker.state = t.state
      BY <2>1, <2>2 DEF ApplyDiff, Trackers
    <3> HIDE DEF a
    <3> QED BY <3>1 DEF a
  <2>3. CASE ~(t.join_ref = 0 \/ t.join_ref # f.join_ref)
    <3>1. /\ a.update = "Synced" /\ a.changes = f.diff
          /\ a.tracker.state = SyncDiff(t.state, f.diff)
      BY <2>1, <2>3 DEF ApplyDiff, Trackers
    <3>2. \A k \in Keys, m \in Metas : m \in MetasOf(a.tracker.state, k) =>
            (m \in MetasOf(t.state, k) \/ Adds(f.diff, k, m)) /\ ~Drops(f.diff, k, m)
      BY <1>1, <3>1, SyncDiffMetas DEF Adds, Drops
    <3> HIDE DEF a
    <3>3. /\ \A k \in Keys, m \in Metas : Adds(f.diff, k, m) =>
               \E i \in DOMAIN es : /\ es[i].kind = "Joined" /\ es[i].key = k
                                    /\ m \in es[i].metas
          /\ \A i \in DOMAIN es : es[i].kind = "Left" =>
               es[i].metas = MetasOf(f.diff.leaves, es[i].key)
      BY <1>1, <3>1, UpdateTells
    <3> HIDE DEF es
    <3>4. \A k \in Keys, m \in Metas : m \in MetasOf(t.state, k) =>
            m \in MetasOf(told, k)
      BY DEF Covered
    <3>5. Covered(a.tracker.state, told, es)
      BY <3>2, <3>3, <3>4 DEF Covered, Drops
    <3> QED BY <3>1, <3>5 DEF a, es
  <2> QED BY <2>2, <2>3
<1> QED BY <1>2, <1>3

---------------------------------------------------------------------------
(* The invariant of Presence.                                              *)

Shaped ==
  /\ present \in PresenceState /\ reported \in PresenceState
  /\ used \in SUBSET Metas /\ outbox \in Seq(PresenceDiff)
  /\ reading \in Seq(PresenceState) /\ Len(reading) <= 1
  /\ pushed \in 0..MaxStates /\ intercepts \in BOOLEAN
  /\ generation \in {0, joins} /\ joins \in 0..MaxJoins
  /\ events \in Seq(Frames(intercepts)) /\ Len(events) <= Slots
  /\ lagging \in BOOLEAN /\ stray \in BOOLEAN
  /\ tracker \in Trackers /\ pending \in Seq(Reports)
  /\ desynchronized \in BOOLEAN /\ restated \in BOOLEAN
  /\ resync \in {"no", "leaving", "joining"}

(* A channel that intercepts its diffs does not read a state ahead, and a  *)
(* resync that is under way has reset the tracker.                         *)
Idle ==
  /\ intercepts => reading = <<>>
  /\ resync # "no" => tracker = NewTracker /\ pending = <<>>

Tracked ==
  OnTrack(tracker, events, lagging, stray, outbox, present, used, generation,
          intercepts)

Told == ~restated => Covered(tracker.state, reported, pending)

Inv == Shaped /\ Idle /\ Tracked /\ Told

(* Nobody is in the state of a new tracker.                                *)
LEMMA CoveredNobody ==
  ASSUME NEW told, NEW es PROVE Covered(NewTracker.state, told, es)
BY NobodyThere DEF Covered, NewTracker

(* The invariant holds at first ...                                        *)
LEMMA InvInit ==
  ASSUME Init PROVE Inv
<1>1. 0 \in 0..MaxStates /\ 0 \in 0..MaxJoins /\ 0 <= Slots
  BY PresenceBounds
<1>2. Shaped
  <2>1. /\ present \in PresenceState /\ reported \in PresenceState
        /\ tracker \in Trackers
    BY NobodyThere, NewTrackerType DEF Init
  <2>2. /\ outbox \in Seq(PresenceDiff) /\ reading \in Seq(PresenceState)
        /\ events \in Seq(Frames(intercepts)) /\ pending \in Seq(Reports)
        /\ Len(reading) <= 1 /\ Len(events) <= Slots
    BY <1>1 DEF Init
  <2> QED BY <1>1, <2>1, <2>2 DEF Init, Shaped
<1>3. Idle
  BY DEF Init, Idle
<1>4. Tracked
  <2>1. Line(<<>>, <<>>, <<>>)
    BY DEF Line, Clean, Before
  <2>2. Order(NewTracker, <<>>, <<>>, Nobody, {})
    BY <2>1, NobodyThere DEF Order, Past, NewTracker, Diffs
  <2>3. Stream(<<>>, FALSE, FALSE, <<>>, Nobody, 0, intercepts)
    BY DEF Stream
  <2>4. Tracking(NewTracker, <<>>, FALSE, FALSE, <<>>, Nobody, 0, intercepts)
    BY NewTracking
  <2> QED BY <2>2, <2>3, <2>4 DEF Init, Tracked, OnTrack
<1>5. Told
  BY CoveredNobody DEF Init, Told
<1> QED BY <1>2, <1>3, <1>4, <1>5 DEF Inv

(* A tracked meta is new, and is added by the diff of it, which drops the  *)
(* one it takes the place of.                                              *)
LEMMA InvTrack ==
  ASSUME Inv, NEW k \in Keys, Track(k) PROVE Inv'
<1>1. PICK m \in Metas \ used, old \in {{}} \cup {{n} : n \in MetasOf(present, k)} :
        /\ used' = used \cup {m}
        /\ present' = With(present, k, (MetasOf(present, k) \ old) \cup {m})
        /\ outbox' = Append(outbox, [joins  |-> Single(k, m),
                                    leaves |-> With(Nobody, k, old)])
        /\ UNCHANGED <<reading, pushed, intercepts, channel, stream, client, resync>>
  BY DEF Track
<1> DEFINE d == [joins |-> Single(k, m), leaves |-> With(Nobody, k, old)]
           metas == (MetasOf(present, k) \ old) \cup {m}
<1>2. present \in PresenceState /\ used \subseteq Metas
      /\ outbox \in Seq(PresenceDiff) /\ events \in Seq(Frames(intercepts))
      /\ tracker \in Trackers /\ intercepts \in BOOLEAN
  BY DEF Inv, Shaped
<1>3. metas \in SUBSET Metas /\ old \in SUBSET Metas /\ old \subseteq MetasOf(present, k)
  BY <1>2, MetasType
<1>4. /\ present' \in PresenceState
      /\ \A l \in Keys : MetasOf(present', l)
                           = IF l = k THEN metas ELSE MetasOf(present, l)
  BY <1>1, <1>2, <1>3, WithMetas
<1>5. /\ d.joins \in PresenceState /\ d.leaves \in PresenceState
      /\ \A l \in Keys : /\ MetasOf(d.joins, l) = IF l = k THEN {m} ELSE {}
                         /\ MetasOf(d.leaves, l) = IF l = k THEN old ELSE {}
  BY <1>3, NobodyThere, SingleMetas, WithMetas
<1>6. d \in PresenceDiff
  BY <1>5 DEF PresenceDiff
<1>7. \A l \in Keys : MetasOf(present, l) \subseteq used
  BY DEF Inv, Tracked, OnTrack, Order
<1>8. outbox' = Append(outbox, d)
  BY <1>1
<1> HIDE DEF d
<1>9. /\ used \subseteq used'
      /\ \A l \in Keys : /\ MetasOf(present', l) \subseteq used'
                         /\ MetasOf(present', l) \subseteq Metas
                         /\ MetasOf(present, l) \subseteq Metas
  BY <1>1, <1>2, <1>4, <1>7, MetasType
<1>10. \A l \in Keys, n \in Metas :
         /\ Adds(d, l, n) => n \in MetasOf(present', l) /\ n \notin used
         /\ Drops(d, l, n) => n \in MetasOf(present, l) /\ n \notin MetasOf(present', l)
         /\ n \in MetasOf(present, l) => n \in MetasOf(present', l) \/ Drops(d, l, n)
         /\ n \in MetasOf(present', l) => n \in MetasOf(present, l) \/ Adds(d, l, n)
  <2>1. \A n \in old : n # m
    BY <1>3, <1>7
  <2> QED BY <1>3, <1>4, <1>5, <2>1 DEF Adds, Drops
<1>11. OnTrack(tracker, events, lagging, stray, Append(outbox, d), present', used',
               generation, intercepts)
  <2>1. OnTrack(tracker, events, lagging, stray, outbox, present, used, generation,
                intercepts)
    BY DEF Inv, Tracked
  <2> QED BY <1>2, <1>6, <1>9, <1>10, <2>1, TrackChanged
<1>12. Tracked'
  BY <1>1, <1>8, <1>11 DEF Tracked, channel, stream, client
<1>13. outbox' \in Seq(PresenceDiff)
  BY <1>2, <1>6, <1>8
<1> QED BY <1>1, <1>2, <1>4, <1>12, <1>13
        DEF Inv, Shaped, Idle, Told, channel, stream, client

(* ... and an untracked meta is dropped by the diff of it.                 *)
LEMMA InvUntrack ==
  ASSUME Inv, NEW k \in Keys, Untrack(k) PROVE Inv'
<1>1. PICK m \in MetasOf(present, k) :
        /\ present' = With(present, k, MetasOf(present, k) \ {m})
        /\ outbox' = Append(outbox, [joins |-> Nobody, leaves |-> Single(k, m)])
        /\ UNCHANGED <<used, reading, pushed, intercepts, channel, stream, client,
                       resync>>
  BY DEF Untrack
<1> DEFINE d == [joins |-> Nobody, leaves |-> Single(k, m)]
           metas == MetasOf(present, k) \ {m}
<1>2. present \in PresenceState /\ used \subseteq Metas
      /\ outbox \in Seq(PresenceDiff) /\ events \in Seq(Frames(intercepts))
      /\ tracker \in Trackers /\ intercepts \in BOOLEAN
  BY DEF Inv, Shaped
<1>3. metas \in SUBSET Metas /\ m \in Metas
  BY <1>2, MetasType
<1>4. /\ present' \in PresenceState
      /\ \A l \in Keys : MetasOf(present', l)
                           = IF l = k THEN metas ELSE MetasOf(present, l)
  BY <1>1, <1>2, <1>3, WithMetas
<1>5. /\ d.joins \in PresenceState /\ d.leaves \in PresenceState
      /\ \A l \in Keys : /\ MetasOf(d.joins, l) = {}
                         /\ MetasOf(d.leaves, l) = IF l = k THEN {m} ELSE {}
  BY <1>3, NobodyThere, SingleMetas
<1>6. d \in PresenceDiff
  BY <1>5 DEF PresenceDiff
<1>7. \A l \in Keys : MetasOf(present, l) \subseteq used
  BY DEF Inv, Tracked, OnTrack, Order
<1>8. outbox' = Append(outbox, d) /\ used' = used
  BY <1>1
<1> HIDE DEF d
<1>9. /\ used \subseteq used
      /\ \A l \in Keys : /\ MetasOf(present', l) \subseteq used
                         /\ MetasOf(present', l) \subseteq Metas
                         /\ MetasOf(present, l) \subseteq Metas
  BY <1>2, <1>4, <1>7, MetasType
<1>10. \A l \in Keys, n \in Metas :
         /\ Adds(d, l, n) => n \in MetasOf(present', l) /\ n \notin used
         /\ Drops(d, l, n) => n \in MetasOf(present, l) /\ n \notin MetasOf(present', l)
         /\ n \in MetasOf(present, l) => n \in MetasOf(present', l) \/ Drops(d, l, n)
         /\ n \in MetasOf(present', l) => n \in MetasOf(present, l) \/ Adds(d, l, n)
  BY <1>4, <1>5 DEF Adds, Drops
<1>11. OnTrack(tracker, events, lagging, stray, Append(outbox, d), present', used,
               generation, intercepts)
  <2>1. OnTrack(tracker, events, lagging, stray, outbox, present, used, generation,
                intercepts)
    BY DEF Inv, Tracked
  <2> QED BY <1>2, <1>6, <1>9, <1>10, <2>1, TrackChanged
<1>12. Tracked'
  BY <1>1, <1>8, <1>11 DEF Tracked, channel, stream, client
<1>13. outbox' \in Seq(PresenceDiff)
  BY <1>2, <1>6, <1>8
<1> QED BY <1>1, <1>2, <1>4, <1>12, <1>13
        DEF Inv, Shaped, Idle, Told, channel, stream, client

(* A diff of the queue is a frame, of this generation if it is pushed.     *)
LEMMA DiffIsFrame ==
  ASSUME NEW pushes \in BOOLEAN, NEW g \in 0..MaxJoins, pushes <=> g # 0,
         NEW d \in PresenceDiff
  PROVE  /\ DiffFrame(g, d) \in Frames(pushes)
         /\ DiffFrame(g, d).diff = d /\ DiffFrame(g, d).join_ref = g
         /\ DiffFrame(g, d).kind = "Diff" /\ ~Break(DiffFrame(g, d))
<1>1. g \in IF pushes THEN 1..MaxJoins ELSE {0}
  BY PresenceBounds
<1>2. DiffFrame(g, d) \in DiffFrames(pushes)
  BY <1>1 DEF DiffFrames
<1> QED BY <1>2 DEF Frames, DiffFrame, Break

(* The first diff is sent, or nobody is subscribed to it.                  *)
LEMMA InvSendDiff ==
  ASSUME Inv, SendDiff PROVE Inv'
<1> DEFINE d == Head(outbox)
           o == Tail(outbox)
<1>1. /\ outbox # <<>> /\ outbox' = o
      /\ UNCHANGED <<present, used, reading, pushed, intercepts, channel, client, resync>>
  BY DEF SendDiff
<1>2. /\ outbox \in Seq(PresenceDiff) /\ events \in Seq(Frames(intercepts))
      /\ tracker \in Trackers /\ intercepts \in BOOLEAN /\ lagging \in BOOLEAN
      /\ Len(events) <= Slots /\ generation \in 0..MaxJoins /\ stray \in BOOLEAN
  BY PresenceBounds DEF Inv, Shaped
<1>3. OnTrack(tracker, events, lagging, stray, outbox, present, used, generation,
              intercepts)
  BY DEF Inv, Tracked
<1>4. Clean(outbox) /\ Balanced(outbox, present) /\ (intercepts => ~stray)
  BY <1>3 DEF OnTrack, Order, Line, Stream, Balanced
<1>5. /\ o \in Seq(PresenceDiff) /\ d \in PresenceDiff
      /\ Balanced(o, present)
      /\ \A k, m :
           /\ (\E j \in DOMAIN outbox : Adds(outbox[j], k, m)) <=>
                Adds(d, k, m) \/ \E j \in DOMAIN o : Adds(o[j], k, m)
           /\ (\E j \in DOMAIN outbox : Drops(outbox[j], k, m)) <=>
                Drops(d, k, m) \/ \E j \in DOMAIN o : Drops(o[j], k, m)
      /\ \A k \in Keys, m \in Metas : Adds(d, k, m) =>
           m \in MetasOf(present, k) \/ \E j \in DOMAIN o : Drops(o[j], k, m)
  BY <1>1, <1>2, <1>4, OutboxShifted, Shifted
<1>6. \A f \in Frames(intercepts) : f.diff = d =>
        \A evs \in Seq(Frames(intercepts)) :
          Order(tracker, evs, outbox, present, used) =>
            /\ Order(tracker, Append(evs, f), o, present, used)
            /\ Order(tracker, evs, o, present, used)
  BY <1>1, <1>2, OrderSent
<1> HIDE DEF d, o
<1>7. ASSUME NEW g \in 0..MaxJoins, intercepts <=> g # 0, g # 0 => g = generation,
             NEW s \in BOOLEAN, stray => s, intercepts => ~s, ~s => generation # 0,
             Emit(DiffFrame(g, d))
      PROVE  /\ events' \in Seq(Frames(intercepts)) /\ lagging' \in BOOLEAN
             /\ Len(events') <= Slots
             /\ OnTrack(tracker, events', lagging', s, o, present, used, generation,
                        intercepts)
  <2> DEFINE f == DiffFrame(g, d)
  <2>1. /\ f \in Frames(intercepts) /\ f.diff = d /\ f.join_ref = g
        /\ f.kind = "Diff" /\ ~Break(f)
    BY <1>2, <1>5, <1>7, DiffIsFrame
  <2> HIDE DEF f
  <2>2. /\ f.join_ref # 0 => f.join_ref = generation
        /\ f.kind = "State" /\ intercepts => f.state = present
    BY <1>7, <2>1
  <2>3. InOrder(f, tracker, outbox, o, present, used, intercepts)
    BY <1>6, <2>1 DEF InOrder
  <2>4. Carries(f, outbox, o, present, generation, s)
    BY <1>5, <1>7, <2>1 DEF Carries
  <2>6. Emit(f)
    BY <1>7 DEF f
  <2>7. /\ intercepts \in BOOLEAN /\ events \in Seq(Frames(intercepts))
        /\ lagging \in BOOLEAN /\ Len(events) <= Slots
        /\ tracker \in Trackers /\ outbox \in Seq(PresenceDiff)
        /\ f \in Frames(intercepts) /\ ~Break(f)
        /\ stray => s
        /\ intercepts => ~s
        /\ Balanced(o, present)
    BY <1>2, <1>5, <1>7, <2>1
  <2> QED BY <1>3, <2>2, <2>3, <2>4, <2>6, <2>7, FrameEmitted
<1>8. /\ events' \in Seq(Frames(intercepts)) /\ lagging' \in BOOLEAN
      /\ stray' \in BOOLEAN /\ Len(events') <= Slots
      /\ OnTrack(tracker, events', lagging', stray', o, present, used, generation,
                 intercepts)
  <2>1. CASE /\ generation # 0 /\ UNCHANGED stray
             /\ Emit(DiffFrame(IF intercepts THEN generation ELSE 0, d))
    <3> DEFINE g == IF intercepts THEN generation ELSE 0
    <3>1. g \in 0..MaxJoins /\ (intercepts <=> g # 0) /\ (g # 0 => g = generation)
      BY <1>2, <2>1, PresenceBounds
    <3>2. Emit(DiffFrame(g, d)) /\ stray' = stray
      BY <2>1
    <3> HIDE DEF g
    <3> QED BY <1>2, <1>4, <1>7, <2>1, <3>1, <3>2
  <2>2. CASE generation = 0 /\ joins # 0 /\ ~intercepts /\ Emit(DiffFrame(0, d))
             /\ stray' = TRUE
    <3>1. 0 \in 0..MaxJoins
      BY PresenceBounds
    <3> QED BY <1>2, <1>7, <2>2, <3>1
  <2>3. CASE generation = 0 /\ UNCHANGED stream
    <3>1. events' = events /\ lagging' = lagging /\ stray' = stray
      BY <2>3 DEF stream
    <3>2. Order(tracker, events, o, present, used)
      <4>1. Order(tracker, events, outbox, present, used)
        BY <1>3 DEF OnTrack
      <4> QED BY <1>1, <1>2, <4>1, OrderDropped DEF o
    <3>3. OnTrack(tracker, events, lagging, stray, outbox, present, used, 0, intercepts)
      BY <1>3, <2>3
    <3>4. OnTrack(tracker, events, lagging, stray, o, present, used, generation,
                  intercepts)
      BY <1>2, <1>5, <3>2, <3>3, TrackIdle
    <3> QED BY <1>2, <3>1, <3>4
  <2> QED BY <2>1, <2>2, <2>3 DEF SendDiff, d
<1>9. Tracked'
  BY <1>1, <1>8 DEF Tracked, channel, client
<1> QED BY <1>1, <1>5, <1>8, <1>9
        DEF Inv, Shaped, Idle, Told, channel, client

(* The state is read, to be pushed later.                                  *)
LEMMA InvReadState ==
  ASSUME Inv, ReadState PROVE Inv'
<1>1. /\ ~intercepts /\ reading' = <<present>>
      /\ UNCHANGED <<present, used, outbox, pushed, intercepts, channel, stream,
                     client, resync>>
  BY DEF ReadState
<1>2. reading' \in Seq(PresenceState) /\ Len(reading') <= 1
  BY <1>1 DEF Inv, Shaped
<1> QED BY <1>1, <1>2
        DEF Inv, Shaped, Idle, Tracked, Told, channel, stream, client

(* A state enters the stream: if the diffs are pushed, the present one.    *)
LEMMA InvPushState ==
  ASSUME Inv, PushState PROVE Inv'
<1>1. /\ generation # 0 /\ pushed < MaxStates /\ pushed' = pushed + 1 /\ reading' = <<>>
      /\ UNCHANGED <<present, used, outbox, intercepts, channel, stray, client, resync>>
  BY DEF PushState
<1>2. /\ outbox \in Seq(PresenceDiff) /\ events \in Seq(Frames(intercepts))
      /\ tracker \in Trackers /\ intercepts \in BOOLEAN /\ lagging \in BOOLEAN
      /\ Len(events) <= Slots /\ generation \in 1..MaxJoins
      /\ present \in PresenceState /\ pushed \in 0..MaxStates
      /\ reading \in Seq(PresenceState) /\ (intercepts => reading = <<>>)
  BY <1>1, PresenceBounds DEF Inv, Shaped, Idle
<1>3. OnTrack(tracker, events, lagging, stray, outbox, present, used, generation,
              intercepts)
  BY DEF Inv, Tracked
<1>4. PICK s \in PresenceState : Emit(StateFrame(generation, s))
                                 /\ (intercepts => s = present)
  <2>1. reading # <<>> => Head(reading) \in PresenceState
    BY <1>2
  <2> QED BY <1>2, <2>1 DEF PushState
<1> DEFINE f == StateFrame(generation, s)
<1>5. /\ f \in Frames(intercepts) /\ f.diff = NoChanges /\ f.join_ref = generation
      /\ f.state = s /\ ~Break(f)
  <2>1. f \in StateFrames
    BY <1>2 DEF StateFrames
  <2> QED BY <2>1 DEF Frames, StateFrame, Break
<1> HIDE DEF f
<1>6. InOrder(f, tracker, outbox, outbox, present, used, intercepts)
  BY <1>2, <1>5, OrderQuiet DEF InOrder
<1>7. Carries(f, outbox, outbox, present, generation, stray)
  BY <1>5, QuietNoChanges DEF Carries
<1>8. /\ Balanced(outbox, present) /\ (intercepts => ~stray)
      /\ f.join_ref # 0 => f.join_ref = generation
      /\ f.kind = "State" /\ intercepts => f.state = present
  BY <1>3, <1>4, <1>5 DEF OnTrack, Stream, Balanced
<1>9. Emit(f)
  BY <1>4 DEF f
<1>10. /\ events' \in Seq(Frames(intercepts)) /\ lagging' \in BOOLEAN
       /\ Len(events') <= Slots
       /\ OnTrack(tracker, events', lagging', stray, outbox, present, used, generation,
                  intercepts)
  BY <1>2, <1>3, <1>5, <1>6, <1>7, <1>8, <1>9, FrameEmitted
<1>11. Tracked'
  BY <1>1, <1>10 DEF Tracked, channel, client
<1>12. pushed' \in 0..MaxStates
  BY <1>1, <1>2, PresenceBounds
<1>13. reading' \in Seq(PresenceState) /\ Len(reading') <= 1
  BY <1>1
<1> QED BY <1>1, <1>10, <1>11, <1>12, <1>13
        DEF Inv, Shaped, Idle, Told, channel, client

(* A generation ends, and the stream may say so.                           *)
LEMMA InvEnd ==
  ASSUME Inv, End PROVE Inv'
<1>1. /\ generation' = 0 /\ reading' = <<>> /\ pushed' = 0 /\ Emit(Other("Ended"))
      /\ UNCHANGED <<present, used, outbox, intercepts, joins, stray, client, resync>>
  BY DEF End
<1>2. /\ outbox \in Seq(PresenceDiff) /\ events \in Seq(Frames(intercepts))
      /\ tracker \in Trackers /\ intercepts \in BOOLEAN /\ lagging \in BOOLEAN
      /\ Len(events) <= Slots
  BY DEF Inv, Shaped
<1>3. OnTrack(tracker, events, lagging, stray, outbox, present, used, generation,
              intercepts)
  BY DEF Inv, Tracked
<1>4. /\ events' \in Seq(Frames(intercepts)) /\ lagging' \in BOOLEAN
      /\ Len(events') <= Slots
      /\ OnTrack(tracker, events', lagging', stray, outbox, present, used, 0,
                 intercepts)
  BY <1>1, <1>2, <1>3, EndEmitted
<1>5. Tracked'
  BY <1>1, <1>4 DEF Tracked, client
<1>6. /\ reading' \in Seq(PresenceState) /\ Len(reading') <= 1
      /\ pushed' \in 0..MaxStates
  BY <1>1, PresenceBounds
<1> QED BY <1>1, <1>4, <1>5, <1>6 DEF Inv, Shaped, Idle, Told, client

(* A generation begins.                                                    *)
LEMMA Begins ==
  ASSUME Inv, NextGeneration
  PROVE  /\ joins' \in 0..MaxJoins /\ generation' \in {0, joins'}
         /\ OnTrack(tracker, events, lagging, stray, outbox, present, used,
                    generation', intercepts)
<1>1. /\ generation = 0 /\ joins < MaxJoins /\ joins' = joins + 1
      /\ generation' = joins + 1
  BY DEF NextGeneration
<1>2. /\ events \in Seq(Frames(intercepts)) /\ intercepts \in BOOLEAN
      /\ joins \in 0..MaxJoins
  BY DEF Inv, Shaped
<1>3. OnTrack(tracker, events, lagging, stray, outbox, present, used, 0, intercepts)
  BY <1>1 DEF Inv, Tracked
<1>4. Balanced(outbox, present) /\ Order(tracker, events, outbox, present, used)
  BY <1>3 DEF OnTrack, Stream, Balanced
<1>5. OnTrack(tracker, events, lagging, stray, outbox, present, used,
              generation', intercepts)
  BY <1>2, <1>3, <1>4, TrackIdle
<1> QED BY <1>1, <1>2, <1>5, PresenceBounds

(* The channel is joined again.                                            *)
LEMMA InvRejoin ==
  ASSUME Inv, Rejoin PROVE Inv'
<1>1. NextGeneration /\ UNCHANGED <<server, stream, client, resync>>
  BY DEF Rejoin
<1>2. Tracked'
  BY <1>1, Begins DEF Tracked, server, stream, client
<1> QED BY <1>1, <1>2, Begins
        DEF Inv, Shaped, Idle, Told, server, stream, client

(* next returns an event of the last update.                               *)
LEMMA InvNextPending ==
  ASSUME Inv, NextPending PROVE Inv'
<1>1. /\ resync = "no" /\ pending # <<>> /\ pending' = Tail(pending)
      /\ reported' = Follow(Head(pending))
      /\ UNCHANGED <<server, channel, stream, tracker, desynchronized, restated, resync>>
  BY DEF NextPending
<1>2. /\ tracker \in Trackers /\ pending \in Seq(Reports)
      /\ reported \in PresenceState /\ tracker.state \in PresenceState
  BY DEF Inv, Shaped, Trackers
<1>3. pending' \in Seq(Reports) /\ Head(pending) \in Reports
  BY <1>1, <1>2, Shifted
<1>4. Follow(Head(pending)) \in PresenceState
  <2>1. Covered(NewTracker.state, reported, pending)
    BY CoveredNobody
  <2> QED BY <1>1, <1>2, <2>1, NewTrackerType, NobodyThere, CoveredFollowed
<1>5. Told'
  <2> SUFFICES ASSUME ~restated'
               PROVE  Covered(tracker.state, reported', pending')
    BY <1>1 DEF Told
  <2>1. Covered(tracker.state, reported, pending)
    BY <1>1 DEF Inv, Told
  <2> QED BY <1>1, <1>2, <2>1, CoveredFollowed
<1> QED BY <1>1, <1>3, <1>4, <1>5
        DEF Inv, Shaped, Idle, Tracked, server, channel, stream

(* The event that next takes.                                              *)
LEMMA TakenByNext ==
  ASSUME Inv, NextEvent
  PROVE  /\ events' \in Seq(Frames(intercepts)) /\ Len(events') <= Slots
         /\ events' = Tail(events) /\ Head(events) \in Frames(intercepts)
         /\ OnTrack(NewTracker, events', lagging, stray, outbox, present, used,
                    generation, intercepts)
         /\ Head(events).kind # "Lagged" =>
              LET u == Taken(tracker, Head(events))
              IN  /\ u \in Trackers
                  /\ OnTrack(u, events', lagging, stray, outbox, present, used,
                             generation, intercepts)
<1>1. events # <<>> /\ events' = Tail(events)
  BY DEF NextEvent
<1>2. /\ outbox \in Seq(PresenceDiff) /\ events \in Seq(Frames(intercepts))
      /\ tracker \in Trackers /\ intercepts \in BOOLEAN
      /\ Len(events) <= Slots /\ present \in PresenceState
  BY DEF Inv, Shaped
<1>3. OnTrack(tracker, events, lagging, stray, outbox, present, used, generation,
              intercepts)
  BY DEF Inv, Tracked
<1>4. /\ Tail(events) \in Seq(Frames(intercepts)) /\ Len(Tail(events)) <= Slots
      /\ Head(events) \in Frames(intercepts)
  BY <1>1, <1>2, Shifted, PresenceBounds
<1> DEFINE f == Head(events)
           r == Tail(events)
           u == Taken(tracker, f)
<1>5. /\ OnTrack(NewTracker, r, lagging, stray, outbox, present, used,
                 generation, intercepts)
      /\ f.kind # "Lagged" =>
           /\ u \in Trackers
           /\ OnTrack(u, r, lagging, stray, outbox, present, used,
                      generation, intercepts)
  BY <1>1, <1>2, <1>3, EventTaken
<1> HIDE DEF u
<1> QED BY <1>1, <1>4, <1>5 DEF u

(* next takes a state or a diff, and has events to return.                 *)
LEMMA InvNextFrame ==
  ASSUME Inv, NextFrame PROVE Inv'
<1> DEFINE f == Head(events)
           a == Apply(tracker, f)
           es == IF a.update = "Synced" THEN PresenceEvents(tracker.state, a.changes)
                                        ELSE <<>>
<1>1. /\ NextEvent /\ f.kind \in {"State", "Diff"} /\ tracker' = a.tracker
      /\ pending' = es
      /\ restated' = (restated \/ (f.kind = "State" /\ tracker.join_ref # 0))
      /\ UNCHANGED <<desynchronized, reported>>
  BY DEF NextFrame
<1>2. /\ resync = "no" /\ pending = <<>>
      /\ UNCHANGED <<server, channel, lagging, stray, resync>>
  BY <1>1 DEF NextEvent
<1>3. /\ tracker \in Trackers /\ intercepts \in BOOLEAN /\ restated \in BOOLEAN
      /\ tracker.state \in PresenceState
  BY DEF Inv, Shaped, Trackers
<1>4. Taken(tracker, f) = a.tracker
  BY <1>1 DEF Taken
<1>5. /\ f \in Frames(intercepts) /\ f.state \in PresenceState
      /\ f.diff \in PresenceDiff
  BY <1>1, <1>3, TakenByNext, FrameFacts
<1>6. /\ events' \in Seq(Frames(intercepts)) /\ Len(events') <= Slots
      /\ a.tracker \in Trackers
      /\ OnTrack(a.tracker, events', lagging, stray, outbox, present, used,
                 generation, intercepts)
  <2> DEFINE u == Taken(tracker, f)
  <2>1. /\ events' \in Seq(Frames(intercepts)) /\ Len(events') <= Slots
        /\ u \in Trackers
        /\ OnTrack(u, events', lagging, stray, outbox, present, used,
                   generation, intercepts)
    BY <1>1, TakenByNext
  <2>2. u = a.tracker
    BY <1>4
  <2> HIDE DEF u, a
  <2> QED BY <2>1, <2>2
<1>7. a.changes \in PresenceDiff
  <2>1. CASE f.kind = "State"
    BY <1>3, <1>5, <2>1, ApplyStateEffect DEF Apply
  <2>2. CASE f.kind # "State"
    BY <1>5, <2>2, NobodyThere DEF Apply, ApplyDiff
  <2> QED BY <2>1, <2>2
<1> HIDE DEF a
<1>8. es \in Seq(Reports)
  BY <1>3, <1>7, UpdateTells
<1>9. ASSUME ~restated'
      PROVE  Covered(a.tracker.state, reported, es)
  <2>1. ~restated /\ (f.kind = "State" => tracker.join_ref = 0)
    BY <1>1, <1>9
  <2>2. Covered(tracker.state, reported, <<>>)
    BY <1>2, <2>1 DEF Inv, Told
  <2>3. f.kind = "State" => tracker.state = Nobody
    BY <2>1 DEF Inv, Tracked, OnTrack, Tracking
  <2> HIDE DEF f
  <2> QED BY <1>1, <1>3, <1>5, <2>2, <2>3, CoveredApplied DEF a
<1> HIDE DEF es, f
<1>10. Told'
  BY <1>1, <1>9 DEF Told
<1>11. Tracked'
  BY <1>1, <1>2, <1>6 DEF Tracked, server, channel
<1>12. restated' \in BOOLEAN
  BY <1>1, <1>3
<1> QED BY <1>1, <1>2, <1>6, <1>8, <1>10, <1>11, <1>12
        DEF Inv, Shaped, Idle, server, channel

(* next takes the end of a generation, and resets.                         *)
LEMMA InvNextEnded ==
  ASSUME Inv, NextEnded PROVE Inv'
<1>1. /\ NextEvent /\ tracker' = NewTracker /\ reported' = Nobody
      /\ restated' = FALSE /\ UNCHANGED <<pending, desynchronized>>
  BY DEF NextEnded, Reset
<1>2. /\ resync = "no" /\ UNCHANGED <<server, channel, lagging, stray, resync>>
  BY <1>1 DEF NextEvent
<1>3. Tracked'
  BY <1>1, <1>2, TakenByNext DEF Tracked, server, channel
<1>4. Told'
  BY <1>1, CoveredNobody DEF Told
<1>5. events' \in Seq(Frames(intercepts)) /\ Len(events') <= Slots
  BY <1>1, TakenByNext
<1> QED BY <1>1, <1>2, <1>3, <1>4, <1>5, NobodyThere, NewTrackerType
        DEF Inv, Shaped, Idle, server, channel

(* next takes the report of lost events, and resets.                       *)
LEMMA InvNextLagged ==
  ASSUME Inv, NextLagged PROVE Inv'
<1>1. /\ NextEvent /\ tracker' = NewTracker /\ pending' = <<>>
      /\ desynchronized' = TRUE /\ reported' = Nobody /\ restated' = FALSE
  BY DEF NextLagged, Reset
<1>2. /\ resync = "no" /\ UNCHANGED <<server, channel, lagging, stray, resync>>
  BY <1>1 DEF NextEvent
<1>3. Tracked'
  BY <1>1, <1>2, TakenByNext DEF Tracked, server, channel
<1>4. Told'
  BY <1>1, CoveredNobody DEF Told
<1>5. /\ events' \in Seq(Frames(intercepts)) /\ Len(events') <= Slots
      /\ pending' \in Seq(Reports)
  BY <1>1, TakenByNext
<1> QED BY <1>1, <1>2, <1>3, <1>4, <1>5, NobodyThere, NewTrackerType
        DEF Inv, Shaped, Idle, server, channel

(* resync resets, and leaves the channel ...                               *)
LEMMA InvResync ==
  ASSUME Inv, Resync PROVE Inv'
<1>1. /\ resync' = "leaving" /\ tracker' = NewTracker /\ pending' = <<>>
      /\ reported' = Nobody /\ restated' = FALSE
      /\ UNCHANGED <<server, channel, stream, desynchronized>>
  BY DEF Resync, Reset
<1>2. OnTrack(NewTracker, events, lagging, stray, outbox, present, used, generation,
              intercepts)
  BY NewOrder, NewTracking DEF Inv, Tracked, OnTrack
<1>3. Tracked'
  BY <1>1, <1>2 DEF Tracked, server, channel, stream
<1>4. Told'
  BY <1>1, CoveredNobody DEF Told
<1>5. pending' \in Seq(Reports)
  BY <1>1
<1> QED BY <1>1, <1>3, <1>4, <1>5, NobodyThere, NewTrackerType
        DEF Inv, Shaped, Idle, server, channel, stream

(* ... subscribes anew ...                                                 *)
LEMMA InvResyncLeft ==
  ASSUME Inv, ResyncLeft PROVE Inv'
<1>1. /\ resync = "leaving" /\ resync' = "joining" /\ generation' = 0
      /\ reading' = <<>> /\ pushed' = 0
      /\ events' = <<>> /\ lagging' = FALSE /\ stray' = FALSE
      /\ UNCHANGED <<present, used, outbox, intercepts, joins, client>>
  BY DEF ResyncLeft
<1>2. tracker = NewTracker /\ pending = <<>>
  BY <1>1 DEF Inv, Idle
<1>3. OnTrack(NewTracker, <<>>, FALSE, FALSE, outbox, present, used, 0, intercepts)
  <2>1. Order(tracker, events, outbox, present, used) /\ Balanced(outbox, present)
    BY DEF Inv, Tracked, OnTrack, Stream, Balanced
  <2>2. Order(NewTracker, <<>>, outbox, present, used)
    BY <1>2, <2>1, LineCleared DEF Order, Past, Diffs
  <2>3. Stream(<<>>, FALSE, FALSE, outbox, present, 0, intercepts)
    BY <2>1 DEF Stream, Balanced
  <2> QED BY <2>2, <2>3, NewTracking DEF OnTrack
<1>4. Tracked'
  BY <1>1, <1>2, <1>3 DEF Tracked, client
<1>5. /\ events' \in Seq(Frames(intercepts)) /\ Len(events') <= Slots
      /\ reading' \in Seq(PresenceState) /\ Len(reading') <= 1
      /\ pushed' \in 0..MaxStates
  BY <1>1, PresenceBounds
<1> QED BY <1>1, <1>2, <1>4, <1>5 DEF Inv, Shaped, Idle, Told, client

(* ... and joins,                                                          *)
LEMMA InvResyncJoined ==
  ASSUME Inv, ResyncJoined PROVE Inv'
<1>1. /\ NextGeneration /\ resync' = "no" /\ desynchronized' = FALSE
      /\ UNCHANGED <<server, stream, tracker, pending, reported, restated>>
  BY DEF ResyncJoined
<1>2. Tracked'
  BY <1>1, Begins DEF Tracked, server, stream
<1> QED BY <1>1, <1>2, Begins DEF Inv, Shaped, Idle, Told, server, stream

(* or it fails.                                                            *)
LEMMA InvResyncFails ==
  ASSUME Inv, ResyncFails PROVE Inv'
BY DEF Inv, Shaped, Idle, Tracked, Told, ResyncFails, server, channel, stream, client

(* Nothing happens.                                                        *)
LEMMA InvStutter ==
  ASSUME Inv, UNCHANGED vars PROVE Inv'
BY DEF Inv, Shaped, Idle, Tracked, Told, vars, server, channel, stream, client

(* The invariant is inductive.                                             *)
THEOREM PresenceInvariant == Spec => []Inv
<1>1. Inv /\ [Next]_vars => Inv'
  <2> SUFFICES ASSUME Inv, [Next]_vars
               PROVE  Inv'
    OBVIOUS
  <2>1. CASE \E k \in Keys : Track(k) \/ Untrack(k)
    BY <2>1, InvTrack, InvUntrack
  <2>2. CASE SendDiff \/ ReadState \/ PushState
    BY <2>2, InvSendDiff, InvReadState, InvPushState
  <2>3. CASE End \/ Rejoin
    BY <2>3, InvEnd, InvRejoin
  <2>4. CASE NextPending \/ NextFrame \/ NextEnded \/ NextLagged
    BY <2>4, InvNextPending, InvNextFrame, InvNextEnded, InvNextLagged
  <2>5. CASE Resync \/ ResyncLeft \/ ResyncJoined \/ ResyncFails
    BY <2>5, InvResync, InvResyncLeft, InvResyncJoined, InvResyncFails
  <2>6. CASE UNCHANGED vars
    BY <2>6, InvStutter
  <2> QED BY <2>1, <2>2, <2>3, <2>4, <2>5, <2>6 DEF Next
<1> QED BY <1>1, InvInit, PTL DEF Spec

---------------------------------------------------------------------------
(* Every variable of Presence keeps its type; no key is present without a  *)
(* meta at the server, in the tracker or in what the application was told. *)
THEOREM PresenceTypeCorrect == Spec => []TypeOK
<1>1. ASSUME Inv PROVE TypeOK
  <2>1. /\ tracker.state \in PresenceState /\ tracker.join_ref \in 0..MaxJoins
        /\ tracker.pending_diffs \in Seq(PresenceDiff)
    BY <1>1 DEF Inv, Shaped, Trackers
  <2>2. \A i \in DOMAIN events : events[i].kind \in {"State", "Diff", "Ended", "Lagged"}
    <3>1. intercepts \in BOOLEAN /\ events \in Seq(Frames(intercepts))
      BY <1>1 DEF Inv, Shaped
    <3>2. \A i \in DOMAIN events : events[i] \in Frames(intercepts)
      BY <3>1
    <3> QED BY <3>1, <3>2, FrameFacts
  <2> QED BY <1>1, <2>1, <2>2 DEF Inv, Shaped, TypeOK
<1> QED BY <1>1, PresenceInvariant, PTL

(* A state the server pushes brings the tracker to exactly the presences   *)
(* there are, whatever the diffs it queued and those still in the stream,  *)
(* unless events were lost or a broadcast strayed past its generation.     *)
THEOREM StatesBringTruth == Spec => []StateBringsTruth
<1>1. ASSUME Inv, TypeOK PROVE StateBringsTruth
  <2> DEFINE lost == lagging \/ \E i \in DOMAIN events : events[i].kind = "Lagged"
  <2> SUFFICES ASSUME generation # 0, outbox = <<>>, ~desynchronized, ~lost, ~stray
               PROVE  ApplyState(Drained, StateFrame(generation, present)).tracker.state
                        = present
    BY <1>1 DEF StateBringsTruth
  <2>1. /\ events \in Seq(Frames(intercepts)) /\ tracker \in Trackers
        /\ intercepts \in BOOLEAN /\ present \in PresenceState
        /\ <<>> \in Seq(PresenceDiff)
    BY <1>1 DEF Inv, Shaped
  <2>2. lagging = FALSE /\ stray = FALSE
    BY <1>1 DEF Inv, Shaped
  <2>3. OnTrack(tracker, events, FALSE, FALSE, <<>>, present, used, generation,
                intercepts)
    BY <1>1, <2>2 DEF Inv, Tracked
  <2>4. /\ Drained \in Trackers
        /\ OnTrack(Drained, <<>>, FALSE, FALSE, <<>>, present, used, generation,
                   intercepts)
    BY <2>1, <2>3, DrainedOnTrack
  <2>5. StateFrame(generation, present).state = present
    BY DEF StateFrame
  <2> QED BY <2>1, <2>4, <2>5, StateIsTruth
<1> QED BY <1>1, PresenceInvariant, PresenceTypeCorrect, PTL

(* An application that follows the events has been told of everyone in the *)
(* tracker's state, until a second state arrives for one join.             *)
THEOREM ReportsCover == Spec => []ReportsCoverState
<1>1. ASSUME Inv PROVE ReportsCoverState
  <2> SUFFICES ASSUME pending = <<>>, ~restated, NEW k \in Keys
               PROVE  MetasOf(tracker.state, k) \subseteq MetasOf(reported, k)
    BY DEF ReportsCoverState
  <2>1. Covered(tracker.state, reported, <<>>)
    BY <1>1 DEF Inv, Told
  <2>2. MetasOf(tracker.state, k) \subseteq Metas
    BY <1>1, MetasType DEF Inv, Shaped, Trackers
  <2> QED BY <2>1, <2>2 DEF Covered
<1> QED BY <1>1, PresenceInvariant, PTL

(* When the server pushes its diffs with the join's reference, a tracker   *)
(* that has the state of the present join and has taken every event after  *)
(* it has the server's presences.                                          *)
THEOREM PushedDiffsFollow == Spec => []FollowsPushedDiffs
<1>1. ASSUME Inv PROVE FollowsPushedDiffs
  <2> SUFFICES ASSUME intercepts, Settled
               PROVE  tracker.state = present
    BY DEF FollowsPushedDiffs, FollowsTheServer
  <2>1. /\ generation # 0 /\ tracker.join_ref = generation
        /\ events = <<>> /\ ~lagging /\ outbox = <<>>
    BY DEF Settled
  <2>2. Whole(<<>>, 0)
    BY DEF Whole
  <2>3. Current(tracker.state, <<>>, 0, <<>>, present)
    BY <1>1, <2>1, <2>2 DEF Inv, Tracked, OnTrack, Tracking
  <2>4. present \in PresenceState /\ tracker.state \in PresenceState
    BY <1>1 DEF Inv, Shaped, Trackers
  <2>5. \A k \in Keys : /\ MetasOf(tracker.state, k) \subseteq Metas
                        /\ MetasOf(present, k) \subseteq Metas
    BY <2>4, MetasType
  <2>6. \A k \in Keys, m \in Metas :
          m \in MetasOf(tracker.state, k) <=> m \in MetasOf(present, k)
    BY <2>3 DEF Current, Coming, Going
  <2>7. \A k \in Keys : MetasOf(tracker.state, k) = MetasOf(present, k)
    BY <2>5, <2>6
  <2> QED BY <2>4, <2>7, SameMetas
<1> QED BY <1>1, PresenceInvariant, PTL
=============================================================================
