---------------------------- MODULE PresenceOps ----------------------------
(***************************************************************************)
(* sync_state, sync_diff and PresenceTracker of                            *)
(* crates/phoenix-channel-runtime/src/presence.rs.  A presence state maps  *)
(* the keys that are present to their metas; a meta is its phx_ref, which  *)
(* is all the code compares, and the metas of a key are never empty, as    *)
(* Phoenix sends them.  The order of metas, their data and the fields      *)
(* beside them are left out, and so are payloads that do not decode.       *)
(***************************************************************************)
EXTENDS Naturals, Sequences, FiniteSets, SequencesExt

CONSTANTS
  Keys,     \* presence keys
  Metas     \* phx_refs

PresenceState ==
  UNION {[S -> (SUBSET Metas) \ {{}}] :
           S \in {T \in SUBSET Keys : IsFiniteSet(T)}}

PresenceDiff == [joins : PresenceState, leaves : PresenceState]

Nobody == [k \in {} |-> {}]

MetasOf(state, k) == IF k \in DOMAIN state THEN state[k] ELSE {}

(* The entries of f, which gives every key its metas, that have metas.     *)
Entries(f) == [k \in {k \in DOMAIN f : f[k] # {}} |-> f[k]]

---------------------------------------------------------------------------
(* Mutation: metas that join take the place of the key's.                  *)
SyncDiffReplacing(state, diff) ==
  LET joined == [k \in DOMAIN state \cup DOMAIN diff.joins |->
                   IF k \in DOMAIN diff.joins THEN diff.joins[k] ELSE state[k]]
  IN  Entries([k \in DOMAIN joined |-> joined[k] \ MetasOf(diff.leaves, k)])

(* sync_diff: joins first, then leaves; a key goes with its last meta.     *)
(* (A key is in `leaves` with some meta, or it is not in it at all, so a   *)
(* key the leaves empty is one whose metas are gone.)                      *)
SyncDiff(state, diff) ==
  LET joined == [k \in DOMAIN state \cup DOMAIN diff.joins |->
                   MetasOf(state, k) \cup MetasOf(diff.joins, k)]
  IN  Entries([k \in DOMAIN joined |-> joined[k] \ MetasOf(diff.leaves, k)])

(* What sync_state finds to have changed: whole entries for the keys of    *)
(* one state only, and the metas that differ for the keys of both.         *)
Changes(state, new_state) ==
  [joins  |-> Entries([k \in DOMAIN new_state |->
                         new_state[k] \ MetasOf(state, k)]),
   leaves |-> Entries([k \in DOMAIN state |->
                         state[k] \ MetasOf(new_state, k)])]

SyncState(state, new_state) == SyncDiff(state, Changes(state, new_state))

(* PresenceDiff::extend.                                                   *)
ExtendState(target, source) ==
  [k \in DOMAIN target \cup DOMAIN source |->
     MetasOf(target, k) \cup MetasOf(source, k)]

Extend(diff, other) ==
  [joins  |-> ExtendState(diff.joins, other.joins),
   leaves |-> ExtendState(diff.leaves, other.leaves)]

---------------------------------------------------------------------------
(* PresenceTracker.  A join_ref of 0 is none.                              *)
NewTracker == [state |-> Nobody, join_ref |-> 0, pending_diffs |-> <<>>]

(* Mutation: queued diffs survive a reset.                                 *)
ResetKeepingDiffs(tracker) ==
  [NewTracker EXCEPT !.pending_diffs = tracker.pending_diffs]

Reset(tracker) == NewTracker

(* Mutation: the queued diffs are applied and not reported.                *)
ApplyStateSilently(tracker, frame) ==
  [update  |-> "Synced",
   changes |-> Changes(tracker.state, frame.state),
   tracker |-> [state |-> FoldLeft(SyncDiff,
                                   SyncState(tracker.state, frame.state),
                                   tracker.pending_diffs),
                join_ref |-> frame.join_ref, pending_diffs |-> <<>>]]

(* A queued diff, on top of what was synced before it.                     *)
WithDiff(synced, diff) == [state   |-> SyncDiff(synced.state, diff),
                           changes |-> Extend(synced.changes, diff)]

(* What applying a frame returns and leaves: a state replaces the tracker's*)
(* and takes the queued diffs with it; a diff of the same join is applied, *)
(* any other one is queued.                                                *)
ApplyState(tracker, frame) ==
  LET last == Len(tracker.pending_diffs)
      synced[n \in 0..last] ==
        IF n = 0
          THEN [state   |-> SyncState(tracker.state, frame.state),
                changes |-> Changes(tracker.state, frame.state)]
          ELSE WithDiff(synced[n - 1], tracker.pending_diffs[n])
  IN  [update  |-> "Synced",
       changes |-> synced[last].changes,
       tracker |-> [state |-> synced[last].state, join_ref |-> frame.join_ref,
                    pending_diffs |-> <<>>]]

NoChanges == [joins |-> Nobody, leaves |-> Nobody]

ApplyDiff(tracker, frame) ==
  IF tracker.join_ref = 0 \/ tracker.join_ref # frame.join_ref
    THEN [update  |-> "Pending", changes |-> NoChanges,
          tracker |-> [tracker EXCEPT
                         !.pending_diffs = Append(@, frame.diff)]]
    ELSE [update  |-> "Synced", changes |-> frame.diff,
          tracker |-> [tracker EXCEPT !.state = SyncDiff(@, frame.diff)]]

Apply(tracker, frame) ==
  IF frame.kind = "State" THEN ApplyState(tracker, frame)
                          ELSE ApplyDiff(tracker, frame)
============================================================================
