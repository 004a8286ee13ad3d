----------------------------- MODULE MCPresence -----------------------------
(* Presence on small instances.                                            *)
EXTENDS Presence, TLC

Symmetry == Permutations(Metas)
=============================================================================
