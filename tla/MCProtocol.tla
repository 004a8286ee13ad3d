----------------------------- MODULE MCProtocol -----------------------------
(* Protocol on small instances.  Topics are interchangeable.               *)
EXTENDS Protocol, TLC

TopicSymmetry == Permutations(Topics)
============================================================================
