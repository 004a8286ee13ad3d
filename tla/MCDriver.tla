------------------------------ MODULE MCDriver ------------------------------
(* Driver on small instances.                                              *)
EXTENDS Driver, TLC

RequestSymmetry == Permutations(Joins) \cup Permutations(Calls)

Workload(requests, count, refs, capacity) ==
  [requests |-> requests, handles |-> count, references |-> refs,
   capacity |-> capacity]

(* A leave between joins, or a handle that is dropped and created again.   *)
JoinsThenLeave == {Workload(Joins \cup Leaves, 1, 3, 0)}

JoinsAndLeaves == JoinsThenLeave \cup {Workload(Joins, 2, 3, 0)}

(* Room for every push, or for fewer than are made.                        *)
BufferedPushes ==
  {Workload(Joins \cup Calls \cup (Casts \ BinaryRefused), 1, 3, 2),
   Workload(Joins \cup Casts, 1, 2, 1)}
============================================================================
