-------------------------- MODULE ChannelLifecycle --------------------------
(***************************************************************************)
(* What protocol.rs promises its callers about a topic, without requests,  *)
(* references or frames: a topic is entered only through a join made for   *)
(* it, every join is a new generation, later than all before it, and a     *)
(* topic that fell out of its generation, for whatever reason, is entered  *)
(* again only through a further join.                                      *)
(***************************************************************************)
EXTENDS Naturals

CONSTANT Topics

VARIABLES
  phase,       \* where a topic stands
  generation,  \* the number of its join generation, 0 when it has none
  clock        \* the latest number given to a generation or a request

vars == <<phase, generation, clock>>

Phases == {"Out", "Joining", "In", "Leaving", "Down"}

TypeOK ==
  /\ phase \in [Topics -> Phases]
  /\ generation \in [Topics -> Nat]
  /\ clock \in Nat

Init ==
  /\ phase = [t \in Topics |-> "Out"]
  /\ generation = [t \in Topics |-> 0]
  /\ clock = 0

(* A join of every topic of S, each a generation of its own, later than    *)
(* anything numbered so far.                                               *)
Begin(S) ==
  /\ S # {}
  /\ \A t \in S : phase[t] \in {"Out", "Down"}
  /\ clock' \in Nat
  /\ phase' = [t \in Topics |-> IF t \in S THEN "Joining" ELSE phase[t]]
  /\ generation' \in [Topics -> Nat]
  /\ \A t \in Topics \ S : generation'[t] = generation[t]
  /\ \A t \in S : clock < generation'[t] /\ generation'[t] <= clock'
  /\ \A t, u \in S : generation'[t] = generation'[u] => t = u

Confirm(t) ==
  /\ phase[t] = "Joining"
  /\ phase' = [phase EXCEPT ![t] = "In"]
  /\ UNCHANGED <<generation, clock>>

Depart(t) ==
  /\ phase[t] = "In"
  /\ phase' = [phase EXCEPT ![t] = "Leaving"]
  /\ clock' \in Nat /\ clock' > clock
  /\ UNCHANGED generation

End(t) ==
  /\ phase' = [phase EXCEPT ![t] = "Out"]
  /\ generation' = [generation EXCEPT ![t] = 0]
  /\ UNCHANGED clock

(* The topics of S lose their generation's channel at once: one of them    *)
(* by a refusal, a close or a crash, or all of them with the connection.   *)
Fall(S) ==
  /\ \A t \in S : phase[t] # "Out"
  /\ phase' = [t \in Topics |-> IF t \in S THEN "Down" ELSE phase[t]]
  /\ UNCHANGED <<generation, clock>>

(* Requests that are no join advance the numbering.                        *)
Tick ==
  /\ clock' \in Nat /\ clock' > clock
  /\ UNCHANGED <<phase, generation>>

Next ==
  \/ \E S \in SUBSET Topics : Begin(S) \/ Fall(S)
  \/ \E t \in Topics : Confirm(t) \/ Depart(t) \/ End(t)
  \/ Tick

Spec == Init /\ [][Next]_vars
============================================================================
