--------------------------- MODULE MCSingleProducer ---------------------------
(* Instances of SingleProducer for TLC: topologies. *)
EXTENDS SingleProducer

CONSTANTS c1, c2, c3

(* Every consumer waits on the cursor. *)
Parallel == [c \in Consumers |-> {}]

(* c1 waits on the cursor and c2 waits on c1. *)
Pipeline == [c \in Consumers |-> IF c = c2 THEN {c1} ELSE {}]

(* c1 and c2 wait on the cursor and c3 waits on both of them. *)
Diamond == [c \in Consumers |-> IF c = c3 THEN {c1, c2} ELSE {}]
=============================================================================
