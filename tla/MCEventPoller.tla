---------------------------- MODULE MCEventPoller ----------------------------
(* Instances of EventPoller for TLC: a topology. *)
EXTENDS EventPoller

CONSTANTS c1, c2

(* c1 waits on the cursor and c2 waits on c1. *)
Pipeline == [c \in Consumers |-> IF c = c2 THEN {c1} ELSE {}]
=============================================================================
