--------------------------- MODULE MCMultiProducer ---------------------------
(* Instances of MultiProducer for TLC: a topology and the symmetry set. *)
EXTENDS MultiProducer, TLC

(* Every consumer waits on the cursor. *)
Parallel == [c \in Consumers |-> {}]

(* Producers are interchangeable in every safety property. *)
ProducerSymmetry == Permutations(Producers)
=============================================================================
