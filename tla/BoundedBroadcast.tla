--------------------------- MODULE BoundedBroadcast --------------------------
(***************************************************************************)
(* What the ring promises, whatever the producer mode: sequences are       *)
(* claimed in order and never more than BufferSize beyond the slowest      *)
(* gate, each claim is resolved once (published or discarded), and a       *)
(* consumer acknowledges a prefix of the resolved sequences that its       *)
(* upstream consumers acknowledged before.  Each operation is one atomic   *)
(* step here; MultiProducer and SingleProducer are shown to implement it.  *)
(***************************************************************************)
EXTENDS Integers

CONSTANTS BufferSize, MaxSequence, Consumers, Upstream, Gating

VARIABLES
  claimed,     \* the highest claimed sequence
  outcome,     \* what became of each sequence
  position     \* the acknowledged position of each consumer

broadcastVars == <<claimed, outcome, position>>

Unresolved == 0
Published == 1
Discarded == 2

Init ==
  /\ claimed = -1
  /\ outcome = [s \in 0 .. MaxSequence |-> Unresolved]
  /\ position = [c \in Consumers |-> -1]

(* A claim of count sequences leaves every gate within a lap. *)
Claim(count) ==
  /\ claimed + count <= MaxSequence
  /\ \A g \in Gating : claimed + count - BufferSize <= position[g]
  /\ claimed' = claimed + count
  /\ UNCHANGED <<outcome, position>>

(* Claimed sequences are resolved, each of them once and for all. *)
Resolve(low, high, resolution) ==
  /\ low <= high /\ high <= claimed
  /\ \A s \in low .. high : outcome[s] = Unresolved
  /\ outcome' = [s \in 0 .. MaxSequence |->
                   IF s \in low .. high THEN resolution ELSE outcome[s]]
  /\ UNCHANGED <<claimed, position>>

(* A consumer acknowledges everything up to and including end. *)
Advance(c, end) ==
  /\ position[c] < end /\ end <= claimed
  /\ \A s \in position[c] + 1 .. end : outcome[s] # Unresolved
  /\ \A d \in Upstream[c] : end <= position[d]
  /\ position' = [position EXCEPT ![c] = end]
  /\ UNCHANGED <<claimed, outcome>>

Next ==
  \/ \E count \in 1 .. BufferSize : Claim(count)
  \/ \E low, high \in 0 .. MaxSequence, r \in {Published, Discarded} :
       Resolve(low, high, r)
  \/ \E c \in Consumers, end \in 0 .. MaxSequence : Advance(c, end)

Spec == Init /\ [][Next]_broadcastVars
=============================================================================
