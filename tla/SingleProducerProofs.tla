------------------------ MODULE SingleProducerProofs ------------------------
(***************************************************************************)
(* The single-producer ring for every buffer size, topology, batch size    *)
(* and claim size.  A sequence that is published twice moves the cursor    *)
(* back (the finding of the run single_duplicate), so every theorem except *)
(* type correctness and the protection of the gates supposes a caller who  *)
(* resolves each sequence once.                                            *)
(***************************************************************************)
EXTENDS SingleProducer, RingCoreProofs

(* What the producer's fields say of each other. *)
ProducerInv ==
  /\ prod.unread \subseteq Gating
  /\ prod.pc = "sealed" => prod.unread = Gating
  /\ prod.pc \in {"sealed", "gates"} =>
       prod.count >= 1 /\ nextValue + prod.count <= MaxSequence
  /\ prod.at <= nextValue + 1

(***************************************************************************)
(* Why a claim is safe: the cached gate and the minimum over the gates     *)
(* read so far stay lower bounds, because positions only grow.             *)
(***************************************************************************)
GateInv ==
  /\ GatesProtected
  /\ \A g \in Gating : cachedGate <= sequence[g]
  /\ prod.pc = "gates" =>
       \A g \in Gating : g \notin prod.unread => prod.minimum <= sequence[g]

TypeInv == TypeOK /\ ProducerInv

(* A Discard call stores the marker first and the cursor then. *)
DiscardInv ==
  prod.pc \in {"mark", "advance"} =>
    /\ prod.low = cursor + 1 /\ prod.low <= prod.high /\ prod.high <= nextValue
    /\ prod.high < prod.at /\ hasDiscards
    /\ prod.pc = "advance" => discarded[Index(prod.low)] = prod.low

(* The cursor is the frontier of what is resolved. *)
CursorInv ==
  /\ cursor <= nextValue /\ cursor < prod.at
  /\ \A s \in Sequences : Resolved(s) <=> s <= cursor

(***************************************************************************)
(* Markers tell the truth about the resolved sequences of the last lap     *)
(* below the claims, which are all that a consumer can ask about.  Further *)
(* down the slot may have been marked again already.                       *)
(***************************************************************************)
MarkerInv ==
  /\ \A i \in Slots : IF prod.pc = "advance" THEN discarded[i] <= prod.low
                      ELSE discarded[i] <= cursor
  /\ \A s \in Sequences : nextValue - BufferSize < s /\ s <= cursor =>
       (discarded[Index(s)] = s <=> outcome[s] = Discarded)

(* Likewise for the events of the same lap. *)
EntryInv ==
  \A s \in Sequences :
    nextValue - BufferSize < s /\ s < prod.at /\ s \notin untranslated =>
      entries[Index(s)] = s

RingInv == DiscardInv /\ CursorInv /\ MarkerInv /\ EntryInv

Inv == TypeInv /\ ConsumerInv /\ GateInv /\ RingInv /\ DeliveryInv

USE DEF InitialSequence, Sequences, Positions, Unresolved, Published, Discarded,
        Resolutions

-----------------------------------------------------------------------------
(* Types and claims. *)
LEMMA IdleType ==
  ASSUME NEW at \in 0 .. MaxSequence + 1
  PROVE  /\ Idle(at) \in ProducerState /\ Idle(at).pc = "idle"
         /\ Idle(at).unread = {} /\ Idle(at).at = at
<1>1. InitialProducer \in ProducerState
  BY RingAssumption DEF InitialProducer, ProducerState
<1>2. Idle(at).pc = "idle" /\ Idle(at).unread = {} /\ Idle(at).at = at
  BY DEF Idle, InitialProducer
<1> HIDE DEF Sequences, Positions
<1>3. Idle(at) \in ProducerState
  BY <1>1 DEF Idle, ProducerState
<1> QED
  BY <1>2, <1>3

LEMMA TypeInit == Init => TypeInv /\ GateInv
<1> SUFFICES ASSUME Init PROVE TypeInv /\ GateInv
  OBVIOUS
<1>1. RingTypeOK
  <2>1. /\ cursor \in Positions /\ entries \in [Slots -> Positions]
        /\ sequence \in [Consumers -> Positions]
        /\ outcome \in [Sequences -> Resolutions]
    BY RingAssumption DEF Init, RingInit
  <2>2. ConsumerTypes
    BY ConsumerInit DEF Init, ConsumerInv
  <2> QED
    BY <2>1, <2>2 DEF Init, RingInit, RingTypeOK, ConsumerTypes
<1>2. prod \in ProducerState
  BY RingAssumption DEF Init, InitialProducer, ProducerState
<1>3. /\ nextValue \in Positions /\ cachedGate \in Positions
      /\ discarded \in [Slots -> Positions]
  BY RingAssumption DEF Init
<1>4. ProducerInv
  BY DEF Init, InitialProducer, ProducerInv
<1>5. GateInv
  BY RingAssumption
  DEF Init, RingInit, InitialProducer, GateInv, GatesProtected
<1> QED
  BY <1>1, <1>2, <1>3, <1>4, <1>5 DEF TypeInv, TypeOK

(* The numbers the producer works with. *)
LEMMA ProducerNumbers ==
  ASSUME TypeInv
  PROVE  /\ prod \in ProducerState /\ prod.unread \subseteq Gating
         /\ nextValue \in Int /\ -1 <= nextValue /\ nextValue <= MaxSequence
         /\ cursor \in Int /\ -1 <= cursor /\ cursor <= MaxSequence
         /\ cachedGate \in Positions
         /\ prod.at \in 0 .. MaxSequence + 1 /\ prod.at <= nextValue + 1
         /\ prod.minimum \in Positions /\ prod.count \in 0 .. BufferSize
         /\ prod.low \in Sequences /\ prod.high \in Sequences
         /\ \A g \in Gating : sequence[g] \in Positions
BY RingAssumption
DEF TypeInv, TypeOK, RingTypeOK, ProducerState, ProducerInv

(* What a step of a claim has to establish. *)
LEMMA ClaimUpdate ==
  ASSUME TypeInv, GateInv, NEW st \in ProducerState, prod' = st,
         st.unread \subseteq Gating, st.pc = "sealed" => st.unread = Gating,
         nextValue' \in Positions, cachedGate' \in Positions,
         st.pc \in {"sealed", "gates"} =>
           st.count >= 1 /\ nextValue' + st.count <= MaxSequence,
         st.at <= nextValue' + 1,
         \A g \in Gating : /\ nextValue' - BufferSize <= sequence[g]
                           /\ cachedGate' <= sequence[g],
         st.pc = "gates" =>
           \A g \in Gating : g \notin st.unread => st.minimum <= sequence[g],
         UNCHANGED <<ringVars, cursor, discarded, consumerVars>>
  PROVE  TypeInv' /\ GateInv'
<1>1. TypeOK'
  BY DEF TypeInv, TypeOK, RingTypeOK, ringVars, consumerVars
<1>2. ProducerInv'
  BY DEF ProducerInv
<1>3. GateInv'
  BY DEF GateInv, GatesProtected, consumerVars
<1> QED
  BY <1>1, <1>2, <1>3 DEF TypeInv

(* What a step of the owner of claims has to establish. *)
LEMMA OwnerUpdate ==
  ASSUME TypeInv, GateInv, NEW st \in ProducerState, prod' = st,
         st.unread \subseteq Gating, st.pc \notin {"sealed", "gates"},
         st.at <= nextValue + 1,
         discarded' \in [Slots -> Positions], cursor' \in Positions,
         hasDiscards' \in BOOLEAN, entries' \in [Slots -> Positions],
         outcome' \in [Sequences -> Resolutions],
         untranslated' \in SUBSET Sequences,
         UNCHANGED <<sealed, closed, nextValue, cachedGate, consumerVars>>
  PROVE  TypeInv' /\ GateInv'
<1>1. TypeOK'
  BY DEF TypeInv, TypeOK, RingTypeOK, consumerVars
<1>2. ProducerInv'
  BY DEF ProducerInv
<1>3. GateInv'
  BY DEF GateInv, GatesProtected, consumerVars
<1> QED
  BY <1>1, <1>2, <1>3 DEF TypeInv

(* What the claim steps leave alone, and what holds before them. *)
LEMMA GateFacts ==
  ASSUME TypeInv, GateInv
  PROVE  \A g \in Gating : /\ nextValue - BufferSize <= sequence[g]
                           /\ cachedGate <= sequence[g]
BY DEF GateInv, GatesProtected

LEMMA BeginClaimType ==
  ASSUME TypeInv, GateInv, NEW count \in ClaimSizes, NEW try \in BOOLEAN,
         BeginClaim(count, try), UNCHANGED consumerVars
  PROVE  TypeInv' /\ GateInv'
<1> DEFINE pc == IF try THEN "gates" ELSE "sealed"
           st == [prod EXCEPT !.pc = pc, !.try = try, !.count = count,
                              !.unread = Gating, !.minimum = nextValue]
<1>1. /\ count \in 1 .. BufferSize /\ count \in 0 .. BufferSize
      /\ nextValue + count <= MaxSequence
  BY RingAssumption, ProducerAssumption DEF BeginClaim
<1>2. /\ prod \in ProducerState /\ nextValue \in Positions
      /\ cachedGate \in Positions /\ prod.at <= nextValue + 1
      /\ prod.unread \subseteq Gating /\ prod.pc = "idle"
      /\ UNCHANGED <<ringVars, cursor, cachedGate, discarded, consumerVars>>
  BY DEF TypeInv, TypeOK, ProducerInv, BeginClaim
<1>3. CASE prod' = st /\ UNCHANGED nextValue
  <2>1. st \in ProducerState
    <3>1. Gating \in SUBSET Consumers /\ pc \in {"gates", "sealed"}
      BY RingAssumption
    <3> HIDE DEF pc, Positions, Sequences
    <3> QED
      BY <1>1, <1>2, <3>1, Zenon DEF ProducerState
  <2>2. /\ st.unread = Gating /\ st.count = count /\ st.at = prod.at
        /\ st.minimum = nextValue
    BY <1>2 DEF ProducerState
  <2> HIDE DEF st
  <2> QED
    BY <1>1, <1>2, <1>3, <2>1, <2>2, GateFacts, ClaimUpdate
<1>4. CASE /\ WrapPoint(count) <= cachedGate
           /\ nextValue' = nextValue + count /\ UNCHANGED prod
  <2>1. nextValue' \in Positions /\ prod.at <= nextValue' + 1
    BY <1>1, <1>4, ProducerNumbers, RingAssumption
  <2>2. ASSUME NEW g \in Gating PROVE nextValue' - BufferSize <= sequence[g]
    BY <1>1, <1>4, <2>2, ProducerNumbers, GateFacts, RingAssumption DEF WrapPoint
  <2> QED
    BY <1>2, <1>4, <2>1, <2>2, GateFacts, ClaimUpdate
<1>5. \/ prod' = st /\ UNCHANGED nextValue
      \/ /\ WrapPoint(count) <= cachedGate
         /\ nextValue' = nextValue + count /\ UNCHANGED prod
  <2>1. WrapPoint(count) \in Int /\ cachedGate \in Int
    BY <1>1, ProducerNumbers, RingAssumption DEF WrapPoint
  <2> QED
    BY <2>1 DEF BeginClaim
<1> QED
  BY <1>3, <1>4, <1>5

LEMMA CheckSealedType ==
  ASSUME TypeInv, GateInv, CheckSealed, UNCHANGED consumerVars
  PROVE  TypeInv' /\ GateInv'
<1> DEFINE go == [prod EXCEPT !.pc = "gates"]
<1>1. prod \in ProducerState /\ prod.pc = "sealed"
  BY DEF TypeInv, TypeOK, CheckSealed
<1>2. UNCHANGED <<ringVars, cursor, nextValue, cachedGate, discarded, consumerVars>>
  BY DEF CheckSealed, sequencerVars
<1>3. /\ go \in ProducerState /\ go.unread = prod.unread /\ go.count = prod.count
      /\ go.at = prod.at /\ go.minimum = prod.minimum /\ go.pc = "gates"
  BY <1>1 DEF ProducerState
<1>4. PICK st \in {go, Idle(prod.at)} : prod' = st
  BY DEF CheckSealed
<1>5. /\ prod.unread = Gating /\ prod.count >= 1
      /\ nextValue + prod.count <= MaxSequence
  BY <1>1 DEF TypeInv, ProducerInv
<1>6. /\ nextValue \in Positions /\ cachedGate \in Positions
      /\ prod.at <= nextValue + 1 /\ prod.at \in 0 .. MaxSequence + 1
  BY ProducerNumbers DEF TypeInv, TypeOK
<1> HIDE DEF go
<1>7. CASE st = go
  BY <1>1, <1>2, <1>3, <1>4, <1>5, <1>6, <1>7, GateFacts, ClaimUpdate
<1>8. CASE st = Idle(prod.at)
  BY <1>2, <1>4, <1>6, <1>8, IdleType, GateFacts, ClaimUpdate
<1> QED
  BY <1>4, <1>7, <1>8

LEMMA LoadGateType ==
  ASSUME TypeInv, GateInv, NEW g \in Gating, LoadGate(g), UNCHANGED consumerVars
  PROVE  TypeInv' /\ GateInv'
<1> DEFINE minimum == IF prod.unread = Gating THEN sequence[g]
                      ELSE Minimum(prod.minimum, sequence[g])
           st == [prod EXCEPT !.minimum = minimum, !.unread = prod.unread \ {g}]
<1>1. /\ prod \in ProducerState /\ prod.pc = "gates" /\ prod' = st
      /\ prod.unread \subseteq Gating
      /\ prod.count >= 1 /\ nextValue + prod.count <= MaxSequence
      /\ prod.at <= nextValue + 1
      /\ UNCHANGED <<ringVars, cursor, nextValue, cachedGate, discarded, consumerVars>>
  BY DEF TypeInv, TypeOK, ProducerInv, LoadGate, sequencerVars
<1>2. minimum \in Positions
  BY ProducerNumbers, RingAssumption DEF Minimum
<1>3. st \in ProducerState
  <2>1. prod.unread \ {g} \in SUBSET Consumers
    BY <1>1 DEF ProducerState
  <2> HIDE DEF minimum, Positions, Sequences
  <2> QED
    BY <1>1, <1>2, <2>1, Zenon DEF ProducerState
<1>4. /\ st.minimum = minimum /\ st.unread = prod.unread \ {g}
      /\ st.pc = "gates" /\ st.count = prod.count /\ st.at = prod.at
  BY <1>1 DEF ProducerState
<1>5. ASSUME NEW h \in Gating, h \notin st.unread PROVE st.minimum <= sequence[h]
  <2>1. prod.minimum \in Int /\ sequence[g] \in Int /\ sequence[h] \in Int
    BY ProducerNumbers, RingAssumption
  <2>2. h = g \/ h \notin prod.unread
    BY <1>4, <1>5
  <2>3. h \notin prod.unread => prod.minimum <= sequence[h]
    BY <1>1 DEF GateInv
  <2> QED
    BY <1>4, <2>1, <2>2, <2>3 DEF Minimum
<1>6. nextValue \in Positions /\ cachedGate \in Positions
  BY DEF TypeInv, TypeOK
<1>7. st.unread \subseteq Gating
  BY <1>1, <1>4
<1> HIDE DEF st
<1> QED
  BY <1>1, <1>3, <1>4, <1>5, <1>6, <1>7, GateFacts, ClaimUpdate

(* The gates are all read: the minimum is below every one of them. *)
LEMMA ClaimEndType ==
  ASSUME TypeInv, GateInv, FinishClaim \/ RefuseClaim \/ WaitForCapacity,
         UNCHANGED consumerVars
  PROVE  TypeInv' /\ GateInv'
<1>1. /\ prod \in ProducerState /\ prod.pc = "gates" /\ prod.unread = {}
      /\ prod.count >= 1 /\ nextValue + prod.count <= MaxSequence
      /\ prod.at <= nextValue + 1 /\ prod.at \in 0 .. MaxSequence + 1
      /\ nextValue \in Positions /\ cachedGate \in Positions
      /\ prod.minimum \in Positions /\ prod.count \in 0 .. BufferSize
  BY ProducerNumbers
  DEF TypeInv, TypeOK, ProducerInv, FinishClaim, RefuseClaim, WaitForCapacity
<1>2. \A g \in Gating : prod.minimum <= sequence[g]
  BY <1>1 DEF GateInv
<1>3. UNCHANGED <<ringVars, cursor, discarded, consumerVars>>
  BY DEF FinishClaim, RefuseClaim, WaitForCapacity, sequencerVars
<1>4. CASE FinishClaim
  <2>1. /\ nextValue' = nextValue + prod.count /\ cachedGate' = prod.minimum
        /\ prod' = Idle(prod.at) /\ WrapPoint(prod.count) <= prod.minimum
    BY <1>4 DEF FinishClaim
  <2>2. nextValue' \in Positions /\ prod.at <= nextValue' + 1
    BY <1>1, <2>1, RingAssumption
  <2>3. ASSUME NEW g \in Gating PROVE nextValue' - BufferSize <= sequence[g]
    BY <1>1, <1>2, <2>1, <2>3, ProducerNumbers, RingAssumption DEF WrapPoint
  <2> QED
    BY <1>1, <1>2, <1>3, <2>1, <2>2, <2>3, IdleType, ClaimUpdate
<1>5. CASE RefuseClaim
  <2>1. /\ UNCHANGED nextValue /\ cachedGate' = prod.minimum
        /\ prod' = Idle(prod.at)
    BY <1>5 DEF RefuseClaim
  <2> QED
    BY <1>1, <1>2, <1>3, <2>1, IdleType, GateFacts, ClaimUpdate
<1>6. CASE WaitForCapacity
  <2> DEFINE again == [prod EXCEPT !.pc = "sealed", !.unread = Gating,
                                   !.minimum = nextValue]
  <2>1. UNCHANGED <<nextValue, cachedGate>>
    BY <1>6 DEF WaitForCapacity, sequencerVars
  <2>2. PICK st \in {again, Idle(prod.at)} : prod' = st
    BY <1>6 DEF WaitForCapacity
  <2>3. CASE st = again
    <3>1. again \in ProducerState
      <4>1. Gating \in SUBSET Consumers
        BY RingAssumption
      <4> HIDE DEF Positions, Sequences
      <4> QED
        BY <1>1, <4>1, Zenon DEF ProducerState
    <3>2. /\ again.pc = "sealed" /\ again.unread = Gating
          /\ again.count = prod.count /\ again.at = prod.at
      BY <1>1 DEF ProducerState
    <3> HIDE DEF again
    <3> QED
      BY <1>1, <1>3, <2>1, <2>2, <2>3, <3>1, <3>2, GateFacts, ClaimUpdate
  <2>4. CASE st = Idle(prod.at)
    BY <1>1, <1>3, <2>1, <2>2, <2>4, IdleType, GateFacts, ClaimUpdate
  <2> QED
    BY <2>2, <2>3, <2>4
<1> QED
  BY <1>4, <1>5, <1>6

LEMMA TranslateType ==
  ASSUME TypeInv, GateInv, Translate \/ FailTranslation, UNCHANGED consumerVars
  PROVE  TypeInv' /\ GateInv'
<1> DEFINE to(n) == [prod EXCEPT !.at = n]
<1>1. /\ prod \in ProducerState /\ prod.pc = "idle" /\ prod.at \in Sequences
      /\ prod.unread \subseteq Gating /\ prod.at <= nextValue
      /\ nextValue \in Int /\ nextValue <= MaxSequence
  BY ProducerNumbers, RingAssumption
  DEF TypeInv, TypeOK, ProducerInv, Translate, FailTranslation
<1>2. /\ UNCHANGED <<sealed, closed, nextValue, cachedGate, consumerVars>>
      /\ UNCHANGED <<discarded, cursor, hasDiscards, outcome>>
  BY DEF Translate, FailTranslation, sequencerVars
<1>3. /\ discarded \in [Slots -> Positions] /\ cursor \in Positions
      /\ hasDiscards \in BOOLEAN /\ entries \in [Slots -> Positions]
      /\ outcome \in [Sequences -> Resolutions] /\ untranslated \in SUBSET Sequences
  BY DEF TypeInv, TypeOK, RingTypeOK
<1>4. ASSUME NEW n \in Int, prod.at < n, n <= nextValue + 1
      PROVE  /\ to(n) \in ProducerState /\ to(n).unread = prod.unread
             /\ to(n).pc = "idle" /\ to(n).at = n
  <2>1. n \in 0 .. MaxSequence + 1
    BY <1>1, <1>4, RingAssumption
  <2> HIDE DEF Positions, Sequences
  <2> QED
    BY <1>1, <2>1 DEF ProducerState
<1>5. /\ entries' \in [Slots -> Positions] /\ untranslated' \in SUBSET Sequences
  <2>1. prod.at \in Positions /\ prod.at .. nextValue \subseteq Sequences
    BY <1>1, RingAssumption
  <2> QED
    BY <1>3, <2>1 DEF Translate, FailTranslation
<1>6. PICK n \in {prod.at + 1, nextValue + 1} : prod' = to(n)
  BY DEF Translate, FailTranslation
<1>7. n \in Int /\ prod.at < n /\ n <= nextValue + 1
  BY <1>1, RingAssumption
<1>8. /\ to(n) \in ProducerState /\ to(n).unread = prod.unread
      /\ to(n).pc = "idle" /\ to(n).at = n
  BY <1>4, <1>7
<1> HIDE DEF to
<1> QED
  BY <1>1, <1>2, <1>3, <1>5, <1>6, <1>7, <1>8, OwnerUpdate

(* Publications, and resolutions that are repeated. *)
LEMMA PublishType ==
  ASSUME TypeInv, GateInv, NEW s \in Sequences,
         Publish(s) \/ DiscardAgain(s) \/ PublishAgain(s), UNCHANGED consumerVars
  PROVE  TypeInv' /\ GateInv'
<1>1. /\ prod \in ProducerState /\ prod.pc = "idle" /\ prod' = prod
      /\ prod.unread \subseteq Gating /\ prod.at <= nextValue + 1
      /\ UNCHANGED <<sealed, closed, nextValue, cachedGate, consumerVars>>
      /\ UNCHANGED <<discarded, entries, untranslated>>
  BY DEF TypeInv, TypeOK, ProducerInv, Publish, DiscardAgain, PublishAgain,
         sequencerVars, ringVars
<1>2. /\ discarded \in [Slots -> Positions] /\ cursor \in Positions
      /\ hasDiscards \in BOOLEAN /\ entries \in [Slots -> Positions]
      /\ outcome \in [Sequences -> Resolutions] /\ untranslated \in SUBSET Sequences
      /\ s \in Positions
  BY RingAssumption DEF TypeInv, TypeOK, RingTypeOK
<1> HIDE DEF Sequences, Positions
<1>3. cursor' \in Positions /\ hasDiscards' \in BOOLEAN
  BY <1>2 DEF Publish, DiscardAgain, PublishAgain, ringVars
<1>4. outcome' \in [Sequences -> Resolutions]
  <2>1. CASE Publish(s)
    BY <1>2, <2>1 DEF Publish
  <2>2. CASE ~Publish(s)
    BY <1>2, <2>2 DEF DiscardAgain, PublishAgain, ringVars
  <2> QED
    BY <2>1, <2>2
<1> QED
  BY <1>1, <1>2, <1>3, <1>4, OwnerUpdate

LEMMA BeginDiscardType ==
  ASSUME TypeInv, GateInv, NEW high \in Sequences, BeginDiscard(high),
         UNCHANGED consumerVars
  PROVE  TypeInv' /\ GateInv'
<1> DEFINE st == [prod EXCEPT !.pc = "mark", !.low = cursor + 1, !.high = high]
<1>1. /\ prod \in ProducerState /\ prod' = st
      /\ prod.unread \subseteq Gating /\ prod.at <= nextValue + 1
      /\ UNCHANGED <<sealed, closed, nextValue, cachedGate, consumerVars>>
      /\ UNCHANGED <<cursor, discarded, entries, untranslated, outcome>>
      /\ hasDiscards' = TRUE
  BY DEF TypeInv, TypeOK, ProducerInv, BeginDiscard, sequencerVars
<1>2. /\ discarded \in [Slots -> Positions] /\ cursor \in Positions
      /\ entries \in [Slots -> Positions]
      /\ outcome \in [Sequences -> Resolutions] /\ untranslated \in SUBSET Sequences
  BY DEF TypeInv, TypeOK, RingTypeOK
<1>3. cursor + 1 \in Sequences
  BY ProducerNumbers, RingAssumption DEF BeginDiscard, Owned
<1>4. st \in ProducerState
  <2> HIDE DEF Sequences, Positions
  <2> QED
    BY <1>1, <1>3, Zenon DEF ProducerState
<1>5. st.unread = prod.unread /\ st.at = prod.at /\ st.pc = "mark"
  BY <1>1 DEF ProducerState
<1> HIDE DEF st
<1> QED
  BY <1>1, <1>2, <1>4, <1>5, OwnerUpdate

LEMMA DiscardType ==
  ASSUME TypeInv, GateInv, MarkDiscarded \/ AdvanceDiscarded, UNCHANGED consumerVars
  PROVE  TypeInv' /\ GateInv'
<1>1. /\ prod \in ProducerState
      /\ prod.unread \subseteq Gating /\ prod.at <= nextValue + 1
      /\ UNCHANGED <<sealed, closed, nextValue, cachedGate, consumerVars>>
      /\ UNCHANGED <<hasDiscards, entries, untranslated>>
  BY DEF TypeInv, TypeOK, ProducerInv, MarkDiscarded, AdvanceDiscarded,
         sequencerVars, ringVars
<1>2. /\ discarded \in [Slots -> Positions] /\ cursor \in Positions
      /\ entries \in [Slots -> Positions] /\ hasDiscards \in BOOLEAN
      /\ outcome \in [Sequences -> Resolutions] /\ untranslated \in SUBSET Sequences
  BY DEF TypeInv, TypeOK, RingTypeOK
<1>3. /\ prod.low \in Sequences /\ prod.low \in Positions /\ prod.high \in Sequences
      /\ prod.at \in 0 .. MaxSequence + 1
      /\ prod.low < prod.high => prod.low + 1 \in Sequences
  BY ProducerNumbers, RingAssumption
<1> DEFINE mark == [prod EXCEPT !.pc = "advance"]
           next == [prod EXCEPT !.pc = "mark", !.low = prod.low + 1]
<1>4. /\ mark.unread = prod.unread /\ mark.at = prod.at /\ mark.pc = "advance"
      /\ next.unread = prod.unread /\ next.at = prod.at /\ next.pc = "mark"
  BY <1>1 DEF ProducerState
<1>5. /\ mark \in ProducerState
      /\ prod.low < prod.high => next \in ProducerState
  <2> HIDE DEF Sequences, Positions
  <2> QED
    BY <1>1, <1>3 DEF ProducerState
<1>6. CASE MarkDiscarded
  <2>1. /\ discarded' \in [Slots -> Positions] /\ prod' = mark
        /\ UNCHANGED <<cursor, outcome>>
    <3> HIDE DEF Sequences, Positions
    <3> QED
      BY <1>2, <1>3, <1>6 DEF MarkDiscarded, ringVars
  <2> HIDE DEF mark
  <2> QED
    BY <1>1, <1>2, <1>4, <1>5, <2>1, OwnerUpdate
<1>7. CASE AdvanceDiscarded
  <2>1. cursor' \in Positions /\ outcome' \in [Sequences -> Resolutions]
    <3> HIDE DEF Sequences, Positions
    <3> QED
      BY <1>2, <1>3, <1>7 DEF AdvanceDiscarded
  <2>2. /\ UNCHANGED discarded
        /\ \/ prod' = next /\ prod.low < prod.high
           \/ prod' = Idle(prod.at)
    BY <1>7 DEF AdvanceDiscarded, sequencerVars
  <2> HIDE DEF next
  <2> QED
    BY <1>1, <1>2, <1>3, <1>4, <1>5, <2>1, <2>2, IdleType, OwnerUpdate
<1> QED
  BY <1>6, <1>7

LEMMA ProducerStepType ==
  ASSUME TypeInv, GateInv, ProducerStep, UNCHANGED consumerVars
  PROVE  TypeInv' /\ GateInv'
<1>1. CASE \E count \in ClaimSizes, try \in BOOLEAN : BeginClaim(count, try)
  BY <1>1, BeginClaimType
<1>2. CASE ClaimStep
  BY <1>2, CheckSealedType, LoadGateType, ClaimEndType DEF ClaimStep
<1>3. CASE OwnerStep
  BY <1>3, TranslateType, PublishType, BeginDiscardType, DiscardType DEF OwnerStep
<1>4. CASE \E s \in Sequences : DiscardAgain(s) \/ PublishAgain(s)
  BY <1>4, PublishType
<1> QED
  BY <1>1, <1>2, <1>3, <1>4 DEF ProducerStep

LEMMA ConsumerStepType ==
  ASSUME TypeInv, ConsumerInv, GateInv, NEW c \in Consumers, ConsumerStep(c),
         UNCHANGED producerVars
  PROVE  TypeInv' /\ ConsumerInv' /\ GateInv'
<1>1. cursor \in Positions /\ hasDiscards \in BOOLEAN
  BY DEF TypeInv, TypeOK, RingTypeOK
<1>2. CoreStep(c, FALSE, IsDiscarded(con[c].last), IsDiscarded(con[c].at), "select")
  BY DEF ConsumerStep, CoreStep
<1>3. ConsumerInv' /\ PositionsAdvance
  BY <1>1, <1>2, ConsumerStepInv
<1>4. TypeInv'
  BY <1>3 DEF ConsumerInv, ConsumerTypes, TypeInv, TypeOK, RingTypeOK, ProducerInv,
              producerVars, ringVars, sequencerVars
<1>5. ASSUME NEW g \in Gating
      PROVE  /\ sequence[g] \in Int /\ sequence'[g] \in Int
             /\ sequence[g] <= sequence'[g]
  BY <1>3, <1>5, RingAssumption DEF PositionsAdvance, ConsumerInv, ConsumerTypes
<1>6. /\ nextValue \in Int /\ BufferSize \in Int /\ cachedGate \in Int
      /\ prod.minimum \in Int
  BY ProducerNumbers, RingAssumption
<1>7. UNCHANGED <<nextValue, cachedGate, prod>>
  BY DEF producerVars, sequencerVars
<1>8. GateInv'
  BY <1>5, <1>6, <1>7 DEF GateInv, GatesProtected
<1> QED
  BY <1>3, <1>4, <1>8

LEMMA TypeStep ==
  ASSUME TypeInv, ConsumerInv, GateInv, [Next]_vars
  PROVE  TypeInv' /\ ConsumerInv' /\ GateInv'
<1>1. CASE UNCHANGED consumerVars
  <2>1. ConsumerInv'
    BY <1>1 DEF ConsumerInv, ConsumerTypes, BatchAhead, consumerVars
  <2>2. CASE ProducerStep
    BY <1>1, <2>1, <2>2, ProducerStepType
  <2>3. CASE (Seal \/ CloseRing) /\ UNCHANGED <<sequencerVars, prod>>
    BY <1>1, <2>1, <2>3
    DEF Seal, CloseRing, TypeInv, TypeOK, RingTypeOK, ProducerInv, GateInv,
        GatesProtected, sequencerVars, consumerVars
  <2>4. CASE UNCHANGED vars
    BY <2>4
    DEF TypeInv, TypeOK, RingTypeOK, ProducerInv, GateInv, GatesProtected,
        ConsumerInv, ConsumerTypes, BatchAhead,
        vars, producerVars, ringVars, sequencerVars, consumerVars
  <2>5. CASE \E c \in Consumers : ConsumerStep(c) /\ UNCHANGED producerVars
    BY <2>5, ConsumerStepType
  <2> QED
    BY <2>2, <2>3, <2>4, <2>5 DEF Next
<1>2. CASE ~UNCHANGED consumerVars
  BY <1>2, ConsumerStepType DEF Next, vars
<1> QED
  BY <1>1, <1>2

(***************************************************************************)
(* Every variable of the single-producer ring keeps its type, whatever the *)
(* application calls and in whatever order.                                *)
(***************************************************************************)
THEOREM TypeCorrect == Spec => []TypeOK
<1>1. Init => TypeInv /\ ConsumerInv /\ GateInv
  BY TypeInit, ConsumerInit DEF Init
<1>2. TypeInv /\ ConsumerInv /\ GateInv /\ [Next]_vars
        => (TypeInv /\ ConsumerInv /\ GateInv)'
  BY TypeStep
<1>3. TypeInv => TypeOK
  BY DEF TypeInv
<1> QED
  BY <1>1, <1>2, <1>3, PTL DEF Spec

(***************************************************************************)
(* No claim of the single producer laps a gate: Next and TryNext admit it  *)
(* from a cached minimum or from gates read one by one, and both stay      *)
(* lower bounds while consumers advance.  Resolving a sequence twice does  *)
(* not break this.                                                         *)
(***************************************************************************)
THEOREM GatesNeverLapped == Spec => []GatesProtected
<1>1. Init => TypeInv /\ ConsumerInv /\ GateInv
  BY TypeInit, ConsumerInit DEF Init
<1>2. TypeInv /\ ConsumerInv /\ GateInv /\ [Next]_vars
        => (TypeInv /\ ConsumerInv /\ GateInv)'
  BY TypeStep
<1>3. GateInv => GatesProtected
  BY DEF GateInv
<1> QED
  BY <1>1, <1>2, <1>3, PTL DEF Spec

-----------------------------------------------------------------------------
(* What the ring holds. *)
LEMMA RingInitial == Init => RingInv
<1> SUFFICES ASSUME Init PROVE RingInv
  OBVIOUS
<1>1. /\ cursor = -1 /\ nextValue = -1 /\ prod.pc = "idle" /\ prod.at = 0
      /\ \A s \in Sequences : outcome[s] = Unresolved
      /\ \A i \in Slots : discarded[i] = -1
  BY DEF Init, RingInit, InitialProducer
<1>2. DiscardInv
  BY <1>1 DEF DiscardInv
<1>3. CursorInv
  BY <1>1, RingAssumption DEF CursorInv, Resolved
<1>4. MarkerInv
  BY <1>1, RingAssumption DEF MarkerInv
<1>5. EntryInv
  BY <1>1, RingAssumption DEF EntryInv
<1> QED
  BY <1>2, <1>3, <1>4, <1>5 DEF RingInv

(* The window of a lap below the claims only moves up. *)
LEMMA WindowMoves ==
  ASSUME NEW a \in Int, NEW b \in Int, a <= b, NEW s \in Int,
         BufferSize \in Int, b - BufferSize < s
  PROVE  a - BufferSize < s
OBVIOUS

(* Steps of a claim, and those that resolve nothing, move no event. *)
LEMMA ClaimRing ==
  ASSUME TypeInv, TypeInv', RingInv,
         nextValue <= nextValue', prod'.pc \notin {"mark", "advance"},
         prod.pc \notin {"mark", "advance"}, prod'.at = prod.at,
         UNCHANGED <<cursor, entries, outcome, untranslated, discarded>>
  PROVE  RingInv'
<1>1. /\ nextValue \in Int /\ nextValue' \in Int /\ cursor \in Int
      /\ BufferSize \in Int
  BY ProducerNumbers, RingAssumption DEF TypeInv, TypeOK
<1>2. DiscardInv'
  BY DEF DiscardInv
<1>3. ASSUME NEW s \in Int, nextValue' - BufferSize < s
      PROVE  nextValue - BufferSize < s
  BY <1>1, <1>3, WindowMoves
<1>4. CursorInv'
  BY <1>1 DEF RingInv, CursorInv, Resolved
<1>5. MarkerInv'
  BY <1>1, RingAssumption DEF RingInv, MarkerInv
<1>6. EntryInv'
  <2> SUFFICES ASSUME NEW s \in Sequences, nextValue' - BufferSize < s,
                      s < prod.at, s \notin untranslated
               PROVE  entries[Index(s)] = s
    BY DEF EntryInv
  <2>1. nextValue - BufferSize < s
    BY <1>3, RingAssumption
  <2> QED
    BY <2>1 DEF RingInv, EntryInv
<1> QED
  BY <1>2, <1>4, <1>5, <1>6 DEF RingInv

LEMMA ClaimStepRing ==
  ASSUME TypeInv, TypeInv', RingInv,
         \/ \E count \in ClaimSizes, try \in BOOLEAN : BeginClaim(count, try)
         \/ ClaimStep
         \/ \E s \in Sequences : DiscardAgain(s)
  PROVE  /\ RingInv' /\ UNCHANGED <<cursor, outcome>>
         /\ UNCHANGED hasDiscards \/ hasDiscards' = TRUE
<1>1. prod \in ProducerState /\ prod.at \in 0 .. MaxSequence + 1
  BY ProducerNumbers
<1>2. /\ UNCHANGED <<cursor, entries, outcome, untranslated, discarded>>
      /\ UNCHANGED hasDiscards \/ hasDiscards' = TRUE
  BY DEF BeginClaim, ClaimStep, CheckSealed, LoadGate, FinishClaim, RefuseClaim,
         WaitForCapacity, DiscardAgain, ringVars, sequencerVars
<1>3. prod.pc \notin {"mark", "advance"}
  BY DEF BeginClaim, ClaimStep, CheckSealed, LoadGate, FinishClaim, RefuseClaim,
         WaitForCapacity, DiscardAgain
<1>4. nextValue <= nextValue'
  <2>1. nextValue' \in {nextValue} \cup {nextValue + n : n \in 0 .. BufferSize}
    <3>1. prod.count \in 0 .. BufferSize
      BY ProducerNumbers
    <3>2. \A count \in ClaimSizes : count \in 0 .. BufferSize
      BY ProducerAssumption, RingAssumption
    <3> QED
      BY <3>1, <3>2
      DEF BeginClaim, ClaimStep, CheckSealed, LoadGate, FinishClaim, RefuseClaim,
          WaitForCapacity, DiscardAgain, ringVars, sequencerVars
  <2> QED
    BY <2>1, ProducerNumbers, RingAssumption
<1>5. prod'.at = prod.at /\ prod'.pc \notin {"mark", "advance"}
  <2>1. CASE \E count \in ClaimSizes, try \in BOOLEAN : BeginClaim(count, try)
    BY <1>1, <1>3, <2>1 DEF BeginClaim, ProducerState
  <2>2. CASE ClaimStep
    BY <1>1, <1>3, <2>2, IdleType
    DEF ClaimStep, CheckSealed, LoadGate, FinishClaim, RefuseClaim,
        WaitForCapacity, ProducerState
  <2>3. CASE \E s \in Sequences : DiscardAgain(s)
    BY <1>3, <2>3 DEF DiscardAgain
  <2> QED
    BY <2>1, <2>2, <2>3
<1> QED
  BY <1>2, <1>3, <1>4, <1>5, ClaimRing

LEMMA TranslateRing ==
  ASSUME TypeInv, RingInv, Translate \/ FailTranslation
  PROVE  RingInv' /\ UNCHANGED <<cursor, outcome, hasDiscards>>
<1>1. /\ prod \in ProducerState /\ prod.pc = "idle"
      /\ prod.at \in Int /\ 0 <= prod.at /\ prod.at <= nextValue
      /\ nextValue \in Int /\ cursor \in Int
      /\ entries \in [Slots -> Positions]
  BY ProducerNumbers, RingAssumption
  DEF TypeInv, TypeOK, RingTypeOK, Translate, FailTranslation
<1>2. UNCHANGED <<cursor, outcome, hasDiscards, nextValue, discarded>>
  BY DEF Translate, FailTranslation, sequencerVars
<1>3. prod'.pc = "idle" /\ prod'.at > prod.at /\ prod'.at \in Int
  BY <1>1 DEF Translate, FailTranslation, ProducerState
<1>4. DiscardInv'
  BY <1>3 DEF DiscardInv
<1>5. CursorInv'
  BY <1>1, <1>2, <1>3 DEF RingInv, CursorInv, Resolved
<1>6. MarkerInv'
  BY <1>1, <1>2, <1>3 DEF RingInv, MarkerInv
<1>7. EntryInv'
  <2>1. CASE Translate
    <3> SUFFICES ASSUME NEW s \in Sequences, nextValue - BufferSize < s,
                        s < prod.at + 1, s \notin untranslated
                 PROVE  entries'[Index(s)] = s
      BY <1>1, <1>2, <2>1 DEF EntryInv, Translate, ProducerState
    <3>1. entries' = [entries EXCEPT ![Index(prod.at)] = prod.at]
      BY <2>1 DEF Translate
    <3>2. Index(s) \in Slots /\ Index(prod.at) \in Slots
      BY <1>1, SlotOf
    <3>3. CASE s = prod.at
      BY <1>1, <3>1, <3>2, <3>3
    <3>4. CASE s < prod.at
      <4>1. Index(s) # Index(prod.at)
        <5>1. ~(s + BufferSize <= prod.at)
          BY <1>1, RingAssumption
        <5> QED
          BY <1>1, <3>4, <5>1, SameSlot
      <4>2. entries[Index(s)] = s
        BY <3>4 DEF RingInv, EntryInv
      <4> QED
        BY <1>1, <3>1, <3>2, <4>1, <4>2
    <3> QED
      BY <1>1, <3>3, <3>4
  <2>2. CASE FailTranslation
    <3> SUFFICES ASSUME NEW s \in Sequences, nextValue - BufferSize < s,
                        s < nextValue + 1, s \notin untranslated'
                 PROVE  entries[Index(s)] = s
      BY <1>1, <1>2, <2>2 DEF EntryInv, FailTranslation, ProducerState
    <3>1. s \notin untranslated /\ s < prod.at
      BY <1>1, <2>2, RingAssumption DEF FailTranslation
    <3> QED
      BY <3>1 DEF RingInv, EntryInv
  <2> QED
    BY <2>1, <2>2
<1> QED
  BY <1>2, <1>4, <1>5, <1>6, <1>7 DEF RingInv

LEMMA PublishRing ==
  ASSUME TypeInv, RingInv, NEW high \in Sequences, Publish(high)
  PROVE  /\ RingInv' /\ OutcomesFinal /\ UNCHANGED hasDiscards
         /\ \A s \in Sequences : outcome'[s] = Discarded => outcome[s] = Discarded
<1>1. /\ prod.pc = "idle" /\ prod.at \in Int /\ high < prod.at
      /\ nextValue \in Int /\ cursor \in Int /\ cursor < high /\ high <= nextValue
      /\ outcome \in [Sequences -> Resolutions]
      /\ cursor' = high
      /\ UNCHANGED <<prod, nextValue, discarded, entries, untranslated, hasDiscards>>
  BY ProducerNumbers, RingAssumption
  DEF TypeInv, TypeOK, RingTypeOK, Publish, Owned, sequencerVars
<1>2. \A s \in Sequences :
        outcome'[s] = IF cursor < s /\ s <= high THEN Published ELSE outcome[s]
  BY <1>1, RingAssumption DEF Publish
<1>3. \A s \in Sequences : Resolved(s) <=> s <= cursor
  BY DEF RingInv, CursorInv
<1>4. OutcomesFinal
  BY <1>1, <1>2, <1>3, RingAssumption DEF OutcomesFinal
<1>5. DiscardInv'
  BY <1>1 DEF DiscardInv
<1>6. CursorInv'
  BY <1>1, <1>2, <1>3, RingAssumption DEF CursorInv, Resolved
<1>7. MarkerInv'
  <2>1. \A i \in Slots : discarded[i] <= cursor /\ discarded[i] \in Int
    BY <1>1, RingAssumption DEF RingInv, MarkerInv, TypeInv, TypeOK
  <2>2. \A i \in Slots : discarded[i] <= high
    BY <1>1, <2>1, RingAssumption
  <2>3. ASSUME NEW s \in Sequences, nextValue - BufferSize < s, s <= high
        PROVE  discarded[Index(s)] = s <=> outcome'[s] = Discarded
    <3>1. CASE s <= cursor
      BY <1>1, <1>2, <2>3, <3>1 DEF RingInv, MarkerInv
    <3>2. CASE cursor < s
      <4>1. outcome'[s] = Published
        BY <1>2, <2>3, <3>2
      <4>2. Index(s) \in Slots
        BY SlotOf, RingAssumption
      <4>3. discarded[Index(s)] # s
        BY <1>1, <2>1, <3>2, <4>2, RingAssumption
      <4> QED
        BY <4>1, <4>3
    <3> QED
      BY <1>1, <3>1, <3>2, RingAssumption
  <2> QED
    BY <1>1, <2>2, <2>3 DEF MarkerInv
<1>8. EntryInv'
  BY <1>1 DEF RingInv, EntryInv
<1> QED
  BY <1>1, <1>2, <1>4, <1>5, <1>6, <1>7, <1>8 DEF RingInv

LEMMA BeginDiscardRing ==
  ASSUME TypeInv, RingInv, NEW high \in Sequences, BeginDiscard(high)
  PROVE  RingInv' /\ UNCHANGED <<cursor, outcome>> /\ hasDiscards' = TRUE
<1>1. /\ prod \in ProducerState /\ prod.pc = "idle" /\ prod.at \in Int
      /\ high < prod.at /\ cursor \in Int /\ cursor + 1 <= high /\ high <= nextValue
      /\ UNCHANGED <<cursor, nextValue, discarded, entries, untranslated, outcome>>
      /\ hasDiscards' = TRUE
  BY ProducerNumbers, RingAssumption
  DEF TypeInv, TypeOK, BeginDiscard, Owned, sequencerVars
<1>2. /\ prod'.pc = "mark" /\ prod'.low = cursor + 1 /\ prod'.high = high
      /\ prod'.at = prod.at
  BY <1>1 DEF BeginDiscard, ProducerState
<1>3. DiscardInv'
  BY <1>1, <1>2 DEF DiscardInv
<1>4. CursorInv'
  BY <1>1, <1>2 DEF RingInv, CursorInv, Resolved
<1>5. MarkerInv'
  BY <1>1, <1>2 DEF RingInv, MarkerInv
<1>6. EntryInv'
  BY <1>1, <1>2 DEF RingInv, EntryInv
<1> QED
  BY <1>1, <1>3, <1>4, <1>5, <1>6 DEF RingInv

(* The marker is stored over one of the lap before, which nobody asks for. *)
LEMMA MarkDiscardedRing ==
  ASSUME TypeInv, RingInv, MarkDiscarded
  PROVE  RingInv' /\ UNCHANGED <<cursor, outcome, hasDiscards>>
<1>1. /\ prod \in ProducerState /\ prod.pc = "mark" /\ prod.at \in Int
      /\ cursor \in Int /\ nextValue \in Int
      /\ prod.low \in Int /\ prod.high \in Int
      /\ discarded \in [Slots -> Positions]
      /\ UNCHANGED <<cursor, nextValue, entries, untranslated, outcome, hasDiscards>>
      /\ discarded' = [discarded EXCEPT ![Index(prod.low)] = prod.low]
  BY ProducerNumbers, RingAssumption
  DEF TypeInv, TypeOK, MarkDiscarded, ringVars
<1>2. /\ prod.low = cursor + 1 /\ prod.low <= prod.high /\ prod.high <= nextValue
      /\ prod.high < prod.at /\ hasDiscards
  BY <1>1 DEF RingInv, DiscardInv
<1>3. /\ prod'.pc = "advance" /\ prod'.low = prod.low /\ prod'.high = prod.high
      /\ prod'.at = prod.at
  BY <1>1 DEF MarkDiscarded, ProducerState
<1>4. Index(prod.low) \in Slots /\ discarded'[Index(prod.low)] = prod.low
  BY <1>1, SlotOf
<1>5. DiscardInv'
  BY <1>1, <1>2, <1>3, <1>4 DEF DiscardInv
<1>6. CursorInv'
  BY <1>1, <1>3 DEF RingInv, CursorInv, Resolved
<1>7. MarkerInv'
  <2>1. ASSUME NEW i \in Slots PROVE discarded'[i] <= prod.low
    <3>1. discarded[i] <= cursor /\ discarded[i] \in Int
      BY <1>1, RingAssumption DEF RingInv, MarkerInv
    <3>2. discarded'[i] \in {discarded[i], prod.low}
      BY <1>1
    <3> QED
      BY <1>1, <1>2, <3>1, <3>2
  <2>2. ASSUME NEW s \in Sequences, nextValue - BufferSize < s, s <= cursor
        PROVE  discarded'[Index(s)] = discarded[Index(s)]
    <3>1. s < prod.low /\ ~(s + BufferSize <= prod.low)
      BY <1>1, <1>2, <2>2, RingAssumption
    <3>2. Index(s) # Index(prod.low)
      BY <1>1, <3>1, SameSlot, RingAssumption
    <3>3. Index(s) \in Slots
      BY SlotOf, RingAssumption
    <3> QED
      BY <1>1, <3>2, <3>3
  <2> QED
    BY <1>1, <1>3, <2>1, <2>2 DEF RingInv, MarkerInv
<1>8. EntryInv'
  BY <1>1, <1>3 DEF RingInv, EntryInv
<1> QED
  BY <1>1, <1>5, <1>6, <1>7, <1>8 DEF RingInv

LEMMA AdvanceDiscardedRing ==
  ASSUME TypeInv, RingInv, AdvanceDiscarded
  PROVE  RingInv' /\ OutcomesFinal /\ UNCHANGED hasDiscards /\ hasDiscards
<1>1. /\ prod \in ProducerState /\ prod.pc = "advance"
      /\ prod.at \in Int /\ prod.at \in 0 .. MaxSequence + 1
      /\ cursor \in Int /\ nextValue \in Int
      /\ prod.low \in Int /\ prod.high \in Int /\ prod.low \in Sequences
      /\ discarded \in [Slots -> Positions] /\ outcome \in [Sequences -> Resolutions]
      /\ UNCHANGED <<nextValue, entries, untranslated, discarded, hasDiscards>>
      /\ outcome' = [outcome EXCEPT ![prod.low] = Discarded] /\ cursor' = prod.low
  <2>1. /\ prod \in ProducerState /\ prod.pc = "advance"
        /\ discarded \in [Slots -> Positions]
        /\ outcome \in [Sequences -> Resolutions]
    BY DEF TypeInv, TypeOK, RingTypeOK, AdvanceDiscarded
  <2>2. /\ prod.at \in Int /\ prod.at \in 0 .. MaxSequence + 1
        /\ cursor \in Int /\ nextValue \in Int
        /\ prod.low \in Int /\ prod.high \in Int /\ prod.low \in Sequences
    BY ProducerNumbers, RingAssumption
  <2>3. /\ UNCHANGED <<nextValue, entries, untranslated, discarded, hasDiscards>>
        /\ outcome' = [outcome EXCEPT ![prod.low] = Discarded] /\ cursor' = prod.low
    BY DEF AdvanceDiscarded, sequencerVars
  <2> QED
    BY <2>1, <2>2, <2>3
<1>2. /\ prod.low = cursor + 1 /\ prod.low <= prod.high /\ prod.high <= nextValue
      /\ prod.high < prod.at /\ hasDiscards
      /\ discarded[Index(prod.low)] = prod.low
  BY <1>1 DEF RingInv, DiscardInv
<1>3. /\ prod'.at = prod.at
      /\ \/ /\ prod'.pc = "mark" /\ prod'.low = prod.low + 1
            /\ prod'.high = prod.high /\ prod.low < prod.high
         \/ prod'.pc = "idle"
  BY <1>1, IdleType DEF AdvanceDiscarded, ProducerState
<1>4. \A s \in Sequences : Resolved(s) <=> s <= cursor
  BY DEF RingInv, CursorInv
<1>5. OutcomesFinal
  <2>1. ASSUME NEW s \in Sequences, Resolved(s) PROVE outcome'[s] = outcome[s]
    <3>1. s # prod.low
      BY <1>1, <1>2, <1>4, <2>1, RingAssumption
    <3> QED
      BY <1>1, <3>1
  <2> QED
    BY <1>1, <1>2, <2>1 DEF OutcomesFinal
<1>6. DiscardInv'
  BY <1>1, <1>2, <1>3 DEF DiscardInv
<1>7. CursorInv'
  <2>1. ASSUME NEW s \in Sequences PROVE outcome'[s] # Unresolved <=> s <= prod.low
    <3>1. CASE s = prod.low
      BY <1>1, <3>1
    <3>2. CASE s # prod.low
      <4>1. outcome'[s] = outcome[s]
        BY <1>1, <3>2
      <4>2. s <= cursor <=> s <= prod.low
        BY <1>1, <1>2, <3>2, RingAssumption
      <4> QED
        BY <1>4, <4>1, <4>2 DEF Resolved
    <3> QED
      BY <3>1, <3>2
  <2> QED
    BY <1>1, <1>2, <1>3, <2>1 DEF CursorInv, Resolved
<1>8. MarkerInv'
  <2>1. \A i \in Slots : discarded[i] <= prod.low
    BY <1>1 DEF RingInv, MarkerInv
  <2>2. ASSUME NEW s \in Sequences, nextValue - BufferSize < s, s <= prod.low
        PROVE  discarded[Index(s)] = s <=> outcome'[s] = Discarded
    <3>1. CASE s = prod.low
      BY <1>1, <1>2, <3>1
    <3>2. CASE s # prod.low
      <4>1. s <= cursor /\ outcome'[s] = outcome[s]
        BY <1>1, <1>2, <2>2, <3>2, RingAssumption
      <4> QED
        BY <2>2, <4>1 DEF RingInv, MarkerInv
    <3> QED
      BY <3>1, <3>2
  <2>3. prod'.pc # "advance"
    BY <1>3
  <2> QED
    BY <1>1, <2>1, <2>2, <2>3 DEF MarkerInv
<1>9. EntryInv'
  BY <1>1, <1>3 DEF RingInv, EntryInv
<1> QED
  BY <1>1, <1>2, <1>5, <1>6, <1>7, <1>8, <1>9 DEF RingInv

-----------------------------------------------------------------------------
(* The producer's steps leave the consumers what they rely on. *)
LEMMA ProducerStepRing ==
  ASSUME "PublishAgain" \notin Calls, TypeInv, TypeInv', RingInv, DiscardsKnown,
         ProducerStep
  PROVE  RingInv' /\ OutcomesFinal /\ DiscardsKnown'
<1>1. cursor \in Int
  BY ProducerNumbers
<1>2. ASSUME UNCHANGED <<cursor, outcome>>, UNCHANGED hasDiscards \/ hasDiscards' = TRUE
      PROVE  OutcomesFinal /\ DiscardsKnown'
  BY <1>1, <1>2 DEF OutcomesFinal, DiscardsKnown
<1>3. CASE \/ \E count \in ClaimSizes, try \in BOOLEAN : BeginClaim(count, try)
           \/ ClaimStep
           \/ \E s \in Sequences : DiscardAgain(s)
  BY <1>2, <1>3, ClaimStepRing
<1>4. CASE Translate \/ FailTranslation
  BY <1>2, <1>4, TranslateRing
<1>5. CASE \E high \in Sequences : Publish(high)
  BY <1>5, PublishRing DEF DiscardsKnown
<1>6. CASE \E high \in Sequences : BeginDiscard(high)
  BY <1>2, <1>6, BeginDiscardRing
<1>7. CASE MarkDiscarded
  BY <1>2, <1>7, MarkDiscardedRing
<1>8. CASE AdvanceDiscarded
  BY <1>8, AdvanceDiscardedRing DEF DiscardsKnown
<1>9. ASSUME NEW s \in Sequences, PublishAgain(s) PROVE FALSE
  BY <1>9 DEF PublishAgain
<1> QED
  BY <1>3, <1>4, <1>5, <1>6, <1>7, <1>8, <1>9 DEF ProducerStep, OwnerStep

(* Every batch lies in the last lap below the claims. *)
LEMMA BatchInWindow ==
  ASSUME TypeInv, ConsumerInv, GateInv, DeliveryInv, NEW c \in Consumers,
         NEW s \in Int, sequence[c] < s
  PROVE  nextValue - BufferSize < s
<1>1. nextValue - BufferSize \in Int
  BY ProducerNumbers, RingAssumption
<1>2. nextValue - BufferSize <= sequence[c]
  BY <1>1, GatesBoundEveryone DEF GateInv, GatesProtected
<1> QED
  BY <1>1, <1>2, Numbers

(* IsDiscarded answers truthfully whatever a batch asks it. *)
LEMMA MarkersAnswer ==
  ASSUME Inv, NEW c \in Consumers, con[c].pc # "wait",
         NEW s \in Sequences, sequence[c] < s, s <= con[c].available
  PROVE  IsDiscarded(s) <=> outcome[s] = Discarded
<1>1. con[c].available <= cursor
  BY DEF Inv, DeliveryInv, RunOK, BatchOK, Granted
<1>2. nextValue - BufferSize < s
  BY BatchInWindow, RingAssumption DEF Inv
<1>3. /\ cursor \in Int /\ nextValue \in Int /\ con[c].available \in Int
      /\ cursor <= nextValue
  BY ProducerNumbers, Numbers DEF Inv, RingInv, CursorInv
<1>4. s <= cursor /\ s > cursor - BufferSize
  BY <1>1, <1>2, <1>3, RingAssumption
<1>5. discarded[Index(s)] = s <=> outcome[s] = Discarded
  BY <1>2, <1>4 DEF Inv, RingInv, MarkerInv
<1> QED
  BY <1>4, <1>5 DEF IsDiscarded

LEMMA SequencerAnswers ==
  ASSUME Inv, NEW c \in Consumers
  PROVE  TrueAnswers(c, FALSE, IsDiscarded(con[c].last), IsDiscarded(con[c].at),
                     "select")
<1>1. /\ con[c].pc = "last" => con[c].last <= con[c].available
      /\ con[c].pc = "handle" => sequence[c] < con[c].at
  BY DEF Inv, DeliveryInv, RunOK, BatchOK, Trailing, Handling
<1>2. ASSUME con[c].pc = "last", sequence[c] < con[c].last
      PROVE  IsDiscarded(con[c].last) <=> outcome[con[c].last] = Discarded
  <2>1. con[c].last \in Sequences
    BY <1>2, Numbers, RingAssumption DEF Inv
  <2> QED
    BY <1>1, <1>2, <2>1, MarkersAnswer
<1>3. ASSUME con[c].pc = "handle", con[c].at <= con[c].available
      PROVE  IsDiscarded(con[c].at) <=> outcome[con[c].at] = Discarded
  <2>1. con[c].at \in Sequences
    BY <1>3, Numbers, RingAssumption DEF Inv
  <2> QED
    BY <1>1, <1>3, <2>1, MarkersAnswer
<1>4. \A s \in Sequences : s <= cursor => Resolved(s)
  BY DEF Inv, RingInv, CursorInv
<1> QED
  BY <1>2, <1>3, <1>4 DEF TrueAnswers

LEMMA InvInit == Init => Inv
BY TypeInit, ConsumerInit, RingInitial, DeliveryInit DEF Init, Inv

LEMMA RingTypesHold ==
  ASSUME TypeInv
  PROVE  RingTypes
BY DEF TypeInv, TypeOK, RingTypeOK, RingTypes

LEMMA InvStep ==
  ASSUME "PublishAgain" \notin Calls, Inv, [Next]_vars
  PROVE  Inv'
<1>1. TypeInv' /\ ConsumerInv' /\ GateInv'
  BY TypeStep DEF Inv
<1>2. RingTypes /\ RingTypes'
  BY <1>1, RingTypesHold, PTL DEF Inv
<1>3. CASE ProducerStep /\ UNCHANGED consumerVars
  <2>1. RingInv' /\ OutcomesFinal /\ DiscardsKnown'
    BY <1>1, <1>3, ProducerStepRing DEF Inv, DeliveryInv
  <2>2. DeliveryInv'
    BY <1>2, <1>3, <2>1, OthersKeepDelivery DEF Inv
  <2> QED
    BY <1>1, <2>1, <2>2 DEF Inv
<1>4. CASE /\ UNCHANGED <<sequencerVars, prod, consumerVars>>
           /\ UNCHANGED <<cursor, entries, hasDiscards, outcome, untranslated>>
  <2>1. RingInv'
    BY <1>4 DEF Inv, RingInv, DiscardInv, CursorInv, MarkerInv, EntryInv, Resolved,
                sequencerVars
  <2>2. OutcomesFinal /\ DiscardsKnown'
    BY <1>2, <1>4, RingAssumption
    DEF Inv, DeliveryInv, DiscardsKnown, OutcomesFinal, RingTypes
  <2>3. DeliveryInv'
    BY <1>2, <1>4, <2>2, OthersKeepDelivery DEF Inv
  <2> QED
    BY <1>1, <2>1, <2>3 DEF Inv
<1>5. ASSUME NEW c \in Consumers, ConsumerStep(c), UNCHANGED producerVars
      PROVE  Inv'
  <2>1. CoreStep(c, FALSE, IsDiscarded(con[c].last), IsDiscarded(con[c].at), "select")
    BY <1>5 DEF ConsumerStep, CoreStep
  <2>2. TrueAnswers(c, FALSE, IsDiscarded(con[c].last), IsDiscarded(con[c].at),
                    "select")
    BY SequencerAnswers
  <2>3. UNCHANGED <<cursor, outcome, hasDiscards>>
    BY <1>5 DEF producerVars, ringVars
  <2>4. DeliveryInv'
    BY <1>2, <2>1, <2>2, <2>3, ConsumerStepDelivery DEF Inv
  <2>5. RingInv'
    BY <1>5 DEF Inv, RingInv, DiscardInv, CursorInv, MarkerInv, EntryInv, Resolved,
                producerVars, ringVars, sequencerVars
  <2> QED
    BY <1>1, <2>4, <2>5 DEF Inv
<1>6. CASE UNCHANGED vars
  BY <1>4, <1>6 DEF vars, producerVars, ringVars
<1>7. CASE (Seal \/ CloseRing) /\ UNCHANGED <<sequencerVars, prod, consumerVars>>
  BY <1>4, <1>7 DEF Seal, CloseRing
<1> QED
  BY <1>3, <1>5, <1>6, <1>7 DEF Next

LEMMA Invariance ==
  ASSUME "PublishAgain" \notin Calls
  PROVE  Spec => []Inv
BY InvInit, InvStep, PTL DEF Spec

LEMMA InvExclusive ==
  ASSUME Inv
  PROVE  SlotsExclusive
<1> SUFFICES ASSUME NEW c \in Consumers, con[c].pc # "wait", NEW s \in Owned,
                    NEW t \in Desired(c) .. con[c].available
             PROVE  Index(s) # Index(t)
  BY DEF SlotsExclusive
<1>1. /\ cursor \in Int /\ nextValue \in Int /\ sequence[c] \in Int
      /\ con[c].available \in Int /\ Desired(c) = sequence[c] + 1
  BY ProducerNumbers, Numbers DEF Inv
<1>2. /\ s \in Int /\ cursor < s /\ s <= nextValue
      /\ t \in Int /\ sequence[c] < t /\ t <= con[c].available
  BY <1>1 DEF Owned
<1>3. con[c].available <= cursor
  BY DEF Inv, DeliveryInv, RunOK, BatchOK, Granted
<1>4. nextValue - BufferSize < t
  BY <1>2, BatchInWindow DEF Inv
<1>5. t < s /\ ~(t + BufferSize <= s)
  BY <1>1, <1>2, <1>3, <1>4, RingAssumption
<1> QED
  BY <1>2, <1>5, SameSlot

LEMMA InvReads ==
  ASSUME Inv
  PROVE  ReadsOwnEvent
<1> SUFFICES ASSUME NEW c \in Consumers, con[c].pc = "handle",
                    NEW s \in con[c].at .. con[c].available, s \notin untranslated
             PROVE  entries[Index(s)] = s
  BY DEF ReadsOwnEvent
<1>1. /\ sequence[c] < con[c].at /\ con[c].available <= cursor
      /\ cursor < prod.at
  BY DEF Inv, DeliveryInv, RunOK, BatchOK, Granted, Handling, RingInv, CursorInv
<1>2. /\ sequence[c] \in Int /\ con[c].at \in Int /\ con[c].available \in Int
      /\ 0 <= con[c].at /\ con[c].available <= MaxSequence
      /\ cursor \in Int /\ prod.at \in Int
  BY ProducerNumbers, Numbers, RingAssumption DEF Inv
<1>3. s \in Sequences /\ sequence[c] < s /\ s < prod.at
  BY <1>1, <1>2, RingAssumption
<1>4. nextValue - BufferSize < s
  BY <1>3, BatchInWindow, RingAssumption DEF Inv
<1> QED
  BY <1>3, <1>4 DEF Inv, RingInv, EntryInv

(***************************************************************************)
(* The producer and the consumers never use one slot at the same time, in  *)
(* any topology whose final stages are gated.                              *)
(***************************************************************************)
THEOREM SlotsNeverShared ==
  ASSUME "PublishAgain" \notin Calls
  PROVE  Spec => []SlotsExclusive
BY Invariance, InvExclusive, PTL

(***************************************************************************)
(* Get hands every handler the event of the sequence it asks for.          *)
(***************************************************************************)
THEOREM EventsOwn ==
  ASSUME "PublishAgain" \notin Calls
  PROVE  Spec => []ReadsOwnEvent
BY Invariance, InvReads, PTL

(***************************************************************************)
(* Run acknowledges only what its handler completed, and processBatch      *)
(* never delivers a discarded sequence, although it reads the ring's flag  *)
(* once a batch and the markers slot by slot while the producer discards.  *)
(***************************************************************************)
THEOREM NothingSkipped ==
  ASSUME "PublishAgain" \notin Calls
  PROVE  Spec => []AcknowledgedWasHandled
<1>1. Inv => AcknowledgedWasHandled
  BY DeliveryHandled DEF Inv
<1> QED
  BY <1>1, Invariance, PTL

(* processBatch passes endOfBatch with the last sequence it delivers. *)
THEOREM EndOfBatchExact ==
  ASSUME "PublishAgain" \notin Calls
  PROVE  Spec => []EndOfBatchIsLastDelivered
<1>1. Inv => EndOfBatchIsLastDelivered
  BY DeliveryEndOfBatch DEF Inv
<1> QED
  BY <1>1, Invariance, PTL

(***************************************************************************)
(* The documented rule that duplicate resolution calls are ignored, which  *)
(* TLC refutes, fails through repeated publications only: repeated         *)
(* discards, with everything else, never hide a resolved sequence.         *)
(***************************************************************************)
THEOREM RepeatedDiscardsIgnored ==
  ASSUME "PublishAgain" \notin Calls
  PROVE  Spec => []DuplicatesIgnored
<1>1. Inv => DuplicatesIgnored
  BY DEF Inv, RingInv, CursorInv, DuplicatesIgnored, Resolved
<1> QED
  BY <1>1, Invariance, PTL

-----------------------------------------------------------------------------
(* The refinement, action by action. *)
LEMMA BroadcastInit == Init => Broadcast!Init
BY DEF Init, RingInit, Broadcast!Init, Broadcast!Unresolved

(* A claim of count sequences that the gates admit. *)
LEMMA ClaimImplements ==
  ASSUME Inv, NEW count \in 1 .. BufferSize, nextValue' = nextValue + count,
         nextValue + count <= MaxSequence, GateInv',
         UNCHANGED <<outcome, sequence>>
  PROVE  Broadcast!Next
<1>1. ASSUME NEW g \in Gating PROVE nextValue + count - BufferSize <= sequence[g]
  <2>1. nextValue' - BufferSize <= sequence'[g]
    BY DEF GateInv, GatesProtected
  <2>2. sequence[g] \in Int /\ nextValue \in Int /\ BufferSize \in Int
    BY ProducerNumbers, RingAssumption DEF Inv
  <2>3. sequence'[g] = sequence[g]
    OBVIOUS
  <2> QED
    BY <2>1, <2>2, <2>3
<1>2. Broadcast!Claim(count)
  BY <1>1 DEF Broadcast!Claim
<1> QED
  BY <1>2 DEF Broadcast!Next

LEMMA ClaimStepImplements ==
  ASSUME Inv, GateInv',
         \/ \E count \in ClaimSizes, try \in BOOLEAN : BeginClaim(count, try)
         \/ ClaimStep,
         UNCHANGED consumerVars
  PROVE  Broadcast!Next \/ UNCHANGED <<nextValue, outcome, sequence>>
<1>1. UNCHANGED <<outcome, sequence>>
  BY DEF BeginClaim, ClaimStep, CheckSealed, LoadGate, FinishClaim, RefuseClaim,
         WaitForCapacity, ringVars, consumerVars
<1>2. CASE \E count \in ClaimSizes, try \in BOOLEAN : BeginClaim(count, try)
  <2>1. PICK count \in ClaimSizes, try \in BOOLEAN : BeginClaim(count, try)
    BY <1>2
  <2>2. count \in 1 .. BufferSize /\ nextValue + count <= MaxSequence
    BY <2>1, ProducerAssumption DEF BeginClaim
  <2>3. CASE nextValue' = nextValue + count
    BY <1>1, <2>2, <2>3, ClaimImplements
  <2>4. CASE UNCHANGED nextValue
    BY <1>1, <2>4
  <2> QED
    BY <2>1, <2>3, <2>4 DEF BeginClaim
<1>3. CASE FinishClaim
  <2>1. PICK count \in 1 .. BufferSize : count = prod.count
    BY <1>3, ProducerNumbers, RingAssumption DEF Inv, TypeInv, ProducerInv, FinishClaim
  <2>2. nextValue' = nextValue + count /\ nextValue + count <= MaxSequence
    BY <1>3, <2>1 DEF Inv, TypeInv, ProducerInv, FinishClaim
  <2> QED
    BY <1>1, <2>2, ClaimImplements
<1>4. CASE ClaimStep /\ ~FinishClaim
  BY <1>1, <1>4
  DEF ClaimStep, CheckSealed, LoadGate, RefuseClaim, WaitForCapacity, sequencerVars
<1> QED
  BY <1>2, <1>3, <1>4

LEMMA PublishImplements ==
  ASSUME Inv, NEW high \in Sequences, Publish(high), UNCHANGED consumerVars
  PROVE  Broadcast!Next
<1>1. /\ cursor \in Int /\ -1 <= cursor /\ nextValue \in Int
      /\ cursor < high /\ high <= nextValue
  BY ProducerNumbers, RingAssumption DEF Inv, Publish, Owned
<1>2. PICK low \in 0 .. MaxSequence : low = cursor + 1
  BY <1>1, RingAssumption
<1>3. \A s \in low .. high : outcome[s] = Unresolved
  <2> SUFFICES ASSUME NEW s \in low .. high PROVE outcome[s] = Unresolved
    OBVIOUS
  <2>1. s \in Sequences /\ ~(s <= cursor)
    BY <1>1, <1>2, RingAssumption
  <2> QED
    BY <2>1 DEF Inv, RingInv, CursorInv, Resolved
<1>4. /\ outcome' = [s \in 0 .. MaxSequence |->
                      IF s \in low .. high THEN Published ELSE outcome[s]]
      /\ UNCHANGED <<nextValue, sequence>>
  BY <1>2 DEF Publish, sequencerVars, consumerVars
<1>5. Broadcast!Resolve(low, high, Published)
  BY <1>1, <1>2, <1>3, <1>4 DEF Broadcast!Resolve, Broadcast!Unresolved
<1> QED
  BY <1>5 DEF Broadcast!Next, Broadcast!Published

LEMMA AdvanceDiscardedImplements ==
  ASSUME Inv, AdvanceDiscarded, UNCHANGED consumerVars
  PROVE  Broadcast!Next
<1>1. /\ prod.low \in Sequences /\ prod.low = cursor + 1 /\ cursor \in Int
      /\ prod.low <= prod.high /\ prod.high <= nextValue /\ prod.high \in Int
      /\ nextValue \in Int
  BY ProducerNumbers, RingAssumption DEF Inv, RingInv, DiscardInv, AdvanceDiscarded
<1>2. PICK low \in 0 .. MaxSequence : low = prod.low
  BY <1>1
<1>3. /\ low <= nextValue /\ low .. low = {low} /\ low <= low
      /\ ~(low <= cursor)
  BY <1>1, <1>2, RingAssumption
<1>4. outcome[low] = Unresolved
  BY <1>3 DEF Inv, RingInv, CursorInv, Resolved
<1>5. /\ outcome' = [s \in 0 .. MaxSequence |->
                      IF s \in low .. low THEN Discarded ELSE outcome[s]]
      /\ UNCHANGED <<nextValue, sequence>>
  <2>1. outcome \in [0 .. MaxSequence -> Resolutions]
    BY DEF Inv, TypeInv, TypeOK, RingTypeOK
  <2> QED
    BY <1>2, <1>3, <2>1 DEF AdvanceDiscarded, sequencerVars, consumerVars
<1>6. Broadcast!Resolve(low, low, Discarded)
  BY <1>3, <1>4, <1>5 DEF Broadcast!Resolve, Broadcast!Unresolved
<1> QED
  BY <1>6 DEF Broadcast!Next, Broadcast!Discarded

LEMMA ConsumerImplements ==
  ASSUME Inv, NEW c \in Consumers, ConsumerStep(c), UNCHANGED producerVars
  PROVE  Broadcast!Next \/ UNCHANGED <<nextValue, outcome, sequence>>
<1>1. UNCHANGED <<nextValue, outcome>>
  BY DEF producerVars, ringVars, sequencerVars
<1>2. CASE Acknowledge(c)
  <2>1. RingTypes
    BY RingTypesHold DEF Inv
  <2>2. /\ sequence' = [sequence EXCEPT ![c] = con[c].available]
        /\ sequence[c] <= con[c].available /\ con[c].available <= cursor
        /\ con[c].available \in Int /\ con[c].available <= MaxSequence
        /\ \A s \in sequence[c] + 1 .. con[c].available : Resolved(s)
        /\ \A d \in Upstream[c] : con[c].available <= sequence[d]
    BY <1>2, <2>1, AcknowledgeAdvances DEF Inv
  <2>3. /\ sequence[c] \in Int /\ -1 <= sequence[c] /\ cursor \in Int
        /\ nextValue \in Int /\ cursor <= nextValue
        /\ sequence \in [Consumers -> Positions]
    BY Numbers, ProducerNumbers
    DEF Inv, RingInv, CursorInv, ConsumerInv, ConsumerTypes
  <2>4. CASE con[c].available = sequence[c]
    BY <1>1, <2>2, <2>3, <2>4
  <2>5. CASE con[c].available # sequence[c]
    <3>1. PICK end \in 0 .. MaxSequence : end = con[c].available
      BY <2>2, <2>3, <2>5, RingAssumption
    <3>2. sequence[c] < end /\ end <= nextValue
      BY <2>2, <2>3, <2>5, <3>1
    <3>3. Broadcast!Advance(c, end)
      BY <1>1, <2>2, <3>1, <3>2
      DEF Broadcast!Advance, Broadcast!Unresolved, Resolved
    <3> QED
      BY <3>3 DEF Broadcast!Next
  <2> QED
    BY <2>4, <2>5
<1>3. CASE ~Acknowledge(c)
  BY <1>1, <1>3
  DEF ConsumerStep, WaitForCursor, WaitForDependency, SelectBatch, FindLast,
      Deliver, SkipDiscarded, FailHandler
<1> QED
  BY <1>2, <1>3

LEMMA BroadcastStep ==
  ASSUME "PublishAgain" \notin Calls, Inv, Inv', [Next]_vars
  PROVE  [Broadcast!Next]_(Broadcast!broadcastVars)
<1> SUFFICES Broadcast!Next \/ UNCHANGED <<nextValue, outcome, sequence>>
  BY DEF Broadcast!broadcastVars
<1>1. CASE ProducerStep /\ UNCHANGED consumerVars
  <2>1. CASE \/ \E count \in ClaimSizes, try \in BOOLEAN : BeginClaim(count, try)
             \/ ClaimStep
    BY <1>1, <2>1, ClaimStepImplements DEF Inv
  <2>2. CASE \E high \in Sequences : Publish(high)
    BY <1>1, <2>2, PublishImplements
  <2>3. CASE AdvanceDiscarded
    BY <1>1, <2>3, AdvanceDiscardedImplements
  <2>4. CASE \/ Translate \/ FailTranslation \/ MarkDiscarded
             \/ \E high \in Sequences : BeginDiscard(high) \/ DiscardAgain(high)
    BY <1>1, <2>4
    DEF Translate, FailTranslation, MarkDiscarded, BeginDiscard, DiscardAgain,
        ringVars, sequencerVars, consumerVars
  <2>5. ASSUME NEW s \in Sequences, PublishAgain(s) PROVE FALSE
    BY <2>5 DEF PublishAgain
  <2> QED
    BY <1>1, <2>1, <2>2, <2>3, <2>4, <2>5 DEF ProducerStep, OwnerStep
<1>2. CASE (Seal \/ CloseRing) /\ UNCHANGED <<sequencerVars, prod, consumerVars>>
  BY <1>2 DEF Seal, CloseRing, sequencerVars, consumerVars
<1>3. CASE \E c \in Consumers : ConsumerStep(c) /\ UNCHANGED producerVars
  BY <1>3, ConsumerImplements
<1>4. CASE UNCHANGED vars
  BY <1>4 DEF vars, producerVars, ringVars, sequencerVars, consumerVars
<1> QED
  BY <1>1, <1>2, <1>3, <1>4 DEF Next

(***************************************************************************)
(* The single-producer ring implements the bounded broadcast: claims stay  *)
(* within a lap of the gates, every sequence is resolved once and in       *)
(* order, and consumers acknowledge resolved prefixes that their upstream  *)
(* acknowledged before.                                                    *)
(***************************************************************************)
THEOREM ImplementsBroadcast ==
  ASSUME "PublishAgain" \notin Calls
  PROVE  Spec => BroadcastSpec
BY BroadcastInit, BroadcastStep, Invariance, PTL
DEF Spec, BroadcastSpec, Broadcast!Spec
=============================================================================
