------------------------- MODULE MultiProducerProofs -------------------------
(***************************************************************************)
(* Theorems about MultiProducer, for every number of producers, consumers  *)
(* and slots, every topology, batch size, claim size and bound.            *)
(***************************************************************************)
EXTENDS MultiProducer, RingCoreProofs

(* The producer is past LoadCursor: its claim ends at High(p). *)
HasHigh(p) == prod[p].pc \notin {"idle", "sealed", "cursor"}

(***************************************************************************)
(* TypeOK alone is not inductive: High(p) becomes the cursor, so it has to *)
(* stay within the sequences from the load of the cursor on.               *)
(***************************************************************************)
ClaimBound ==
  \A p \in Producers :
    /\ prod[p].unread \subseteq Gating
    /\ HasHigh(p) => High(p) <= MaxSequence

TypeInv == TypeOK /\ ClaimBound

(***************************************************************************)
(* Why a claim is safe.  Positions only grow, so what was read of a gate   *)
(* stays a lower bound of it: the cached gate, the minimum over the gates  *)
(* read so far, and the wrap point of a claim that goes to the swap.  If   *)
(* the swap succeeds the cursor moves to exactly that claim's end.         *)
(***************************************************************************)
CacheBehind == \A g \in Gating : gateCache <= sequence[g]

MinimumBehind(p) ==
  prod[p].pc = "gates" =>
    \A g \in Gating : g \notin prod[p].unread => prod[p].minimum <= sequence[g]

Admitted(p) ==
  prod[p].pc = "cas" => \A g \in Gating : WrapPoint(p) <= sequence[g]

GateInv ==
  /\ GatesProtected
  /\ CacheBehind
  /\ \A p \in Producers : MinimumBehind(p) /\ Admitted(p)

SafetyInv == TypeInv /\ ConsumerInv /\ GateInv

USE DEF InitialSequence, Unresolved, Published, Discarded, Resolutions,
        Sequences, Positions

-----------------------------------------------------------------------------
LEMMA IdleTypes ==
  /\ IdleProducer \in ProducerState
  /\ \A c \in Consumers : IdleConsumer(c) \in ConsumerState
BY RingAssumption DEF IdleProducer, ProducerState, IdleConsumer, ConsumerState

LEMMA TypeInit == Init => TypeInv
<1> SUFFICES ASSUME Init PROVE TypeInv
  OBVIOUS
<1>1. /\ cursor \in Positions /\ entries \in [Slots -> Positions]
      /\ sequence \in [Consumers -> Positions]
      /\ outcome \in [Sequences -> Resolutions]
  BY RingAssumption DEF Init, RingInit
<1>5. /\ con \in [Consumers -> ConsumerState]
      /\ handled \in [Consumers -> SUBSET Sequences]
  BY IdleTypes DEF Init, RingInit
<1>6. /\ sealed \in BOOLEAN /\ closed \in BOOLEAN /\ hasDiscards \in BOOLEAN
      /\ untranslated \in SUBSET Sequences
  BY DEF Init, RingInit
<1>2. gateCache \in Positions /\ available \in [Slots -> Words]
  BY RingAssumption, ProducerAssumption DEF Init, Words
<1>3. prod \in [Producers -> ProducerState]
  BY IdleTypes DEF Init
<1>4. ClaimBound
  BY DEF Init, ClaimBound, HasHigh, IdleProducer
<1> QED
  BY <1>1, <1>2, <1>3, <1>4, <1>5, <1>6 DEF TypeInv, TypeOK, RingTypeOK

LEMMA LocalState ==
  ASSUME TypeInv, NEW p \in Producers
  PROVE  prod[p] \in ProducerState /\ prod[p].unread \subseteq Gating
BY DEF TypeInv, TypeOK, ClaimBound

(* What a step of p has to establish about its new local state. *)
LEMMA ProducerUpdate ==
  ASSUME TypeInv, NEW p \in Producers, NEW st \in ProducerState,
         st.unread \subseteq Gating,
         st.pc \in {"idle", "sealed", "cursor"} \/ st.current + st.count <= MaxSequence,
         prod' = [prod EXCEPT ![p] = st]
  PROVE  prod' \in [Producers -> ProducerState] /\ ClaimBound'
BY RingAssumption DEF TypeInv, TypeOK, ClaimBound, HasHigh, High

(***************************************************************************)
(* The steps of a claim up to the swap change no shared variable but the   *)
(* gate cache.                                                             *)
(***************************************************************************)
LEMMA BeginClaimType ==
  ASSUME TypeInv, NEW p \in Producers, NEW count \in ClaimSizes,
         NEW try \in BOOLEAN, BeginClaim(p, count, try), UNCHANGED consumerVars
  PROVE  TypeInv'
<1> DEFINE st == [prod[p] EXCEPT !.pc = "cursor", !.count = count, !.try = try]
<1>1. st \in ProducerState /\ st.unread \subseteq Gating /\ st.pc = "cursor"
  <2>1. count \in 0 .. BufferSize
    BY ProducerAssumption, RingAssumption
  <2>2. prod[p] \in ProducerState
    BY LocalState
  <2>3. st \in ProducerState
    BY <2>1, <2>2, Zenon DEF ProducerState
  <2>4. st.unread = prod[p].unread /\ st.pc = "cursor"
    BY <2>2 DEF ProducerState
  <2> QED
    BY <2>3, <2>4, LocalState
<1>2. prod' = [prod EXCEPT ![p] = st]
  BY DEF BeginClaim
<1>3. prod' \in [Producers -> ProducerState] /\ ClaimBound'
  BY <1>1, <1>2, ProducerUpdate
<1> QED
  BY <1>3 DEF BeginClaim, TypeInv, TypeOK, RingTypeOK, ringVars, consumerVars

LEMMA CheckSealedType ==
  ASSUME TypeInv, NEW p \in Producers, CheckSealed(p), UNCHANGED consumerVars
  PROVE  TypeInv'
<1> DEFINE st == IF sealed THEN IdleProducer ELSE [prod[p] EXCEPT !.pc = "cursor"]
<1>1. /\ st \in ProducerState /\ st.unread \subseteq Gating
      /\ st.pc \in {"idle", "cursor"}
  BY IdleTypes, LocalState DEF ProducerState, IdleProducer
<1>2. prod' = [prod EXCEPT ![p] = st]
  BY DEF CheckSealed
<1>3. prod' \in [Producers -> ProducerState] /\ ClaimBound'
  BY <1>1, <1>2, ProducerUpdate
<1> QED
  BY <1>3 DEF CheckSealed, TypeInv, TypeOK, RingTypeOK, ringVars, consumerVars

LEMMA LoadCursorType ==
  ASSUME TypeInv, NEW p \in Producers, LoadCursor(p), UNCHANGED consumerVars
  PROVE  TypeInv'
<1> DEFINE st == [prod[p] EXCEPT !.pc = "cache", !.current = cursor]
<1>1. st \in ProducerState /\ st.unread \subseteq Gating
  <2>1. cursor \in Positions
    BY DEF TypeInv, TypeOK, RingTypeOK
  <2>2. prod[p] \in ProducerState
    BY LocalState
  <2>3. st \in ProducerState
    BY <2>1, <2>2, Zenon DEF ProducerState
  <2>4. st.unread = prod[p].unread
    BY <2>2 DEF ProducerState
  <2> QED
    BY <2>3, <2>4, LocalState
<1>2. st.current + st.count <= MaxSequence
  BY DEF LoadCursor, TypeInv, TypeOK, ProducerState
<1>3. prod' = [prod EXCEPT ![p] = st]
  BY DEF LoadCursor
<1>4. prod' \in [Producers -> ProducerState] /\ ClaimBound'
  BY <1>1, <1>2, <1>3, ProducerUpdate
<1> QED
  BY <1>4 DEF LoadCursor, TypeInv, TypeOK, RingTypeOK, ringVars, consumerVars

LEMMA LoadGateCacheType ==
  ASSUME TypeInv, NEW p \in Producers, LoadGateCache(p), UNCHANGED consumerVars
  PROVE  TypeInv'
<1> DEFINE st == IF WrapPoint(p) > gateCache \/ gateCache > prod[p].current
                 THEN [prod[p] EXCEPT !.pc = "gates", !.unread = Gating,
                                      !.minimum = prod[p].current]
                 ELSE [prod[p] EXCEPT !.pc = "cas"]
<1>1. st \in ProducerState /\ st.unread \subseteq Gating
  <2>1. Gating \in SUBSET Consumers
    BY RingAssumption
  <2>2. prod[p].current \in Positions
    BY LocalState DEF ProducerState
  <2>3. /\ [prod[p] EXCEPT !.pc = "cas"] \in ProducerState
        /\ [prod[p] EXCEPT !.pc = "cas"].unread \subseteq Gating
    BY LocalState DEF ProducerState
  <2> DEFINE read == [prod[p] EXCEPT !.pc = "gates", !.unread = Gating,
                                     !.minimum = prod[p].current]
  <2>4. read \in ProducerState
    <3>1. prod[p] \in ProducerState
      BY LocalState
    <3> QED
      BY <2>1, <2>2, <3>1, Zenon DEF ProducerState
  <2>5. read.unread \subseteq Gating
    BY LocalState DEF ProducerState
  <2> QED
    BY <2>3, <2>4, <2>5
<1>2. st.current + st.count <= MaxSequence
  BY DEF LoadGateCache, TypeInv, TypeOK, ClaimBound, HasHigh, High, ProducerState
<1>3. prod' = [prod EXCEPT ![p] = st]
  BY DEF LoadGateCache
<1>4. prod' \in [Producers -> ProducerState] /\ ClaimBound'
  BY <1>1, <1>2, <1>3, ProducerUpdate
<1> QED
  BY <1>4 DEF LoadGateCache, TypeInv, TypeOK, RingTypeOK, ringVars, consumerVars

LEMMA LoadGateType ==
  ASSUME TypeInv, NEW p \in Producers, NEW g \in Gating, LoadGate(p, g),
         UNCHANGED consumerVars
  PROVE  TypeInv'
<1> DEFINE minimum == IF prod[p].unread = Gating THEN sequence[g]
                      ELSE Minimum(prod[p].minimum, sequence[g])
           st == [prod[p] EXCEPT !.minimum = minimum,
                                 !.unread = prod[p].unread \ {g}]
<1>1. minimum \in Positions
  BY RingAssumption DEF TypeInv, TypeOK, RingTypeOK, ProducerState, Minimum
<1>2. st \in ProducerState /\ st.unread \subseteq Gating
  <2>1. prod[p] \in ProducerState
    BY LocalState
  <2>2. prod[p].unread \ {g} \in SUBSET Consumers
    BY <2>1 DEF ProducerState
  <2> HIDE DEF minimum
  <2>3. st \in ProducerState
    BY <1>1, <2>1, <2>2, Zenon DEF ProducerState
  <2>4. st.unread = prod[p].unread \ {g}
    BY <2>1 DEF ProducerState
  <2> QED
    BY <2>3, <2>4, LocalState
<1>3. st.current + st.count <= MaxSequence
  BY DEF LoadGate, TypeInv, TypeOK, ClaimBound, HasHigh, High, ProducerState
<1>4. prod' = [prod EXCEPT ![p] = st]
  BY DEF LoadGate
<1>5. prod' \in [Producers -> ProducerState] /\ ClaimBound'
  BY <1>2, <1>3, <1>4, ProducerUpdate
<1> QED
  BY <1>5 DEF LoadGate, TypeInv, TypeOK, RingTypeOK, ringVars, consumerVars

LEMMA WaitForCapacityType ==
  ASSUME TypeInv, NEW p \in Producers, WaitForCapacity(p), UNCHANGED consumerVars
  PROVE  TypeInv'
<1> DEFINE again == [IdleProducer EXCEPT !.pc = "sealed", !.count = prod[p].count]
<1>1. /\ again \in ProducerState /\ again.unread \subseteq Gating
      /\ again.pc = "sealed"
  BY IdleTypes DEF TypeInv, TypeOK, ProducerState, IdleProducer
<1>2. /\ IdleProducer \in ProducerState /\ IdleProducer.unread \subseteq Gating
      /\ IdleProducer.pc = "idle"
  BY IdleTypes DEF IdleProducer
<1>3. PICK st \in {again, IdleProducer} : prod' = [prod EXCEPT ![p] = st]
  BY DEF WaitForCapacity
<1>4. prod' \in [Producers -> ProducerState] /\ ClaimBound'
  BY <1>1, <1>2, <1>3, ProducerUpdate
<1> QED
  BY <1>4 DEF WaitForCapacity, TypeInv, TypeOK, RingTypeOK, ringVars, consumerVars

LEMMA StoreGateCacheType ==
  ASSUME TypeInv, NEW p \in Producers, StoreGateCache(p), UNCHANGED consumerVars
  PROVE  TypeInv'
<1> DEFINE st == IF WrapPoint(p) > prod[p].minimum THEN IdleProducer
                 ELSE [prod[p] EXCEPT !.pc = "cas"]
<1>1. st \in ProducerState /\ st.unread \subseteq Gating
  BY IdleTypes, LocalState DEF ProducerState, IdleProducer
<1>2. st.pc = "idle" \/ st.current + st.count <= MaxSequence
  BY DEF StoreGateCache, TypeInv, TypeOK, ClaimBound, HasHigh, High,
         ProducerState, IdleProducer
<1>3. prod' = [prod EXCEPT ![p] = st]
  BY DEF StoreGateCache
<1>4. prod' \in [Producers -> ProducerState] /\ ClaimBound'
  BY <1>1, <1>2, <1>3, ProducerUpdate
<1>5. gateCache' \in Positions
  BY DEF StoreGateCache, TypeInv, TypeOK, ProducerState
<1> QED
  BY <1>4, <1>5
  DEF StoreGateCache, TypeInv, TypeOK, RingTypeOK, ringVars, consumerVars

-----------------------------------------------------------------------------
(* The swap, and what the owner of a claim does. *)
LEMMA CompareAndSwapType ==
  ASSUME TypeInv, NEW p \in Producers, CompareAndSwap(p), UNCHANGED consumerVars
  PROVE  TypeInv'
<1>1. prod[p].current \in Positions /\ prod[p].count \in 0 .. BufferSize
  BY LocalState DEF ProducerState
<1>2. High(p) <= MaxSequence
  BY DEF CompareAndSwap, TypeInv, ClaimBound, HasHigh
<1>3. CASE cursor = prod[p].current /\ cursor' = High(p)
           /\ prod' = [prod EXCEPT ![p].pc = "prepare", ![p].at = cursor + 1]
  <2> DEFINE st == [prod[p] EXCEPT !.pc = "prepare", !.at = cursor + 1]
  <2>1. cursor' \in Positions
    BY <1>1, <1>2, <1>3, RingAssumption DEF High
  <2>2. cursor + 1 \in 0 .. MaxSequence + 1
    BY <1>1, <1>3, RingAssumption
  <2>3. st \in ProducerState /\ st.unread \subseteq Gating
    <3>1. prod[p] \in ProducerState
      BY LocalState
    <3>2. st \in ProducerState
      BY <2>2, <3>1, Zenon DEF ProducerState
    <3>3. st.unread = prod[p].unread
      BY <3>1 DEF ProducerState
    <3> QED
      BY <3>2, <3>3, LocalState
  <2>4. st.current + st.count <= MaxSequence
    BY <1>2, LocalState DEF High, ProducerState
  <2>5. prod' = [prod EXCEPT ![p] = st]
    BY <1>3
  <2>6. prod' \in [Producers -> ProducerState] /\ ClaimBound'
    BY <2>3, <2>4, <2>5, ProducerUpdate
  <2> QED
    BY <2>1, <2>6
    DEF CompareAndSwap, TypeInv, TypeOK, RingTypeOK, ringVars, consumerVars
<1>4. CASE UNCHANGED cursor /\ prod' = [prod EXCEPT ![p] = [IdleProducer EXCEPT
              !.pc = "sealed", !.count = prod[p].count, !.try = prod[p].try]]
  <2> DEFINE st == [IdleProducer EXCEPT !.pc = "sealed",
                      !.count = prod[p].count, !.try = prod[p].try]
  <2>1. st \in ProducerState /\ st.unread \subseteq Gating /\ st.pc = "sealed"
    BY IdleTypes, LocalState DEF ProducerState, IdleProducer
  <2>2. prod' \in [Producers -> ProducerState] /\ ClaimBound'
    BY <1>4, <2>1, ProducerUpdate
  <2> QED
    BY <1>4, <2>2
    DEF CompareAndSwap, TypeInv, TypeOK, RingTypeOK, ringVars, consumerVars
<1> QED
  BY <1>3, <1>4 DEF CompareAndSwap

LEMMA WordType ==
  ASSUME NEW s \in Int, NEW state \in Int
  PROVE  publicationValue(flag(s), state) \in Words
BY RingAssumption, ProducerAssumption DEF publicationValue, flag, Words

LEMMA PrepareType ==
  ASSUME TypeInv, NEW p \in Producers, Prepare(p), UNCHANGED consumerVars
  PROVE  TypeInv'
<1>1. /\ prod[p].current \in Positions /\ prod[p].count \in 0 .. BufferSize
      /\ prod[p].at \in 0 .. MaxSequence + 1
  BY LocalState DEF ProducerState
<1>2. High(p) \in Int /\ High(p) <= MaxSequence
  BY <1>1, RingAssumption DEF Prepare, TypeInv, ClaimBound, HasHigh, High
<1> DEFINE next == [prod[p] EXCEPT !.at = prod[p].at + 1]
           own == [prod[p] EXCEPT !.pc = "owned", !.at = prod[p].current + 1,
                                  !.todo = prod[p].current + 1 .. High(p)]
           st == IF prod[p].at < High(p) THEN next ELSE own
<1>3. st \in ProducerState /\ st.unread \subseteq Gating
  <2>1. CASE prod[p].at < High(p)
    <3>1. prod[p].at + 1 \in 0 .. MaxSequence + 1
      BY <1>1, <1>2, <2>1, RingAssumption
    <3>2. prod[p] \in ProducerState
      BY LocalState
    <3>3. next \in ProducerState
      BY <3>1, <3>2, Zenon DEF ProducerState
    <3>4. next.unread = prod[p].unread
      BY <3>2 DEF ProducerState
    <3> QED
      BY <2>1, <3>3, <3>4, LocalState
  <2>2. CASE ~(prod[p].at < High(p))
    <3>1. /\ prod[p].current + 1 \in 0 .. MaxSequence + 1
          /\ (prod[p].current + 1 .. High(p)) \in SUBSET Sequences
      BY <1>1, <1>2, RingAssumption
    <3>2. own \in ProducerState /\ own.unread \subseteq Gating
      <4>1. prod[p] \in ProducerState
        BY LocalState
      <4>2. own \in ProducerState
        BY <3>1, <4>1, Zenon DEF ProducerState
      <4>3. own.unread = prod[p].unread
        BY <4>1 DEF ProducerState
      <4> QED
        BY <4>2, <4>3, LocalState
    <3> QED
      BY <2>2, <3>2
  <2> QED
    BY <2>1, <2>2
<1>4. st.current + st.count <= MaxSequence
  BY <1>2, LocalState DEF High, ProducerState
<1>5. prod' = [prod EXCEPT ![p] = st]
  BY DEF Prepare
<1>6. prod' \in [Producers -> ProducerState] /\ ClaimBound'
  BY <1>3, <1>4, <1>5, ProducerUpdate
<1>7. available' \in [Slots -> Words]
  <2>1. publicationValue(flag(prod[p].at), Unresolved) \in Words
    <3>1. prod[p].at \in Int /\ Unresolved \in Int
      BY <1>1, RingAssumption
    <3> QED
      BY <3>1, WordType
  <2> QED
    BY <2>1 DEF Prepare, TypeInv, TypeOK
<1> QED
  BY <1>6, <1>7 DEF Prepare, TypeInv, TypeOK, RingTypeOK, ringVars, consumerVars

LEMMA TranslateType ==
  ASSUME TypeInv, NEW p \in Producers, Translate(p), UNCHANGED consumerVars
  PROVE  TypeInv'
<1>1. /\ prod[p].current \in Positions /\ prod[p].count \in 0 .. BufferSize
      /\ prod[p].at \in 0 .. MaxSequence + 1
  BY LocalState DEF ProducerState
<1>2. High(p) \in Int /\ High(p) <= MaxSequence /\ prod[p].at <= High(p)
  BY <1>1, RingAssumption DEF Translate, TypeInv, ClaimBound, HasHigh, High
<1> DEFINE st == [prod[p] EXCEPT !.at = prod[p].at + 1]
<1>3. prod[p].at \in Positions /\ prod[p].at + 1 \in 0 .. MaxSequence + 1
  BY <1>1, <1>2, RingAssumption
<1>4. st \in ProducerState /\ st.unread \subseteq Gating
  BY <1>3, LocalState DEF ProducerState
<1>5. st.current + st.count <= MaxSequence
  BY <1>2, LocalState DEF High, ProducerState
<1>6. prod' = [prod EXCEPT ![p] = st]
  BY DEF Translate
<1>7. prod' \in [Producers -> ProducerState] /\ ClaimBound'
  BY <1>4, <1>5, <1>6, ProducerUpdate
<1>8. entries' \in [Slots -> Positions]
  BY <1>3 DEF Translate, TypeInv, TypeOK, RingTypeOK
<1> QED
  BY <1>7, <1>8 DEF Translate, TypeInv, TypeOK, RingTypeOK, consumerVars

LEMMA FailTranslationType ==
  ASSUME TypeInv, NEW p \in Producers, FailTranslation(p), UNCHANGED consumerVars
  PROVE  TypeInv'
<1>1. /\ prod[p].current \in Positions /\ prod[p].count \in 0 .. BufferSize
      /\ prod[p].at \in 0 .. MaxSequence + 1
  BY LocalState DEF ProducerState
<1>2. High(p) \in Int /\ High(p) <= MaxSequence /\ prod[p].at <= High(p)
  BY <1>1, RingAssumption DEF FailTranslation, TypeInv, ClaimBound, HasHigh, High
<1> DEFINE st == [prod[p] EXCEPT !.at = High(p) + 1]
<1>3. /\ High(p) + 1 \in 0 .. MaxSequence + 1
      /\ prod[p].at .. High(p) \subseteq Sequences
  BY <1>1, <1>2, RingAssumption
<1>4. st \in ProducerState /\ st.unread \subseteq Gating
  BY <1>3, LocalState DEF ProducerState
<1>5. st.current + st.count <= MaxSequence
  BY <1>2, LocalState DEF High, ProducerState
<1>6. prod' = [prod EXCEPT ![p] = st]
  BY DEF FailTranslation
<1>7. prod' \in [Producers -> ProducerState] /\ ClaimBound'
  BY <1>4, <1>5, <1>6, ProducerUpdate
<1>8. untranslated' \in SUBSET Sequences
  BY <1>3 DEF FailTranslation, TypeInv, TypeOK, RingTypeOK
<1> QED
  BY <1>7, <1>8 DEF FailTranslation, TypeInv, TypeOK, RingTypeOK, consumerVars

LEMMA BeginResolveType ==
  ASSUME TypeInv, NEW p \in Producers, NEW low \in Sequences,
         NEW high \in Sequences, NEW as \in {Published, Discarded},
         BeginResolve(p, low, high, as), UNCHANGED consumerVars
  PROVE  TypeInv'
<1> DEFINE st == [prod[p] EXCEPT !.pc = "resolve", !.low = low, !.high = high,
                                 !.as = as]
<1>1. st \in ProducerState /\ st.unread \subseteq Gating
  <2>1. prod[p] \in ProducerState
    BY LocalState
  <2>2. st \in ProducerState
    BY <2>1, Zenon DEF ProducerState
  <2>3. st.unread = prod[p].unread
    BY <2>1 DEF ProducerState
  <2> QED
    BY <2>2, <2>3, LocalState
<1>2. st.current + st.count <= MaxSequence
  BY LocalState DEF BeginResolve, TypeInv, ClaimBound, HasHigh, High, ProducerState
<1>3. prod' = [prod EXCEPT ![p] = st]
  BY DEF BeginResolve
<1>4. prod' \in [Producers -> ProducerState] /\ ClaimBound'
  BY <1>1, <1>2, <1>3, ProducerUpdate
<1>5. hasDiscards' \in BOOLEAN
  BY DEF BeginResolve
<1> QED
  BY <1>4, <1>5 DEF BeginResolve, TypeInv, TypeOK, RingTypeOK, consumerVars

LEMMA ResolveWordType ==
  ASSUME TypeInv, NEW s \in Sequences, NEW as \in {Published, Discarded},
         ResolveWord(s, as)
  PROVE  available' \in [Slots -> Words] /\ outcome' \in [Sequences -> Resolutions]
<1>1. publicationValue(flag(s), as) \in Words
  <2>1. s \in Int /\ as \in Int
    BY RingAssumption
  <2> QED
    BY <2>1, WordType
<1> QED
  BY <1>1 DEF ResolveWord, TypeInv, TypeOK, RingTypeOK

LEMMA ResolveType ==
  ASSUME TypeInv, NEW p \in Producers, Resolve(p), UNCHANGED consumerVars
  PROVE  TypeInv'
<1>1. /\ prod[p].low \in Sequences /\ prod[p].high \in Sequences
      /\ prod[p].as \in {Published, Discarded}
      /\ prod[p].todo \in SUBSET Sequences
  BY LocalState DEF ProducerState
<1>2. prod[p].current + prod[p].count <= MaxSequence
  BY DEF Resolve, TypeInv, ClaimBound, HasHigh, High
<1> DEFINE rest == prod[p].todo \ {prod[p].low}
           next == [prod[p] EXCEPT !.low = prod[p].low + 1, !.todo = rest]
           own == [prod[p] EXCEPT !.pc = "owned", !.todo = rest, !.low = 0,
                                  !.high = 0, !.as = Published]
<1>3. CASE prod[p].low < prod[p].high
  <2>1. prod[p].low + 1 \in Sequences /\ rest \in SUBSET Sequences
    BY <1>1, <1>3, RingAssumption
  <2>2. next \in ProducerState /\ next.unread \subseteq Gating
    <3> HIDE DEF rest
    <3>1. prod[p] \in ProducerState
      BY LocalState
    <3>2. next \in ProducerState
      BY <2>1, <3>1, Zenon DEF ProducerState
    <3>3. next.unread = prod[p].unread
      BY <3>1 DEF ProducerState
    <3> QED
      BY <3>2, <3>3, LocalState
  <2>3. next.current + next.count <= MaxSequence
    BY <1>2, LocalState DEF ProducerState
  <2>4. prod' = [prod EXCEPT ![p] = next]
    BY <1>3 DEF Resolve
  <2> QED
    BY <2>2, <2>3, <2>4, ProducerUpdate, <1>1, ResolveWordType
    DEF Resolve, TypeInv, TypeOK, RingTypeOK, consumerVars
<1>4. CASE ~(prod[p].low < prod[p].high) /\ rest # {}
  <2>1. 0 \in Sequences /\ rest \in SUBSET Sequences
    BY <1>1, RingAssumption
  <2>2. own \in ProducerState /\ own.unread \subseteq Gating
    <3> HIDE DEF rest
    <3>1. prod[p] \in ProducerState
      BY LocalState
    <3>2. own \in ProducerState
      BY <2>1, <3>1, Zenon DEF ProducerState
    <3>3. own.unread = prod[p].unread
      BY <3>1 DEF ProducerState
    <3> QED
      BY <3>2, <3>3, LocalState
  <2>3. own.current + own.count <= MaxSequence
    BY <1>2, LocalState DEF ProducerState
  <2>4. prod' = [prod EXCEPT ![p] = own]
    BY <1>4 DEF Resolve
  <2> QED
    BY <2>2, <2>3, <2>4, ProducerUpdate, <1>1, ResolveWordType
    DEF Resolve, TypeInv, TypeOK, RingTypeOK, consumerVars
<1>5. CASE ~(prod[p].low < prod[p].high) /\ rest = {}
  <2>1. IdleProducer \in ProducerState /\ IdleProducer.unread \subseteq Gating
        /\ IdleProducer.pc = "idle"
    BY IdleTypes DEF IdleProducer
  <2>2. prod' = [prod EXCEPT ![p] = IdleProducer]
    BY <1>5 DEF Resolve
  <2> QED
    BY <2>1, <2>2, ProducerUpdate, <1>1, ResolveWordType
    DEF Resolve, TypeInv, TypeOK, RingTypeOK, consumerVars
<1> QED
  BY <1>3, <1>4, <1>5

LEMMA ResolveAgainType ==
  ASSUME TypeInv, NEW s \in Sequences, NEW as \in {Published, Discarded},
         ResolveAgain(s, as), UNCHANGED consumerVars
  PROVE  TypeInv'
<1>1. available' \in [Slots -> Words] /\ outcome' \in [Sequences -> Resolutions]
  BY ResolveWordType DEF ResolveAgain
<1>2. hasDiscards' \in BOOLEAN
  BY DEF ResolveAgain
<1> QED
  BY <1>1, <1>2
  DEF ResolveAgain, TypeInv, TypeOK, RingTypeOK, ClaimBound, HasHigh, High,
      consumerVars

-----------------------------------------------------------------------------
(* The steps of a producer, all together. *)
LEMMA ProducerStepType ==
  ASSUME TypeInv, NEW p \in Producers, ProducerStep(p), UNCHANGED consumerVars
  PROVE  TypeInv'
<1>1. CASE \E count \in ClaimSizes, try \in BOOLEAN : BeginClaim(p, count, try)
  BY <1>1, BeginClaimType
<1>2. CASE ClaimStep(p)
  BY <1>2, CheckSealedType, LoadCursorType, LoadGateCacheType, LoadGateType,
     WaitForCapacityType, StoreGateCacheType, CompareAndSwapType, PrepareType
  DEF ClaimStep
<1>3. CASE OwnerStep(p)
  BY <1>3, TranslateType, FailTranslationType, BeginResolveType, ResolveType
  DEF OwnerStep
<1> QED
  BY <1>1, <1>2, <1>3 DEF ProducerStep

LEMMA ConsumerStepType ==
  ASSUME TypeInv, ConsumerInv, NEW c \in Consumers, ConsumerStep(c),
         UNCHANGED producerVars
  PROVE  TypeInv' /\ ConsumerInv' /\ PositionsAdvance
<1>1. cursor \in Positions /\ hasDiscards \in BOOLEAN
  BY DEF TypeInv, TypeOK, RingTypeOK
<1>2. CoreStep(c, IsAvailable(con[c].at), IsDiscarded(con[c].last),
               IsDiscarded(con[c].at), "scan")
  BY DEF ConsumerStep, CoreStep
<1>3. ConsumerInv' /\ PositionsAdvance
  BY <1>1, <1>2, ConsumerStepInv
<1>4. ConsumerTypes'
  BY <1>3 DEF ConsumerInv
<1> QED
  BY <1>3, <1>4
  DEF TypeInv, TypeOK, RingTypeOK, ConsumerTypes, ClaimBound, HasHigh, High,
      producerVars, ringVars

(* Nobody but its consumer changes what ConsumerInv is about. *)
LEMMA OthersKeepConsumers ==
  ASSUME ConsumerInv, UNCHANGED consumerVars
  PROVE  ConsumerInv' /\ PositionsAdvance
BY DEF ConsumerInv, ConsumerTypes, BatchAhead, PositionsAdvance, consumerVars

LEMMA TypeStep ==
  ASSUME TypeInv, ConsumerInv, [Next]_vars
  PROVE  TypeInv' /\ ConsumerInv'
<1>1. CASE \E p \in Producers : ProducerStep(p) /\ UNCHANGED consumerVars
  BY <1>1, ProducerStepType, OthersKeepConsumers
<1>2. CASE \E s \in Sequences, as \in {Published, Discarded} :
             ResolveAgain(s, as) /\ UNCHANGED consumerVars
  BY <1>2, ResolveAgainType, OthersKeepConsumers
<1>3. CASE /\ Seal \/ CloseRing
           /\ UNCHANGED <<gateCache, available, prod, consumerVars>>
  <2>1. UNCHANGED consumerVars
    BY <1>3
  <2>2. TypeInv'
    BY <1>3 DEF Seal, CloseRing, TypeInv, TypeOK, RingTypeOK, ClaimBound,
                HasHigh, High, consumerVars
  <2> QED
    BY <2>1, <2>2, OthersKeepConsumers
<1>4. CASE \E c \in Consumers : ConsumerStep(c) /\ UNCHANGED producerVars
  BY <1>4, ConsumerStepType
<1>5. CASE UNCHANGED vars
  <2>1. UNCHANGED consumerVars
    BY <1>5 DEF vars
  <2>2. TypeInv'
    BY <1>5 DEF TypeInv, TypeOK, RingTypeOK, ClaimBound, HasHigh, High, vars,
                producerVars, ringVars, consumerVars
  <2> QED
    BY <2>1, <2>2, OthersKeepConsumers
<1> QED
  BY <1>1, <1>2, <1>3, <1>4, <1>5 DEF Next

(***************************************************************************)
(* Every variable of the multi-producer ring keeps its type, in particular *)
(* no claim, batch or position leaves the sequences.                       *)
(***************************************************************************)
THEOREM TypeCorrect == Spec => []TypeOK
<1>1. Init => TypeInv /\ ConsumerInv
  BY TypeInit, ConsumerInit DEF Init
<1>2. TypeInv /\ ConsumerInv /\ [Next]_vars => (TypeInv /\ ConsumerInv)'
  BY TypeStep
<1>3. TypeInv => TypeOK
  BY DEF TypeInv
<1> QED
  BY <1>1, <1>2, <1>3, PTL DEF Spec

-----------------------------------------------------------------------------
LEMMA GateInit == Init => GateInv
BY RingAssumption
DEF Init, RingInit, GateInv, GatesProtected, CacheBehind, MinimumBehind,
    Admitted, IdleProducer

(* What a step of p has to establish about its new local state. *)
LEMMA GateUpdate ==
  ASSUME TypeInv, GateInv, NEW p \in Producers, NEW st,
         st.pc = "gates" => \A g \in Gating :
            g \notin st.unread => st.minimum <= sequence[g],
         st.pc = "cas" => \A g \in Gating :
            (st.current + st.count) - BufferSize <= sequence[g],
         prod' = [prod EXCEPT ![p] = st], UNCHANGED sequence
  PROVE  \A q \in Producers : MinimumBehind(q)' /\ Admitted(q)'
<1> SUFFICES ASSUME NEW q \in Producers
             PROVE  MinimumBehind(q)' /\ Admitted(q)'
  OBVIOUS
<1>1. CASE q = p
  <2>1. prod'[p] = st
    BY DEF TypeInv, TypeOK
  <2>2. MinimumBehind(p)'
    BY <2>1 DEF MinimumBehind
  <2>3. WrapPoint(p)' = (st.current + st.count) - BufferSize
    BY <2>1 DEF WrapPoint, High
  <2>4. Admitted(p)'
    BY <2>1, <2>3, Zenon DEF Admitted
  <2> QED
    BY <1>1, <2>2, <2>4
<1>2. CASE q # p
  <2>1. prod'[q] = prod[q]
    BY <1>2 DEF TypeInv, TypeOK
  <2> QED
    BY <2>1 DEF GateInv, MinimumBehind, Admitted, WrapPoint, High
<1> QED
  BY <1>1, <1>2

(* Steps that leave p neither reading gates nor about to swap. *)
LEMMA GateIrrelevant ==
  ASSUME TypeInv, GateInv, NEW p \in Producers, NEW st,
         st.pc \notin {"gates", "cas"}, prod' = [prod EXCEPT ![p] = st],
         UNCHANGED <<cursor, gateCache, sequence>>
  PROVE  GateInv'
<1>1. \A q \in Producers : MinimumBehind(q)' /\ Admitted(q)'
  BY GateUpdate
<1> QED
  BY <1>1 DEF GateInv, GatesProtected, CacheBehind

LEMMA LoadGateCacheGate ==
  ASSUME TypeInv, ConsumerInv, GateInv, NEW p \in Producers, LoadGateCache(p),
         UNCHANGED sequence
  PROVE  GateInv'
<1> DEFINE read == [prod[p] EXCEPT !.pc = "gates", !.unread = Gating,
                                   !.minimum = prod[p].current]
           swap == [prod[p] EXCEPT !.pc = "cas"]
<1>1. prod[p] \in ProducerState
  BY LocalState
<1>2. CASE prod' = [prod EXCEPT ![p] = read]
  <2>1. read.pc = "gates" /\ read.unread = Gating
    BY <1>1 DEF ProducerState
  <2>2. \A q \in Producers : MinimumBehind(q)' /\ Admitted(q)'
    BY <1>2, <2>1, GateUpdate
  <2> QED
    BY <2>2 DEF LoadGateCache, GateInv, GatesProtected, CacheBehind
<1>3. CASE ~(WrapPoint(p) > gateCache) /\ prod' = [prod EXCEPT ![p] = swap]
  <2>1. /\ swap.pc = "cas" /\ swap.current = prod[p].current
        /\ swap.count = prod[p].count
    BY <1>1 DEF ProducerState
  <2>2. ASSUME NEW g \in Gating
        PROVE  (prod[p].current + prod[p].count) - BufferSize <= sequence[g]
    <3>1. gateCache <= sequence[g] /\ sequence[g] \in Int /\ gateCache \in Int
      BY RingAssumption
      DEF GateInv, CacheBehind, TypeInv, TypeOK, RingTypeOK
    <3>2. prod[p].current \in Int /\ prod[p].count \in Int
      BY <1>1, RingAssumption DEF ProducerState
    <3> QED
      BY <1>3, <3>1, <3>2, RingAssumption DEF WrapPoint, High
  <2>3. \A q \in Producers : MinimumBehind(q)' /\ Admitted(q)'
    BY <1>3, <2>1, <2>2, GateUpdate
  <2> QED
    BY <2>3 DEF LoadGateCache, GateInv, GatesProtected, CacheBehind
<1> QED
  BY <1>2, <1>3 DEF LoadGateCache

LEMMA LoadGateGate ==
  ASSUME TypeInv, ConsumerInv, GateInv, NEW p \in Producers, NEW g \in Gating,
         LoadGate(p, g), UNCHANGED sequence
  PROVE  GateInv'
<1> DEFINE minimum == IF prod[p].unread = Gating THEN sequence[g]
                      ELSE Minimum(prod[p].minimum, sequence[g])
           st == [prod[p] EXCEPT !.minimum = minimum,
                                 !.unread = prod[p].unread \ {g}]
<1>1. prod[p] \in ProducerState /\ prod[p].unread \subseteq Gating
  BY LocalState
<1>2. st.pc = "gates" /\ st.unread = prod[p].unread \ {g} /\ st.minimum = minimum
  BY <1>1 DEF ProducerState, LoadGate
<1>3. ASSUME NEW h \in Gating, h \notin st.unread
      PROVE  minimum <= sequence[h]
  <2>1. sequence[g] \in Int /\ sequence[h] \in Int
    BY RingAssumption DEF TypeInv, TypeOK, RingTypeOK
  <2>2. prod[p].minimum \in Int
    BY <1>1, RingAssumption DEF ProducerState
  <2>3. CASE h = g
    BY <2>1, <2>2, <2>3 DEF Minimum
  <2>4. CASE h # g
    <3>1. h \notin prod[p].unread /\ prod[p].unread # Gating
      BY <1>2, <1>3, <2>4
    <3>2. prod[p].minimum <= sequence[h]
      BY <3>1 DEF LoadGate, GateInv, MinimumBehind
    <3> QED
      BY <2>1, <2>2, <3>1, <3>2 DEF Minimum
  <2> QED
    BY <2>3, <2>4
<1>4. prod' = [prod EXCEPT ![p] = st]
  BY DEF LoadGate
<1>5. \A q \in Producers : MinimumBehind(q)' /\ Admitted(q)'
  BY <1>2, <1>3, <1>4, GateUpdate
<1> QED
  BY <1>5 DEF LoadGate, GateInv, GatesProtected, CacheBehind

LEMMA StoreGateCacheGate ==
  ASSUME TypeInv, ConsumerInv, GateInv, NEW p \in Producers, StoreGateCache(p),
         UNCHANGED sequence
  PROVE  GateInv'
<1>1. prod[p] \in ProducerState
  BY LocalState
<1>2. \A g \in Gating : prod[p].minimum <= sequence[g]
  BY DEF StoreGateCache, GateInv, MinimumBehind
<1>3. CacheBehind'
  BY <1>2 DEF StoreGateCache, CacheBehind
<1> DEFINE swap == [prod[p] EXCEPT !.pc = "cas"]
<1>4. CASE prod' = [prod EXCEPT ![p] = IdleProducer]
  <2>1. IdleProducer.pc = "idle"
    BY DEF IdleProducer
  <2>2. \A q \in Producers : MinimumBehind(q)' /\ Admitted(q)'
    BY <1>4, <2>1, GateUpdate
  <2> QED
    BY <1>3, <2>2 DEF StoreGateCache, GateInv, GatesProtected
<1>5. CASE ~(WrapPoint(p) > prod[p].minimum) /\ prod' = [prod EXCEPT ![p] = swap]
  <2>1. /\ swap.pc = "cas" /\ swap.current = prod[p].current
        /\ swap.count = prod[p].count
    BY <1>1 DEF ProducerState
  <2>2. ASSUME NEW g \in Gating
        PROVE  (prod[p].current + prod[p].count) - BufferSize <= sequence[g]
    <3>1. sequence[g] \in Int
      BY RingAssumption DEF TypeInv, TypeOK, RingTypeOK
    <3>2. /\ prod[p].current \in Int /\ prod[p].count \in Int
          /\ prod[p].minimum \in Int
      BY <1>1, RingAssumption DEF ProducerState
    <3> QED
      BY <1>2, <1>5, <3>1, <3>2, RingAssumption DEF WrapPoint, High
  <2>3. \A q \in Producers : MinimumBehind(q)' /\ Admitted(q)'
    BY <1>5, <2>1, <2>2, GateUpdate
  <2> QED
    BY <1>3, <2>3 DEF StoreGateCache, GateInv, GatesProtected
<1> QED
  BY <1>4, <1>5 DEF StoreGateCache

LEMMA CompareAndSwapGate ==
  ASSUME TypeInv, ConsumerInv, GateInv, NEW p \in Producers, CompareAndSwap(p),
         UNCHANGED sequence
  PROVE  GateInv'
<1>1. prod[p] \in ProducerState
  BY LocalState
<1>2. CASE cursor' = High(p)
           /\ prod' = [prod EXCEPT ![p].pc = "prepare", ![p].at = cursor + 1]
  <2> DEFINE st == [prod[p] EXCEPT !.pc = "prepare", !.at = cursor + 1]
  <2>1. st.pc = "prepare"
    BY <1>1 DEF ProducerState
  <2>2. \A q \in Producers : MinimumBehind(q)' /\ Admitted(q)'
    <3>1. prod' = [prod EXCEPT ![p] = st]
      BY <1>2
    <3> HIDE DEF st
    <3> QED
      BY <2>1, <3>1, GateUpdate DEF CompareAndSwap
  <2>3. GatesProtected'
    BY <1>2 DEF CompareAndSwap, GateInv, Admitted, WrapPoint, GatesProtected
  <2> QED
    BY <2>2, <2>3 DEF CompareAndSwap, GateInv, CacheBehind
<1>3. CASE UNCHANGED cursor /\ prod' = [prod EXCEPT ![p] = [IdleProducer EXCEPT
              !.pc = "sealed", !.count = prod[p].count, !.try = prod[p].try]]
  <2> DEFINE st == [IdleProducer EXCEPT !.pc = "sealed",
                      !.count = prod[p].count, !.try = prod[p].try]
  <2>1. st.pc = "sealed"
    BY DEF IdleProducer
  <2> QED
    BY <1>3, <2>1, GateIrrelevant DEF CompareAndSwap
<1> QED
  BY <1>2, <1>3 DEF CompareAndSwap

(* The other steps of a producer. *)
LEMMA OtherProducerGate ==
  ASSUME TypeInv, GateInv, NEW p \in Producers, UNCHANGED sequence,
         \/ \E count \in ClaimSizes, try \in BOOLEAN : BeginClaim(p, count, try)
         \/ CheckSealed(p) \/ LoadCursor(p) \/ WaitForCapacity(p) \/ Prepare(p)
         \/ OwnerStep(p)
  PROVE  GateInv'
<1>1. prod[p] \in ProducerState /\ IdleProducer.pc = "idle"
  BY LocalState DEF IdleProducer
<1>2. /\ \E st : st.pc \notin {"gates", "cas"} /\ prod' = [prod EXCEPT ![p] = st]
      /\ UNCHANGED <<cursor, gateCache>>
  <2>1. CASE \E count \in ClaimSizes, try \in BOOLEAN : BeginClaim(p, count, try)
    <3>1. PICK count \in ClaimSizes, try \in BOOLEAN : BeginClaim(p, count, try)
      BY <2>1
    <3> DEFINE st == [prod[p] EXCEPT !.pc = "cursor", !.count = count, !.try = try]
    <3>2. st.pc = "cursor"
      BY <1>1 DEF ProducerState
    <3>3. prod' = [prod EXCEPT ![p] = st] /\ UNCHANGED <<cursor, gateCache>>
      BY <3>1 DEF BeginClaim
    <3> QED
      BY <3>2, <3>3
  <2>2. CASE CheckSealed(p)
    BY <1>1, <2>2 DEF CheckSealed, ProducerState
  <2>3. CASE LoadCursor(p)
    BY <1>1, <2>3 DEF LoadCursor, ProducerState
  <2>4. CASE WaitForCapacity(p)
    <3>1. [IdleProducer EXCEPT !.pc = "sealed", !.count = prod[p].count].pc = "sealed"
      BY DEF IdleProducer
    <3> QED
      BY <1>1, <2>4, <3>1 DEF WaitForCapacity
  <2>5. CASE Prepare(p)
    BY <1>1, <2>5 DEF Prepare, ProducerState
  <2>6. CASE Translate(p) \/ FailTranslation(p)
    BY <1>1, <2>6 DEF Translate, FailTranslation, ProducerState
  <2>7. CASE \E low, high \in Sequences, as \in {Published, Discarded} :
               BeginResolve(p, low, high, as)
    <3>1. PICK low, high \in Sequences, as \in {Published, Discarded} :
            BeginResolve(p, low, high, as)
      BY <2>7
    <3> DEFINE st == [prod[p] EXCEPT !.pc = "resolve", !.low = low,
                                     !.high = high, !.as = as]
    <3>2. st.pc = "resolve"
      BY <1>1 DEF ProducerState
    <3>3. prod' = [prod EXCEPT ![p] = st] /\ UNCHANGED <<cursor, gateCache>>
      BY <3>1 DEF BeginResolve
    <3> QED
      BY <3>2, <3>3
  <2>8. CASE Resolve(p)
    <3> DEFINE rest == prod[p].todo \ {prod[p].low}
               next == [prod[p] EXCEPT !.low = prod[p].low + 1, !.todo = rest]
               own == [prod[p] EXCEPT !.pc = "owned", !.todo = rest, !.low = 0,
                                      !.high = 0, !.as = Published]
    <3>1. next.pc = "resolve" /\ own.pc = "owned"
      BY <1>1, <2>8 DEF Resolve, ProducerState
    <3>2. \E st \in {next, own, IdleProducer} : prod' = [prod EXCEPT ![p] = st]
      BY <2>8 DEF Resolve
    <3> QED
      BY <1>1, <2>8, <3>1, <3>2 DEF Resolve
  <2> QED
    BY <2>1, <2>2, <2>3, <2>4, <2>5, <2>6, <2>7, <2>8 DEF OwnerStep
<1> QED
  BY <1>2, GateIrrelevant

(* Consumers only move their positions forward. *)
LEMMA ConsumerStepGate ==
  ASSUME TypeInv, TypeInv', GateInv, PositionsAdvance, UNCHANGED producerVars
  PROVE  GateInv'
<1>1. \A g \in Gating : /\ sequence[g] \in Int /\ sequence'[g] \in Int
                        /\ sequence[g] <= sequence'[g]
  BY RingAssumption DEF TypeInv, TypeOK, RingTypeOK, PositionsAdvance
<1>2. cursor \in Int /\ gateCache \in Int
  BY RingAssumption DEF TypeInv, TypeOK, RingTypeOK
<1>3. GatesProtected'
  BY <1>1, <1>2, RingAssumption DEF GateInv, GatesProtected, producerVars
<1>4. CacheBehind'
  BY <1>1, <1>2 DEF GateInv, CacheBehind, producerVars
<1>5. ASSUME NEW p \in Producers
      PROVE  MinimumBehind(p)' /\ Admitted(p)'
  <2>1. prod[p].minimum \in Int /\ WrapPoint(p) \in Int
    BY LocalState, RingAssumption DEF ProducerState, WrapPoint, High
  <2>2. MinimumBehind(p)'
    BY <1>1, <2>1 DEF GateInv, MinimumBehind, producerVars
  <2>3. Admitted(p)'
    BY <1>1, <2>1 DEF GateInv, Admitted, WrapPoint, High, producerVars
  <2> QED
    BY <2>2, <2>3
<1> QED
  BY <1>3, <1>4, <1>5 DEF GateInv

(* Steps that touch nothing GateInv is about. *)
LEMMA GateFrame ==
  ASSUME GateInv, UNCHANGED <<cursor, gateCache, prod, sequence>>
  PROVE  GateInv'
BY DEF GateInv, GatesProtected, CacheBehind, MinimumBehind, Admitted,
       WrapPoint, High

LEMMA SafetyStep ==
  ASSUME SafetyInv, [Next]_vars
  PROVE  SafetyInv'
<1>1. TypeInv' /\ ConsumerInv'
  BY TypeStep DEF SafetyInv
<1> USE DEF SafetyInv
<1>2. CASE \E p \in Producers : ProducerStep(p) /\ UNCHANGED consumerVars
  <2>1. PICK p \in Producers : ProducerStep(p) /\ UNCHANGED consumerVars
    BY <1>2
  <2>2. UNCHANGED sequence
    BY <2>1 DEF consumerVars
  <2> QED
    BY <1>1, <2>1, <2>2, LoadGateCacheGate, LoadGateGate, StoreGateCacheGate,
       CompareAndSwapGate, OtherProducerGate
    DEF ProducerStep, ClaimStep
<1>3. CASE \E s \in Sequences, as \in {Published, Discarded} :
             ResolveAgain(s, as) /\ UNCHANGED consumerVars
  BY <1>1, <1>3, GateFrame DEF ResolveAgain, consumerVars
<1>4. CASE /\ Seal \/ CloseRing
           /\ UNCHANGED <<gateCache, available, prod, consumerVars>>
  BY <1>1, <1>4, GateFrame DEF Seal, CloseRing, consumerVars
<1>5. CASE \E c \in Consumers : ConsumerStep(c) /\ UNCHANGED producerVars
  BY <1>1, <1>5, ConsumerStepType, ConsumerStepGate
<1>6. CASE UNCHANGED vars
  BY <1>1, <1>6, GateFrame DEF vars, producerVars, consumerVars
<1> QED
  BY <1>2, <1>3, <1>4, <1>5, <1>6 DEF Next

(***************************************************************************)
(* No claim ever laps a gate: whatever the number of producers that race   *)
(* in Next and TryNext, the stale cursors and gates they act on, and the   *)
(* order in which minimumSequence meets gates that advance meanwhile, the  *)
(* cursor stays within BufferSize of every gating sequence.                *)
(***************************************************************************)
THEOREM GatesAreProtected == Spec => []GatesProtected
<1>1. Init => SafetyInv
  BY TypeInit, ConsumerInit, GateInit DEF Init, SafetyInv
<1>2. SafetyInv /\ [Next]_vars => SafetyInv'
  BY SafetyStep
<1>3. SafetyInv => GatesProtected
  BY DEF SafetyInv, GateInv
<1> QED
  BY <1>1, <1>2, <1>3, PTL DEF Spec
=============================================================================
