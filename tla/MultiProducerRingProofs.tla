----------------------- MODULE MultiProducerRingProofs -----------------------
(***************************************************************************)
(* What the multi-producer ring holds, for every number of producers and   *)
(* consumers, every buffer size and every topology: claims do not overlap, *)
(* publication words tell the truth about the last lap, and slots belong   *)
(* to one user at a time.                                                  *)
(*                                                                         *)
(* Two hypotheses.  Some consumer is attached: a ring without gates never  *)
(* holds a producer back.  And either no sequence is resolved twice or the *)
(* laps fit a publication word: a repeated call about a sequence WordLaps  *)
(* laps behind would be taken for one about the current lap, which 64-bit  *)
(* sequences with their 2^62 laps do not reach.                            *)
(***************************************************************************)
EXTENDS MultiProducerProofs

Attached == Consumers # {}

WordsDistinct ==
  "ResolveAgain" \in Calls => MaxSequence < WordLaps * BufferSize

Claimed(st) == st.pc \in {"prepare", "owned", "resolve"}
Top(st) == st.current + st.count

(* What a claim has not resolved, not prepared and not written yet. *)
Holds(st, s) ==
  \/ st.pc = "prepare" /\ st.current < s /\ s <= Top(st)
  \/ st.pc \in {"owned", "resolve"} /\ s \in st.todo

Blank(st, s) == st.pc = "prepare" /\ st.at <= s /\ s <= Top(st)

Stale(st, s) ==
  \/ st.pc = "prepare" /\ st.current < s /\ s <= Top(st)
  \/ st.pc \in {"owned", "resolve"} /\ st.at <= s /\ s <= Top(st)

(* The local state of a claim, below the cursor cur with the flag disc. *)
ClaimOK(st, cur, disc) ==
  /\ st.pc # "idle" => st.count >= 1
  /\ Claimed(st) => Top(st) <= cur /\ st.current < st.at
  /\ st.pc = "prepare" => st.at <= Top(st)
  /\ st.pc \in {"owned", "resolve"} =>
       /\ st.at <= Top(st) + 1
       /\ \A s \in st.todo : st.current < s /\ s <= Top(st)
       /\ \A s \in Sequences : st.at <= s /\ s <= Top(st) => s \in st.todo
  /\ st.pc = "resolve" =>
       /\ st.low <= st.high /\ st.high < st.at
       /\ \A s \in Sequences : st.low <= s /\ s <= st.high => s \in st.todo
       /\ st.as = Discarded => disc

Apart(st, other) ==
  Claimed(st) /\ Claimed(other) =>
    Top(st) <= other.current \/ Top(other) <= st.current

(* Claims are well formed and do not overlap. *)
ClaimInv ==
  /\ \A p \in Producers : ClaimOK(prod[p], cursor, hasDiscards)
  /\ \A p, q \in Producers : p # q => Apart(prod[p], prod[q])

(* Nothing is resolved before its owner resolves it. *)
OutcomeInv ==
  /\ \A p \in Producers : \A s \in Sequences :
       Holds(prod[p], s) => outcome[s] = Unresolved
  /\ \A s \in Sequences : cursor < s => outcome[s] = Unresolved

(* The sequences of the last lap below the cursor, one for each slot. *)
InLap(s) == cursor - BufferSize < s /\ s <= cursor

(***************************************************************************)
(* A prepared slot holds the outcome of its sequence.  One that was        *)
(* claimed and not prepared shows a resolved word of the lap before, which *)
(* is neither a resolution of the new lap nor open to one.                 *)
(***************************************************************************)
WordOK(s) ==
  LET word == available[Index(s)]
  IN IF \E p \in Producers : Blank(prod[p], s)
     THEN /\ word % 4 # Unresolved
          /\ word # publicationValue(flag(s), Published)
          /\ word # publicationValue(flag(s), Discarded)
     ELSE word = publicationValue(flag(s), outcome[s])

WordInv ==
  /\ \A s \in Sequences : InLap(s) => WordOK(s)
  /\ \A i \in Slots : cursor < i => available[i] = 4 * WordLaps - 1

(* A slot of the last lap holds its event once the owner has written it. *)
EntryInv ==
  \A s \in Sequences :
    /\ InLap(s) /\ s \notin untranslated
    /\ \A p \in Producers : ~Stale(prod[p], s)
    => entries[Index(s)] = s

RingInv == ClaimInv /\ OutcomeInv /\ WordInv /\ EntryInv

Inv == SafetyInv /\ RingInv /\ DeliveryInv

(* What happens while nobody resolves a sequence twice. *)
OrdinaryNext ==
  \/ \E p \in Producers : ProducerStep(p) /\ UNCHANGED consumerVars
  \/ /\ Seal \/ CloseRing
     /\ UNCHANGED <<gateCache, available, prod, consumerVars>>
  \/ \E c \in Consumers : ConsumerStep(c) /\ UNCHANGED producerVars

USE DEF InitialSequence, Unresolved, Published, Discarded, Resolutions,
        Sequences, Positions

-----------------------------------------------------------------------------
(* Publication words: the lap modulo WordLaps and, in two bits, the state. *)
LEMMA WordForm ==
  ASSUME NEW lap \in Int, NEW state \in 0 .. 3
  PROVE  /\ publicationValue(lap, state) = 4 * (lap % WordLaps) + state
         /\ lap % WordLaps \in 0 .. WordLaps - 1
<1> DEFINE q == lap \div WordLaps
           r == lap % WordLaps
           m == 4 * lap + state
           n == 4 * WordLaps
<1>1. WordLaps \in Nat \ {0} /\ n \in Nat \ {0} /\ m \in Int
  BY ProducerAssumption
<1>2. q \in Int /\ r \in 0 .. WordLaps - 1 /\ lap = WordLaps * q + r
  BY <1>1, Division
<1>3. m \div n \in Int /\ m % n \in 0 .. n - 1 /\ m = n * (m \div n) + (m % n)
  <2> HIDE DEF m, n
  <2>1. /\ m \div n \in Int /\ m % n \in Int /\ 0 <= m % n /\ m % n < n
        /\ m = n * (m \div n) + (m % n)
    BY <1>1, Division
  <2> QED
    BY <1>1, <2>1
<1>4. 4 * r + state \in 0 .. n - 1
  BY <1>1, <1>2
<1>5. m = n * q + (4 * r + state)
  <2>1. n * q = 4 * (WordLaps * q) /\ WordLaps * q \in Int
    BY <1>1, <1>2
  <2> QED
    BY <1>1, <1>2, <2>1
<1> HIDE DEF q, r, m, n
<1>6. m % n = 4 * r + state
  <2> DEFINE x == m \div n
             t == m % n
  <2>1. x \in Int /\ t \in 0 .. n - 1 /\ n * x + t = n * q + (4 * r + state)
    BY <1>3, <1>5
  <2> HIDE DEF x, t
  <2>2. t = 4 * r + state
    BY <1>1, <1>2, <1>4, <2>1, DivisionUnique
  <2> QED
    BY <2>2 DEF t
<1> QED
  BY <1>2, <1>6 DEF publicationValue, q, r, m, n

LEMMA WordState ==
  ASSUME NEW lap \in Int, NEW state \in 0 .. 3
  PROVE  publicationValue(lap, state) % 4 = state
<1>1. PICK r \in 0 .. WordLaps - 1 : publicationValue(lap, state) = 4 * r + state
  BY WordForm
<1>2. r \in Int
  BY <1>1, ProducerAssumption
<1> QED
  BY <1>1, <1>2

LEMMA WordDiffers ==
  ASSUME NEW lap \in Int, NEW other \in Int, lap < other, other < lap + WordLaps,
         NEW state \in 0 .. 3, NEW state2 \in 0 .. 3
  PROVE  publicationValue(lap, state) # publicationValue(other, state2)
<1>1. lap % WordLaps # other % WordLaps
  BY NearDiffer, ProducerAssumption
<1>2. PICK r \in 0 .. WordLaps - 1 :
        r = lap % WordLaps /\ publicationValue(lap, state) = 4 * r + state
  BY WordForm
<1>3. PICK t \in 0 .. WordLaps - 1 :
        t = other % WordLaps /\ publicationValue(other, state2) = 4 * t + state2
  BY WordForm
<1>4. r # t /\ r \in Int /\ t \in Int
  BY <1>1, <1>2, <1>3, ProducerAssumption
<1> QED
  BY <1>2, <1>3, <1>4

LEMMA FreshWord ==
  (4 * WordLaps - 1) % 4 = 3
BY ProducerAssumption

(* Laps of sequences. *)
LEMMA LapFacts ==
  ASSUME NEW s \in Nat
  PROVE  flag(s) \in Nat /\ Index(s) <= s /\ Index(s) \in Slots
<1>1. BufferSize \in Nat \ {0}
  BY RingAssumption
<1> DEFINE q == s \div BufferSize
           r == s % BufferSize
<1>2. q \in Int /\ r \in Int /\ 0 <= r /\ r < BufferSize /\ s = BufferSize * q + r
  BY <1>1, Division
<1>3. q >= 0
  <2> SUFFICES ASSUME q < 0 PROVE FALSE
    BY <1>2
  <2>1. BufferSize * q + BufferSize <= BufferSize * 0 /\ BufferSize * q \in Int
    BY <1>1, <1>2, Multiples
  <2> QED
    BY <1>1, <1>2, <2>1
<1>4. BufferSize * q >= 0
  BY <1>1, <1>2, <1>3
<1> QED
  BY <1>1, <1>2, <1>3, <1>4 DEF flag, Index, Slots

LEMMA LapBefore ==
  ASSUME NEW s \in Int
  PROVE  flag(s) = flag(s - BufferSize) + 1 /\ Index(s) = Index(s - BufferSize)
<1>1. BufferSize \in Nat \ {0} /\ s - BufferSize \in Int
      /\ (s - BufferSize) + BufferSize = s
  BY RingAssumption
<1> QED
  BY <1>1, NextLap DEF flag, Index

-----------------------------------------------------------------------------
(* What the invariant says of one producer. *)
LEMMA ClaimNumbers ==
  ASSUME TypeInv, NEW p \in Producers
  PROVE  /\ prod[p] \in ProducerState
         /\ prod[p].current \in Int /\ -1 <= prod[p].current
         /\ prod[p].count \in Int /\ 0 <= prod[p].count
         /\ prod[p].count <= BufferSize /\ Top(prod[p]) \in Int
         /\ prod[p].at \in Int /\ 0 <= prod[p].at
         /\ prod[p].todo \subseteq Sequences
         /\ prod[p].low \in Sequences /\ prod[p].high \in Sequences
         /\ prod[p].as \in {Published, Discarded}
         /\ High(p) = Top(prod[p])
         /\ HasHigh(p) => Top(prod[p]) <= MaxSequence
BY LocalState, RingAssumption
DEF ProducerState, Top, High, TypeInv, ClaimBound

LEMMA RingNumbers ==
  ASSUME TypeInv
  PROVE  /\ cursor \in Int /\ -1 <= cursor /\ cursor <= MaxSequence
         /\ BufferSize \in Nat \ {0} /\ BufferSize \in Int
         /\ cursor - BufferSize \in Int
         /\ outcome \in [Sequences -> Resolutions] /\ hasDiscards \in BOOLEAN
         /\ entries \in [Slots -> Positions] /\ available \in [Slots -> Words]
         /\ untranslated \subseteq Sequences
BY RingAssumption DEF TypeInv, TypeOK, RingTypeOK

LEMMA RingTypesHold ==
  ASSUME TypeInv
  PROVE  RingTypes
BY DEF TypeInv, TypeOK, RingTypeOK, RingTypes

(* What a batch may ask about lies in the last lap. *)
LEMMA PositionInLap ==
  ASSUME SafetyInv, DeliveryInv, NEW c \in Consumers
  PROVE  cursor - BufferSize <= sequence[c]
<1>1. cursor - BufferSize \in Int
  BY RingNumbers DEF SafetyInv
<1> QED
  BY <1>1, GatesBoundEveryone DEF SafetyInv, GateInv, GatesProtected

(***************************************************************************)
(* What is claimed and unresolved lies in the last lap as well: below it   *)
(* every consumer has passed, and consumers do not pass gaps.              *)
(***************************************************************************)
LEMMA UnresolvedInLap ==
  ASSUME Attached, SafetyInv, DeliveryInv, NEW s \in Sequences,
         s <= cursor, outcome[s] = Unresolved
  PROVE  InLap(s)
<1>1. PICK c \in Consumers : TRUE
  BY DEF Attached
<1>2. cursor - BufferSize <= sequence[c] /\ sequence[c] \in Int
  BY PositionInLap, Numbers DEF SafetyInv
<1>3. ~(s <= sequence[c])
  BY DEF DeliveryInv, RunOK, Trails, Resolved
<1>4. cursor - BufferSize \in Int
  BY RingNumbers DEF SafetyInv
<1> QED
  BY <1>2, <1>3, <1>4, RingAssumption DEF InLap

LEMMA OwnedFacts ==
  ASSUME Attached, Inv, NEW p \in Producers, NEW s \in Sequences,
         Holds(prod[p], s)
  PROVE  InLap(s) /\ outcome[s] = Unresolved /\ s <= cursor /\ s <= Top(prod[p])
         /\ prod[p].current < s
<1>1. outcome[s] = Unresolved
  BY DEF Inv, RingInv, OutcomeInv
<1>2. ClaimOK(prod[p], cursor, hasDiscards)
  BY DEF Inv, RingInv, ClaimInv
<1>3. prod[p].current < s /\ s <= Top(prod[p]) /\ Top(prod[p]) <= cursor
  BY <1>2 DEF ClaimOK, Holds, Claimed
<1>4. s <= cursor
  BY <1>3, ClaimNumbers, RingNumbers, RingAssumption DEF Inv, SafetyInv
<1> QED
  BY <1>1, <1>3, <1>4, UnresolvedInLap DEF Inv

(* Two sequences of the last lap have different slots. *)
LEMMA LapSlots ==
  ASSUME TypeInv, NEW s \in Int, NEW t \in Int, InLap(s), InLap(t), s # t
  PROVE  Index(s) # Index(t)
<1>1. cursor \in Int /\ BufferSize \in Int
  BY RingNumbers
<1>2. CASE s < t
  BY <1>1, <1>2, SameSlot DEF InLap
<1>3. CASE t < s
  BY <1>1, <1>3, SameSlot DEF InLap
<1> QED
  BY <1>2, <1>3

(* Blank and stale sequences are held. *)
LEMMA BlankHeld ==
  ASSUME TypeInv, RingInv, NEW p \in Producers, NEW s \in Sequences,
         Blank(prod[p], s) \/ Stale(prod[p], s)
  PROVE  Holds(prod[p], s)
<1>1. ClaimOK(prod[p], cursor, hasDiscards)
  BY DEF RingInv, ClaimInv
<1>2. prod[p].current \in Int /\ prod[p].at \in Int
  BY ClaimNumbers
<1> QED
  BY <1>1, <1>2, RingAssumption DEF ClaimOK, Holds, Blank, Stale, Claimed

(* HighestPublished and IsDiscarded tell the truth about the last lap. *)
LEMMA WordsAnswer ==
  ASSUME TypeInv, RingInv, NEW s \in Sequences, InLap(s)
  PROVE  resolution(s) = outcome[s]
<1>1. WordOK(s) /\ outcome[s] \in {0, 1, 2} /\ flag(s) \in Int
  BY RingNumbers, LapFacts, RingAssumption DEF RingInv, WordInv
<1>2. CASE \E p \in Producers : Blank(prod[p], s)
  <2>1. outcome[s] = Unresolved
    BY <1>2, BlankHeld DEF RingInv, OutcomeInv
  <2> QED
    BY <1>1, <1>2, <2>1 DEF WordOK, resolution
<1>3. CASE ~\E p \in Producers : Blank(prod[p], s)
  <2>1. available[Index(s)] = publicationValue(flag(s), outcome[s])
    BY <1>1, <1>3 DEF WordOK
  <2>2. /\ publicationValue(flag(s), 0) % 4 = 0
        /\ publicationValue(flag(s), 1) % 4 = 1
        /\ publicationValue(flag(s), 2) % 4 = 2
    BY <1>1, WordState
  <2>3. CASE outcome[s] = 0
    BY <2>1, <2>2, <2>3 DEF resolution
  <2>4. CASE outcome[s] = 1
    BY <2>1, <2>2, <2>4 DEF resolution
  <2>5. CASE outcome[s] = 2
    BY <2>1, <2>2, <2>5 DEF resolution
  <2> QED
    BY <1>1, <2>3, <2>4, <2>5
<1> QED
  BY <1>2, <1>3

-----------------------------------------------------------------------------
LEMMA RingInitial == Init => RingInv
<1> SUFFICES ASSUME Init PROVE RingInv
  OBVIOUS
<1>1. /\ \A p \in Producers : prod[p].pc = "idle"
      /\ \A s \in Sequences : outcome[s] = Unresolved
      /\ cursor = -1 /\ \A i \in Slots : available[i] = 4 * WordLaps - 1
  BY DEF Init, RingInit, IdleProducer
<1>2. ClaimInv
  BY <1>1 DEF ClaimInv, ClaimOK, Apart, Claimed
<1>3. OutcomeInv
  BY <1>1 DEF OutcomeInv
<1>4. \A s \in Sequences : ~InLap(s)
  BY <1>1, RingAssumption DEF InLap
<1> QED
  BY <1>1, <1>2, <1>3, <1>4 DEF RingInv, WordInv, EntryInv

(* What a step of p has to establish about its claim; only a swap makes    *)
(* a new one.                                                              *)
LEMMA ClaimsUpdate ==
  ASSUME TypeInv, ClaimInv, NEW p \in Producers, NEW st,
         prod' = [prod EXCEPT ![p] = st], cursor' = cursor,
         hasDiscards' = hasDiscards \/ hasDiscards' = TRUE,
         ClaimOK(st, cursor, hasDiscards'),
         Claimed(st) => /\ Claimed(prod[p]) /\ st.current = prod[p].current
                        /\ st.count = prod[p].count
  PROVE  ClaimInv'
<1>1. /\ prod'[p] = st
      /\ \A q \in Producers : q # p => prod'[q] = prod[q]
  BY DEF TypeInv, TypeOK
<1>2. ASSUME NEW q \in Producers PROVE ClaimOK(prod'[q], cursor', hasDiscards')
  <2>1. CASE q = p
    BY <1>1, <2>1
  <2>2. CASE q # p
    BY <1>1, <2>2 DEF ClaimInv, ClaimOK
  <2> QED
    BY <2>1, <2>2
<1>3. ASSUME NEW q \in Producers, NEW r \in Producers, q # r
      PROVE  Apart(prod'[q], prod'[r])
  <2>1. Apart(prod[q], prod[r])
    BY <1>3 DEF ClaimInv
  <2>2. CASE q = p
    BY <1>1, <1>3, <2>1, <2>2 DEF Apart, Top
  <2>3. CASE r = p
    BY <1>1, <1>3, <2>1, <2>3 DEF Apart, Top
  <2>4. CASE q # p /\ r # p
    BY <1>1, <2>1, <2>4
  <2> QED
    BY <2>2, <2>3, <2>4
<1> QED
  BY <1>2, <1>3 DEF ClaimInv

(* The two states of a producer stand for the same claim, or for none. *)
SameClaim(st, old) ==
  \/ ~Claimed(st) /\ ~Claimed(old)
  \/ /\ {st.pc, old.pc} \subseteq {"owned", "resolve"}
     /\ st.current = old.current /\ st.count = old.count
     /\ st.at = old.at /\ st.todo = old.todo

LEMMA QuietStep ==
  ASSUME TypeInv, RingInv, NEW p \in Producers, NEW st,
         prod' = [prod EXCEPT ![p] = st], SameClaim(st, prod[p]),
         hasDiscards' = hasDiscards \/ hasDiscards' = TRUE,
         ClaimOK(st, cursor, hasDiscards'),
         UNCHANGED <<cursor, outcome, available, entries, untranslated>>
  PROVE  RingInv'
<1>1. ClaimInv'
  BY ClaimsUpdate DEF RingInv, SameClaim, Claimed
<1>2. ASSUME NEW q \in Producers, NEW s
      PROVE  /\ Holds(prod'[q], s) <=> Holds(prod[q], s)
             /\ Blank(prod'[q], s) <=> Blank(prod[q], s)
             /\ Stale(prod'[q], s) <=> Stale(prod[q], s)
  <2>1. CASE q # p
    BY <2>1 DEF TypeInv, TypeOK
  <2>2. CASE q = p
    <3>1. prod'[q] = st
      BY <2>2 DEF TypeInv, TypeOK
    <3> QED
      BY <2>2, <3>1 DEF SameClaim, Holds, Blank, Stale, Claimed, Top
  <2> QED
    BY <2>1, <2>2
<1>3. OutcomeInv'
  BY <1>2 DEF RingInv, OutcomeInv
<1>4. WordInv'
  BY <1>2 DEF RingInv, WordInv, WordOK, InLap
<1>5. EntryInv'
  BY <1>2 DEF RingInv, EntryInv, InLap
<1> QED
  BY <1>1, <1>3, <1>4, <1>5 DEF RingInv

(* The steps of a claim up to the swap, and a swap that fails. *)
LEMMA UnclaimedStep ==
  ASSUME TypeInv, RingInv, NEW p \in Producers,
         NEW st, ~Claimed(st), st.pc # "idle" => st.count >= 1,
         prod' = [prod EXCEPT ![p] = st], ~Claimed(prod[p]),
         UNCHANGED <<cursor, ringVars, available>>
  PROVE  RingInv' /\ UNCHANGED <<cursor, outcome, hasDiscards>>
<1>1. ClaimOK(st, cursor, hasDiscards)
  BY DEF ClaimOK, Claimed
<1>2. UNCHANGED <<outcome, available, entries, untranslated, hasDiscards>>
  BY DEF ringVars
<1>3. SameClaim(st, prod[p])
  BY DEF SameClaim
<1> QED
  BY <1>1, <1>2, <1>3, QuietStep

LEMMA BeginClaimRing ==
  ASSUME TypeInv, RingInv, NEW p \in Producers, NEW count \in ClaimSizes,
         NEW try \in BOOLEAN, BeginClaim(p, count, try)
  PROVE  RingInv' /\ UNCHANGED <<cursor, outcome, hasDiscards>>
<1> DEFINE st == [prod[p] EXCEPT !.pc = "cursor", !.count = count, !.try = try]
<1>1. st.pc = "cursor" /\ st.count = count
  BY LocalState DEF ProducerState
<1>2. count >= 1
  BY ProducerAssumption, RingAssumption
<1>3. /\ prod' = [prod EXCEPT ![p] = st] /\ prod[p].pc = "idle"
      /\ UNCHANGED <<cursor, ringVars, available>>
  BY DEF BeginClaim
<1> HIDE DEF st
<1> QED
  BY <1>1, <1>2, <1>3, UnclaimedStep DEF Claimed

LEMMA ClaimLoopRing ==
  ASSUME TypeInv, RingInv, NEW p \in Producers,
         \/ CheckSealed(p) \/ LoadCursor(p) \/ LoadGateCache(p)
         \/ \E g \in Gating : LoadGate(p, g)
         \/ WaitForCapacity(p) \/ StoreGateCache(p)
         \/ CompareAndSwap(p) /\ cursor # prod[p].current
  PROVE  RingInv' /\ UNCHANGED <<cursor, outcome, hasDiscards>>
<1>1. /\ prod[p] \in ProducerState /\ ~Claimed(prod[p]) /\ prod[p].pc # "idle"
      /\ IdleProducer.pc = "idle"
  BY LocalState
  DEF CheckSealed, LoadCursor, LoadGateCache, LoadGate, WaitForCapacity,
      StoreGateCache, CompareAndSwap, Claimed, IdleProducer
<1>2. prod[p].count >= 1
  BY <1>1 DEF RingInv, ClaimInv, ClaimOK
<1>3. UNCHANGED <<cursor, ringVars, available>>
  BY DEF CheckSealed, LoadCursor, LoadGateCache, LoadGate, WaitForCapacity,
         StoreGateCache, CompareAndSwap
<1>4. \E st : /\ ~Claimed(st)
              /\ st.pc # "idle" => st.count >= 1
              /\ prod' = [prod EXCEPT ![p] = st]
  <2> DEFINE Good(st) == st.pc \notin {"idle", "prepare", "owned", "resolve"}
                         /\ st.count = prod[p].count
  <2>1. ASSUME NEW st, Good(st) \/ st = IdleProducer,
               prod' = [prod EXCEPT ![p] = st]
        PROVE  <1>4
    BY <1>1, <1>2, <2>1 DEF Claimed
  <2>2. CASE CheckSealed(p)
    <3>1. Good([prod[p] EXCEPT !.pc = "cursor"])
      BY <1>1 DEF ProducerState
    <3> QED
      BY <2>1, <2>2, <3>1 DEF CheckSealed
  <2>3. CASE LoadCursor(p)
    <3>1. Good([prod[p] EXCEPT !.pc = "cache", !.current = cursor])
      BY <1>1 DEF ProducerState
    <3> QED
      BY <2>1, <2>3, <3>1 DEF LoadCursor
  <2>4. CASE LoadGateCache(p)
    <3>1. /\ Good([prod[p] EXCEPT !.pc = "gates", !.unread = Gating,
                                  !.minimum = prod[p].current])
          /\ Good([prod[p] EXCEPT !.pc = "cas"])
      BY <1>1 DEF ProducerState
    <3> QED
      BY <2>1, <2>4, <3>1 DEF LoadGateCache
  <2>5. CASE \E g \in Gating : LoadGate(p, g)
    <3>1. PICK g \in Gating : LoadGate(p, g)
      BY <2>5
    <3> DEFINE minimum == IF prod[p].unread = Gating THEN sequence[g]
                          ELSE Minimum(prod[p].minimum, sequence[g])
               st == [prod[p] EXCEPT !.minimum = minimum,
                                     !.unread = prod[p].unread \ {g}]
    <3>2. Good(st)
      BY <1>1, <3>1 DEF ProducerState, LoadGate
    <3>3. prod' = [prod EXCEPT ![p] = st]
      BY <3>1 DEF LoadGate
    <3> QED
      BY <2>1, <3>2, <3>3
  <2>6. CASE WaitForCapacity(p)
    <3>1. Good([IdleProducer EXCEPT !.pc = "sealed", !.count = prod[p].count])
      BY DEF IdleProducer
    <3> QED
      BY <2>1, <2>6, <3>1 DEF WaitForCapacity
  <2>7. CASE StoreGateCache(p)
    <3>1. Good([prod[p] EXCEPT !.pc = "cas"])
      BY <1>1 DEF ProducerState
    <3> QED
      BY <2>1, <2>7, <3>1 DEF StoreGateCache
  <2>8. CASE CompareAndSwap(p) /\ cursor # prod[p].current
    <3>1. Good([IdleProducer EXCEPT !.pc = "sealed", !.count = prod[p].count,
                                    !.try = prod[p].try])
      BY DEF IdleProducer
    <3> QED
      BY <2>1, <2>8, <3>1 DEF CompareAndSwap
  <2> QED
    BY <2>2, <2>3, <2>4, <2>5, <2>6, <2>7, <2>8
<1>5. PICK st : /\ ~Claimed(st)
                /\ st.pc # "idle" => st.count >= 1
                /\ prod' = [prod EXCEPT ![p] = st]
  BY <1>4
<1> QED
  BY <1>1, <1>3, <1>5, UnclaimedStep

LEMMA BeginResolveRing ==
  ASSUME TypeInv, RingInv, NEW p \in Producers, NEW low \in Sequences,
         NEW high \in Sequences, NEW as \in {Published, Discarded},
         BeginResolve(p, low, high, as)
  PROVE  /\ RingInv' /\ UNCHANGED <<cursor, outcome>>
         /\ hasDiscards' = hasDiscards \/ hasDiscards' = TRUE
<1> DEFINE st == [prod[p] EXCEPT !.pc = "resolve", !.low = low, !.high = high,
                                 !.as = as]
<1>1. /\ st.pc = "resolve" /\ st.low = low /\ st.high = high /\ st.as = as
      /\ st.current = prod[p].current /\ st.count = prod[p].count
      /\ st.at = prod[p].at /\ st.todo = prod[p].todo
  BY LocalState DEF ProducerState
<1>2. /\ prod' = [prod EXCEPT ![p] = st] /\ prod[p].pc = "owned"
      /\ low <= high /\ low .. high \subseteq prod[p].todo /\ high < prod[p].at
      /\ UNCHANGED <<cursor, outcome, available, entries, untranslated>>
  BY DEF BeginResolve
<1>3. /\ hasDiscards' = hasDiscards \/ hasDiscards' = TRUE
      /\ as = Discarded => hasDiscards' = TRUE
  BY RingNumbers DEF BeginResolve
<1> HIDE DEF st
<1>4. SameClaim(st, prod[p])
  BY <1>1, <1>2 DEF SameClaim
<1>5. ClaimOK(prod[p], cursor, hasDiscards)
  BY DEF RingInv, ClaimInv
<1>6. \A s \in Sequences : low <= s /\ s <= high => s \in prod[p].todo
  BY <1>2, RingAssumption
<1>7. ClaimOK(st, cursor, hasDiscards')
  BY <1>1, <1>2, <1>3, <1>5, <1>6 DEF ClaimOK, Claimed, Top
<1> QED
  BY <1>2, <1>3, <1>4, <1>7, QuietStep

-----------------------------------------------------------------------------
(* Nobody else holds what p holds. *)
LEMMA OnlyHolder ==
  ASSUME TypeInv, RingInv, NEW p \in Producers, NEW q \in Producers,
         NEW s \in Sequences, Holds(prod[p], s), Holds(prod[q], s)
  PROVE  p = q
<1> SUFFICES ASSUME p # q PROVE FALSE
  OBVIOUS
<1>1. /\ ClaimOK(prod[p], cursor, hasDiscards) /\ ClaimOK(prod[q], cursor, hasDiscards)
      /\ Apart(prod[p], prod[q])
  BY DEF RingInv, ClaimInv
<1>2. /\ prod[p].current < s /\ s <= Top(prod[p]) /\ Claimed(prod[p])
      /\ prod[q].current < s /\ s <= Top(prod[q]) /\ Claimed(prod[q])
  BY <1>1 DEF ClaimOK, Holds, Claimed
<1>3. /\ prod[p].current \in Int /\ Top(prod[p]) \in Int
      /\ prod[q].current \in Int /\ Top(prod[q]) \in Int /\ s \in Int
  BY ClaimNumbers, RingAssumption
<1> QED
  BY <1>1, <1>2, <1>3 DEF Apart

(* What a step of p that stores no word has to establish. *)
LEMMA WordsKept ==
  ASSUME TypeInv, RingInv, NEW p \in Producers, NEW st,
         prod' = [prod EXCEPT ![p] = st],
         \A s \in Sequences : Holds(st, s) => Holds(prod[p], s),
         \A s \in Sequences : Blank(st, s) <=> Blank(prod[p], s),
         UNCHANGED <<cursor, outcome, available>>
  PROVE  OutcomeInv' /\ WordInv'
<1>1. /\ prod'[p] = st
      /\ \A q \in Producers : q # p => prod'[q] = prod[q]
  BY DEF TypeInv, TypeOK
<1>2. \A q \in Producers : \A s \in Sequences :
        /\ Holds(prod'[q], s) => Holds(prod[q], s)
        /\ Blank(prod'[q], s) <=> Blank(prod[q], s)
  BY <1>1
<1>3. OutcomeInv'
  BY <1>2 DEF RingInv, OutcomeInv
<1>4. WordInv'
  BY <1>2 DEF RingInv, WordInv, WordOK, InLap
<1> QED
  BY <1>3, <1>4

(* What a step that stores the word of t has to establish. *)
LEMMA WordStored ==
  ASSUME TypeInv, RingInv, NEW t \in Sequences, InLap(t), NEW word,
         available' = [available EXCEPT ![Index(t)] = word], cursor' = cursor,
         \A s \in Sequences : s # t => outcome'[s] = outcome[s],
         \A s \in Sequences : s # t =>
           \A q \in Producers : Blank(prod'[q], s) <=> Blank(prod[q], s),
         \A q \in Producers : ~Blank(prod'[q], t),
         word = publicationValue(flag(t), outcome'[t])
  PROVE  WordInv'
<1>1. /\ t \in Int /\ Index(t) \in Slots /\ Index(t) \in Int /\ Index(t) <= t
      /\ available \in [Slots -> Words] /\ cursor \in Int
      /\ \A i \in Slots : i \in Int
  BY LapFacts, RingNumbers, RingAssumption DEF Slots
<1>2. ASSUME NEW s \in Sequences, InLap(s)' PROVE WordOK(s)'
  <2>1. CASE s = t
    BY <1>1, <2>1 DEF WordOK
  <2>2. CASE s # t
    <3>1. InLap(s) /\ s \in Int
      BY <1>2, RingAssumption DEF InLap
    <3>2. Index(s) # Index(t)
      BY <1>1, <2>2, <3>1, LapSlots
    <3>3. available'[Index(s)] = available[Index(s)] /\ outcome'[s] = outcome[s]
      BY <1>1, <2>2, <3>1, <3>2, SlotOf
    <3>4. WordOK(s)
      BY <3>1 DEF RingInv, WordInv
    <3> QED
      BY <2>2, <3>3, <3>4 DEF WordOK
  <2> QED
    BY <2>1, <2>2
<1>3. ASSUME NEW i \in Slots, cursor' < i PROVE available'[i] = 4 * WordLaps - 1
  <2>1. i # Index(t)
    BY <1>1, <1>3 DEF InLap
  <2> QED
    BY <1>1, <1>3, <2>1 DEF RingInv, WordInv
<1> QED
  BY <1>2, <1>3 DEF WordInv

LEMMA TranslateRing ==
  ASSUME Attached, Inv, NEW p \in Producers, Translate(p)
  PROVE  RingInv' /\ UNCHANGED <<cursor, outcome, hasDiscards>>
<1> DEFINE at == prod[p].at
           st == [prod[p] EXCEPT !.at = at + 1]
<1>1. TypeInv /\ RingInv
  BY DEF Inv, SafetyInv
<1>2. /\ prod[p].pc = "owned" /\ at <= Top(prod[p])
      /\ prod' = [prod EXCEPT ![p] = st]
      /\ entries' = [entries EXCEPT ![Index(at)] = at]
      /\ UNCHANGED <<cursor, outcome, available, hasDiscards, untranslated>>
  BY DEF Translate, High, Top
<1>3. /\ st.pc = prod[p].pc /\ st.current = prod[p].current
      /\ st.count = prod[p].count /\ st.at = at + 1 /\ st.todo = prod[p].todo
  BY <1>1, ClaimNumbers DEF ProducerState
<1>4. /\ at \in Int /\ 0 <= at /\ Top(prod[p]) \in Int /\ prod[p].current \in Int
      /\ Top(prod[p]) <= MaxSequence /\ MaxSequence \in Int /\ Top(st) = Top(prod[p])
  BY <1>1, <1>2, <1>3, ClaimNumbers, RingAssumption DEF HasHigh, Top
<1> HIDE DEF st, at
<1>5. ClaimOK(prod[p], cursor, hasDiscards)
  BY <1>1 DEF RingInv, ClaimInv
<1>6. at \in Sequences /\ at \in prod[p].todo
  BY <1>2, <1>4, <1>5 DEF ClaimOK, at
<1>7. InLap(at)
  BY <1>2, <1>6, OwnedFacts DEF Holds
<1>8. ClaimOK(st, cursor, hasDiscards)
  <2>1. prod[p].current < at + 1 /\ at + 1 <= Top(prod[p]) + 1
    BY <1>2, <1>4, <1>5 DEF ClaimOK, Claimed, at
  <2>2. \A s \in Sequences : at + 1 <= s => at <= s
    BY <1>4
  <2> QED
    BY <1>2, <1>3, <1>4, <1>5, <2>1, <2>2 DEF ClaimOK, Claimed, at
<1>9. ClaimInv'
  BY <1>1, <1>2, <1>3, <1>8, ClaimsUpdate DEF RingInv, Claimed
<1>10. OutcomeInv' /\ WordInv'
  BY <1>1, <1>2, <1>3, WordsKept DEF Holds, Blank
<1>11. EntryInv'
  <2> SUFFICES ASSUME NEW s \in Sequences, InLap(s)', s \notin untranslated',
                      \A q \in Producers : ~Stale(prod'[q], s)
               PROVE  entries'[Index(s)] = s
    BY DEF EntryInv
  <2>1. InLap(s) /\ s \notin untranslated /\ s \in Int
    BY <1>2, RingAssumption DEF InLap
  <2>2. entries \in [Slots -> Positions] /\ Index(s) \in Slots /\ Index(at) \in Slots
    BY <1>1, <1>4, <2>1, RingNumbers, SlotOf
  <2>3. CASE s = at
    BY <1>2, <2>2, <2>3
  <2>4. CASE s # at
    <3>1. ASSUME NEW q \in Producers PROVE ~Stale(prod[q], s)
      <4>1. CASE q # p
        BY <1>1, <1>2, <4>1 DEF TypeInv, TypeOK
      <4>2. CASE q = p
        <5>1. ~Stale(st, s)
          BY <1>1, <1>2 DEF TypeInv, TypeOK
        <5>2. at <= s => at + 1 <= s
          BY <1>4, <2>1, <2>4
        <5> QED
          BY <1>2, <1>3, <1>4, <4>2, <5>1, <5>2 DEF Stale, at
      <4> QED
        BY <4>1, <4>2
    <3>2. entries[Index(s)] = s
      BY <1>1, <2>1, <3>1 DEF RingInv, EntryInv
    <3>3. Index(s) # Index(at)
      BY <1>1, <1>4, <1>7, <2>1, <2>4, LapSlots
    <3> QED
      BY <1>2, <2>2, <3>2, <3>3
  <2> QED
    BY <2>3, <2>4
<1> QED
  BY <1>2, <1>9, <1>10, <1>11 DEF RingInv

LEMMA FailTranslationRing ==
  ASSUME TypeInv, RingInv, NEW p \in Producers, FailTranslation(p)
  PROVE  RingInv' /\ UNCHANGED <<cursor, outcome, hasDiscards>>
<1> DEFINE at == prod[p].at
           top == Top(prod[p])
           st == [prod[p] EXCEPT !.at = top + 1]
<1>1. /\ prod[p].pc = "owned" /\ at <= top
      /\ prod' = [prod EXCEPT ![p] = st]
      /\ untranslated' = untranslated \cup (at .. top)
      /\ UNCHANGED <<cursor, outcome, available, hasDiscards, entries>>
  BY DEF FailTranslation, High, Top
<1>2. /\ st.pc = prod[p].pc /\ st.current = prod[p].current
      /\ st.count = prod[p].count /\ st.at = top + 1 /\ st.todo = prod[p].todo
  BY ClaimNumbers DEF ProducerState
<1>3. /\ at \in Int /\ top \in Int /\ prod[p].current \in Int /\ Top(st) = top
  BY <1>2, ClaimNumbers DEF Top
<1> HIDE DEF st, at, top
<1>4. ClaimOK(prod[p], cursor, hasDiscards)
  BY DEF RingInv, ClaimInv
<1>5. prod[p].current < top + 1 /\ \A s \in Sequences : ~(top + 1 <= s /\ s <= top)
  BY <1>1, <1>3, <1>4, RingAssumption DEF ClaimOK, Claimed, at
<1>6. ClaimOK(st, cursor, hasDiscards)
  BY <1>1, <1>2, <1>3, <1>4, <1>5 DEF ClaimOK, Claimed, top
<1>7. ClaimInv'
  BY <1>1, <1>2, <1>6, ClaimsUpdate DEF RingInv, Claimed
<1>8. OutcomeInv' /\ WordInv'
  BY <1>1, <1>2, WordsKept DEF Holds, Blank
<1>9. EntryInv'
  <2> SUFFICES ASSUME NEW s \in Sequences, InLap(s)', s \notin untranslated',
                      \A q \in Producers : ~Stale(prod'[q], s)
               PROVE  entries[Index(s)] = s
    BY <1>1 DEF EntryInv
  <2>1. InLap(s) /\ s \notin untranslated /\ s \notin at .. top /\ s \in Int
    BY <1>1, RingAssumption DEF InLap
  <2>2. ASSUME NEW q \in Producers PROVE ~Stale(prod[q], s)
    <3>1. CASE q # p
      BY <1>1, <3>1 DEF TypeInv, TypeOK
    <3>2. CASE q = p
      BY <1>1, <1>3, <2>1, <3>2 DEF Stale, at, top
    <3> QED
      BY <3>1, <3>2
  <2> QED
    BY <2>1, <2>2 DEF RingInv, EntryInv
<1> QED
  BY <1>1, <1>7, <1>8, <1>9 DEF RingInv

(* A claimed slot is marked unresolved in its new lap. *)
LEMMA PrepareRing ==
  ASSUME Attached, Inv, NEW p \in Producers, Prepare(p)
  PROVE  RingInv' /\ UNCHANGED <<cursor, outcome, hasDiscards>>
<1> DEFINE at == prod[p].at
           top == Top(prod[p])
           next == [prod[p] EXCEPT !.at = at + 1]
           own == [prod[p] EXCEPT !.pc = "owned", !.at = prod[p].current + 1,
                                  !.todo = prod[p].current + 1 .. top]
           st == IF at < top THEN next ELSE own
<1>1. TypeInv /\ RingInv
  BY DEF Inv, SafetyInv
<1>2. /\ prod[p].pc = "prepare" /\ prod' = [prod EXCEPT ![p] = st]
      /\ available' = [available EXCEPT
                         ![Index(at)] = publicationValue(flag(at), Unresolved)]
      /\ UNCHANGED <<cursor, outcome, entries, hasDiscards, untranslated>>
  BY DEF Prepare, High, Top, ringVars
<1>3. /\ at \in Int /\ 0 <= at /\ top \in Int /\ prod[p].current \in Int
      /\ -1 <= prod[p].current /\ top <= MaxSequence /\ MaxSequence \in Int
  BY <1>1, <1>2, ClaimNumbers, RingAssumption DEF HasHigh
<1>4. /\ st.current = prod[p].current /\ st.count = prod[p].count
      /\ at < top => st.pc = "prepare" /\ st.at = at + 1
      /\ ~(at < top) => /\ st.pc = "owned" /\ st.at = prod[p].current + 1
                        /\ st.todo = prod[p].current + 1 .. top
  <2>1. /\ next.current = prod[p].current /\ next.count = prod[p].count
        /\ next.pc = "prepare" /\ next.at = at + 1
    BY <1>1, <1>2, ClaimNumbers DEF ProducerState
  <2>2. /\ own.current = prod[p].current /\ own.count = prod[p].count
        /\ own.pc = "owned" /\ own.at = prod[p].current + 1
        /\ own.todo = prod[p].current + 1 .. top
    BY <1>1, ClaimNumbers DEF ProducerState
  <2> HIDE DEF next, own
  <2> QED
    BY <2>1, <2>2
<1>5. Top(st) = top
  BY <1>4 DEF Top
<1> HIDE DEF st, at, top
<1>6. /\ prod[p].count >= 1 /\ top <= cursor /\ prod[p].current < at /\ at <= top
  BY <1>1, <1>2 DEF RingInv, ClaimInv, ClaimOK, Claimed, at, top
<1>7. at \in Sequences /\ Holds(prod[p], at)
  BY <1>2, <1>3, <1>6 DEF Holds, top
<1>8. InLap(at) /\ outcome[at] = Unresolved
  BY <1>7, OwnedFacts
<1>9. ClaimOK(st, cursor, hasDiscards)
  <2>1. CASE at < top
    <3>1. prod[p].current < at + 1 /\ at + 1 <= top
      BY <1>3, <1>6, <2>1
    <3> QED
      BY <1>4, <1>5, <1>6, <2>1, <3>1 DEF ClaimOK, Claimed
  <2>2. CASE ~(at < top)
    <3>1. prod[p].current < prod[p].current + 1 /\ prod[p].current + 1 <= top + 1
      BY <1>3, <1>6
    <3>2. /\ \A s \in st.todo : prod[p].current < s /\ s <= top
          /\ \A s \in Sequences : prod[p].current + 1 <= s /\ s <= top => s \in st.todo
      BY <1>3, <1>4, <2>2
    <3> QED
      BY <1>4, <1>5, <1>6, <2>2, <3>1, <3>2 DEF ClaimOK, Claimed
  <2> QED
    BY <2>1, <2>2
<1>10. ClaimInv'
  BY <1>1, <1>2, <1>4, <1>9, ClaimsUpdate DEF RingInv, Claimed
<1>11. /\ prod'[p] = st
       /\ \A q \in Producers : q # p => prod'[q] = prod[q]
  BY <1>1, <1>2 DEF TypeInv, TypeOK
<1>12. ASSUME NEW s \in Sequences
       PROVE  /\ Holds(st, s) <=> Holds(prod[p], s)
              /\ Stale(st, s) <=> Stale(prod[p], s)
              /\ Blank(st, s) <=> Blank(prod[p], s) /\ s # at
  <2>1. s \in Int /\ (prod[p].current < s <=> prod[p].current + 1 <= s)
        /\ (at <= s /\ s # at <=> at + 1 <= s)
    BY <1>3, RingAssumption
  <2>2. CASE at < top
    BY <1>2, <1>4, <1>5, <2>1, <2>2 DEF Holds, Stale, Blank, at, top
  <2>3. CASE ~(at < top)
    <3>1. s \in st.todo <=> prod[p].current < s /\ s <= top
      BY <1>3, <1>4, <2>1, <2>3
    <3>2. ~(at <= s /\ s <= top /\ s # at)
      BY <1>3, <1>6, <2>1, <2>3
    <3> QED
      BY <1>2, <1>4, <1>5, <2>1, <2>3, <3>1, <3>2 DEF Holds, Stale, Blank, at, top
  <2> QED
    BY <2>2, <2>3
<1>13. OutcomeInv'
  BY <1>1, <1>2, <1>11, <1>12 DEF RingInv, OutcomeInv
<1>14. ASSUME NEW q \in Producers PROVE ~Blank(prod'[q], at)
  <2>1. CASE q = p
    BY <1>7, <1>11, <1>12, <2>1
  <2>2. CASE q # p
    BY <1>1, <1>7, <1>11, <2>2, OnlyHolder, BlankHeld
  <2> QED
    BY <2>1, <2>2
<1>15. ASSUME NEW s \in Sequences, s # at, NEW q \in Producers
       PROVE  Blank(prod'[q], s) <=> Blank(prod[q], s)
  BY <1>11, <1>12, <1>15
<1>16. WordInv'
  <2>1. publicationValue(flag(at), Unresolved) = publicationValue(flag(at), outcome'[at])
    BY <1>2, <1>8
  <2>2. \A s \in Sequences : s # at => outcome'[s] = outcome[s]
    BY <1>2
  <2> QED
    BY <1>1, <1>2, <1>7, <1>8, <1>14, <1>15, <2>1, <2>2, WordStored
<1>17. EntryInv'
  <2>1. \A q \in Producers : \A s \in Sequences :
          Stale(prod'[q], s) <=> Stale(prod[q], s)
    BY <1>11, <1>12
  <2> QED
    BY <1>1, <1>2, <2>1 DEF RingInv, EntryInv, InLap
<1> QED
  BY <1>2, <1>10, <1>13, <1>16, <1>17 DEF RingInv

(* The owner's swap always finds the slot unresolved in the lap of low. *)
LEMMA ResolveSwaps ==
  ASSUME Attached, Inv, NEW p \in Producers, Resolve(p)
  PROVE  LET low == prod[p].low
             as == prod[p].as
         IN /\ low \in Sequences /\ low \in prod[p].todo /\ InLap(low)
            /\ Holds(prod[p], low) /\ outcome[low] = Unresolved
            /\ \A q \in Producers : ~Blank(prod[q], low)
            /\ available' = [available EXCEPT
                               ![Index(low)] = publicationValue(flag(low), as)]
            /\ outcome' = [outcome EXCEPT ![low] = as]
<1> DEFINE low == prod[p].low
<1>1. TypeInv /\ RingInv /\ prod[p].pc = "resolve"
  BY DEF Inv, SafetyInv, Resolve
<1>2. low \in Sequences /\ prod[p].high \in Sequences
  BY <1>1, ClaimNumbers
<1>3. low \in prod[p].todo
  <2>1. ClaimOK(prod[p], cursor, hasDiscards)
    BY <1>1 DEF RingInv, ClaimInv
  <2>2. low <= low
    BY <1>2, RingAssumption
  <2> QED
    BY <1>1, <1>2, <2>1, <2>2 DEF ClaimOK
<1>4. Holds(prod[p], low)
  BY <1>1, <1>3 DEF Holds
<1>5. InLap(low) /\ outcome[low] = Unresolved
  BY <1>2, <1>4, OwnedFacts
<1>6. ASSUME NEW q \in Producers PROVE ~Blank(prod[q], low)
  <2>1. CASE q = p
    BY <1>1, <2>1 DEF Blank
  <2>2. CASE q # p
    BY <1>1, <1>2, <1>4, <2>2, OnlyHolder, BlankHeld
  <2> QED
    BY <2>1, <2>2
<1>7. available[Index(low)] = publicationValue(flag(low), Unresolved)
  BY <1>1, <1>2, <1>5, <1>6 DEF RingInv, WordInv, WordOK
<1> QED
  BY <1>2, <1>3, <1>4, <1>5, <1>6, <1>7 DEF Resolve, ResolveWord

LEMMA ResolveRing ==
  ASSUME Attached, Inv, NEW p \in Producers, Resolve(p)
  PROVE  /\ RingInv' /\ UNCHANGED <<cursor, hasDiscards>>
         /\ OutcomesFinal /\ DiscardsKnown'
<1> DEFINE low == prod[p].low
           high == prod[p].high
           as == prod[p].as
           rest == prod[p].todo \ {low}
           next == [prod[p] EXCEPT !.low = low + 1, !.todo = rest]
           own == [prod[p] EXCEPT !.pc = "owned", !.todo = rest, !.low = 0,
                                  !.high = 0, !.as = Published]
           st == IF low < high THEN next ELSE IF rest # {} THEN own ELSE IdleProducer
<1>1. TypeInv /\ RingInv /\ prod[p].pc = "resolve"
  BY DEF Inv, SafetyInv, Resolve
<1>2. /\ prod' = [prod EXCEPT ![p] = st]
      /\ UNCHANGED <<cursor, entries, hasDiscards, untranslated>>
  BY DEF Resolve
<1>3. /\ low \in Sequences /\ low \in prod[p].todo /\ InLap(low)
      /\ Holds(prod[p], low) /\ outcome[low] = Unresolved
      /\ \A q \in Producers : ~Blank(prod[q], low)
      /\ available' = [available EXCEPT
                         ![Index(low)] = publicationValue(flag(low), as)]
      /\ outcome' = [outcome EXCEPT ![low] = as]
  BY ResolveSwaps
<1>4. /\ low \in Int /\ high \in Sequences /\ high \in Int
      /\ as \in {Published, Discarded} /\ prod[p].at \in Int
      /\ prod[p].current \in Int /\ Top(prod[p]) \in Int
      /\ outcome \in [Sequences -> Resolutions] /\ cursor \in Int
  BY <1>1, <1>3, ClaimNumbers, RingNumbers, RingAssumption
<1>5. /\ low < high => /\ st.pc = "resolve" /\ st.low = low + 1 /\ st.high = high
                       /\ st.as = as
      /\ low < high \/ rest # {} =>
           /\ st.todo = rest /\ st.at = prod[p].at /\ st.count = prod[p].count
           /\ st.current = prod[p].current
      /\ ~(low < high) /\ rest # {} => st.pc = "owned"
      /\ ~(low < high) /\ rest = {} => st.pc = "idle"
  <2>1. /\ next.pc = "resolve" /\ next.low = low + 1 /\ next.high = high
        /\ next.as = as /\ next.todo = rest /\ next.at = prod[p].at
        /\ next.count = prod[p].count /\ next.current = prod[p].current
    BY <1>1, ClaimNumbers DEF ProducerState
  <2>2. /\ own.pc = "owned" /\ own.todo = rest /\ own.at = prod[p].at
        /\ own.count = prod[p].count /\ own.current = prod[p].current
    BY <1>1, ClaimNumbers DEF ProducerState
  <2>3. IdleProducer.pc = "idle"
    BY DEF IdleProducer
  <2> HIDE DEF next, own
  <2> QED
    BY <2>1, <2>2, <2>3
<1> HIDE DEF st, low, high, as
<1>6. ClaimOK(prod[p], cursor, hasDiscards)
  BY <1>1 DEF RingInv, ClaimInv
<1>7. /\ prod[p].count >= 1 /\ Top(prod[p]) <= cursor /\ prod[p].current < prod[p].at
      /\ prod[p].at <= Top(prod[p]) + 1
      /\ \A s \in prod[p].todo : prod[p].current < s /\ s <= Top(prod[p])
      /\ \A s \in Sequences :
           prod[p].at <= s /\ s <= Top(prod[p]) => s \in prod[p].todo
      /\ low <= high /\ high < prod[p].at
      /\ \A s \in Sequences : low <= s /\ s <= high => s \in prod[p].todo
      /\ as = Discarded => hasDiscards
  BY <1>1, <1>6 DEF ClaimOK, Claimed, low, high, as
<1>8. \A s \in Sequences : prod[p].at <= s /\ s <= Top(prod[p]) => s \in rest
  BY <1>4, <1>7
<1>9. ClaimOK(st, cursor, hasDiscards)
  <2>1. CASE ~(low < high) /\ rest = {}
    BY <1>5, <2>1 DEF ClaimOK, Claimed
  <2>2. CASE low < high
    <3>1. Top(st) = Top(prod[p])
      BY <1>5, <2>2 DEF Top
    <3>2. low + 1 <= high /\ \A s \in Sequences : low + 1 <= s /\ s <= high => s \in rest
      BY <1>4, <1>7, <2>2
    <3> QED
      BY <1>5, <1>7, <1>8, <2>2, <3>1, <3>2 DEF ClaimOK, Claimed
  <2>3. CASE ~(low < high) /\ rest # {}
    <3>1. Top(st) = Top(prod[p])
      BY <1>5, <2>3 DEF Top
    <3> QED
      BY <1>5, <1>7, <1>8, <2>3, <3>1 DEF ClaimOK, Claimed
  <2> QED
    BY <2>1, <2>2, <2>3
<1>10. ClaimInv'
  <2>1. Claimed(st) => /\ Claimed(prod[p]) /\ st.current = prod[p].current
                       /\ st.count = prod[p].count
    BY <1>1, <1>5 DEF Claimed
  <2> QED
    BY <1>1, <1>2, <1>9, <2>1, ClaimsUpdate DEF RingInv
<1>11. /\ prod'[p] = st
       /\ \A q \in Producers : q # p => prod'[q] = prod[q]
  BY <1>1, <1>2 DEF TypeInv, TypeOK
<1>12. ASSUME NEW s \in Sequences
       PROVE  /\ Holds(st, s) => Holds(prod[p], s) /\ s # low
              /\ Stale(prod[p], s) => Stale(st, s)
              /\ ~Blank(st, s) /\ ~Blank(prod[p], s)
  <2>1. CASE ~(low < high) /\ rest = {}
    BY <1>1, <1>5, <1>8, <2>1 DEF Holds, Stale, Blank
  <2>2. CASE low < high \/ rest # {}
    <3>1. Top(st) = Top(prod[p]) /\ st.pc \in {"owned", "resolve"} /\ st.todo = rest
          /\ st.at = prod[p].at
      BY <1>5, <2>2 DEF Top
    <3> QED
      BY <1>1, <3>1 DEF Holds, Stale, Blank
  <2> QED
    BY <2>1, <2>2
<1>13. \A s \in Sequences : s # low => outcome'[s] = outcome[s]
  BY <1>3, <1>4
<1>14. outcome'[low] = as
  BY <1>3, <1>4
<1>15. OutcomeInv'
  <2>1. ASSUME NEW q \in Producers, NEW s \in Sequences, Holds(prod'[q], s)
        PROVE  outcome'[s] = Unresolved
    <3>1. Holds(prod[q], s) /\ s # low
      <4>1. CASE q = p
        BY <1>11, <1>12, <2>1, <4>1
      <4>2. CASE q # p
        BY <1>1, <1>3, <1>11, <2>1, <4>2, OnlyHolder
      <4> QED
        BY <4>1, <4>2
    <3> QED
      BY <1>1, <1>13, <3>1 DEF RingInv, OutcomeInv
  <2>2. ASSUME NEW s \in Sequences, cursor' < s PROVE outcome'[s] = Unresolved
    <3>1. s # low
      BY <1>2, <1>3, <1>4, <2>2 DEF InLap
    <3> QED
      BY <1>1, <1>2, <1>13, <2>2, <3>1 DEF RingInv, OutcomeInv
  <2> QED
    BY <2>1, <2>2 DEF OutcomeInv
<1>16. ASSUME NEW q \in Producers
       PROVE  /\ ~Blank(prod'[q], low)
              /\ \A s \in Sequences : Blank(prod'[q], s) <=> Blank(prod[q], s)
  <2>1. CASE q = p
    BY <1>3, <1>11, <1>12, <2>1
  <2>2. CASE q # p
    BY <1>3, <1>11, <2>2
  <2> QED
    BY <2>1, <2>2
<1>17. WordInv'
  BY <1>1, <1>2, <1>3, <1>13, <1>14, <1>16, WordStored
<1>18. EntryInv'
  <2>1. \A q \in Producers : \A s \in Sequences :
          Stale(prod[q], s) => Stale(prod'[q], s)
    BY <1>11, <1>12
  <2> QED
    BY <1>1, <1>2, <2>1 DEF RingInv, EntryInv, InLap
<1>19. OutcomesFinal
  <2>1. cursor <= cursor'
    BY <1>2, <1>4
  <2> QED
    BY <1>3, <1>13, <2>1 DEF OutcomesFinal, Resolved
<1>20. DiscardsKnown'
  BY <1>2, <1>7, <1>13, <1>14 DEF Inv, DeliveryInv, DiscardsKnown
<1> QED
  BY <1>2, <1>10, <1>15, <1>17, <1>18, <1>19, <1>20 DEF RingInv

-----------------------------------------------------------------------------
(* The sequence of the last lap that shares the slot of s. *)
LEMMA LapSuccessor ==
  ASSUME NEW s \in Int, NEW base \in Int, s < base
  PROVE  \E t \in Int : /\ base <= t /\ t < base + BufferSize
                        /\ Index(t) = Index(s) /\ flag(s) < flag(t)
<1> DEFINE B == BufferSize
           q == (s - base) \div B
           r == (s - base) % B
           x == s \div B
           i == s % B
           t == base + r
           y == t \div B
           j == t % B
<1>1. B \in Nat \ {0} /\ B \in Int
  BY RingAssumption
<1>2. /\ q \in Int /\ r \in Int /\ 0 <= r /\ r < B /\ s - base = B * q + r
      /\ B * q \in Int
  <2>1. s - base \in Int
    OBVIOUS
  <2> QED
    BY <1>1, <2>1, Division
<1>3. x \in Int /\ i \in 0 .. B - 1 /\ s = B * x + i /\ B * x \in Int
  BY <1>1, Division
<1>4. t \in Int /\ base <= t /\ t < base + B
  BY <1>1, <1>2
<1>5. y \in Int /\ j \in 0 .. B - 1 /\ t = B * y + j /\ B * y \in Int
  <2> HIDE DEF t
  <2> QED
    BY <1>1, <1>4, Division
<1> HIDE DEF q, r, x, i, t, y, j, B
<1>6. t = s - B * q
  BY <1>2, <1>3, <1>4 DEF t
<1>7. B * (x - q) = B * x - B * q /\ x - q \in Int
  BY <1>1, <1>2, <1>3
<1>8. B * y + j = B * (x - q) + i
  BY <1>2, <1>3, <1>5, <1>6, <1>7
<1>9. y = x - q /\ j = i
  BY <1>1, <1>3, <1>5, <1>7, <1>8, DivisionUnique
<1>10. q < 0
  <2> SUFFICES ASSUME 0 <= q PROVE FALSE
    BY <1>2
  <2>1. 0 <= B * q
    BY <1>1, <1>2
  <2> QED
    BY <1>2, <2>1
<1>11. x < y
  BY <1>2, <1>3, <1>9, <1>10
<1> QED
  BY <1>4, <1>9, <1>11 DEF Index, flag, x, y, i, j, B

(* The lap of a sequence below WordLaps laps. *)
LEMMA LapBound ==
  ASSUME NEW t \in Int, t < WordLaps * BufferSize
  PROVE  flag(t) \in Int /\ flag(t) < WordLaps
<1> DEFINE B == BufferSize
           W == WordLaps
           q == t \div B
           r == t % B
<1>1. B \in Nat \ {0} /\ W \in Int /\ W * B = B * W /\ B * W \in Int
  BY RingAssumption, ProducerAssumption
<1>2. q \in Int /\ r \in Int /\ 0 <= r /\ t = B * q + r /\ B * q \in Int
  BY <1>1, Division
<1> HIDE DEF q, r, B, W
<1>3. ~(W < q)
  <2> SUFFICES ASSUME W < q PROVE FALSE
    OBVIOUS
  <2>1. B * W + B <= B * q
    BY <1>1, <1>2, Multiples
  <2> QED
    BY <1>1, <1>2, <2>1 DEF B, W
<1>4. q # W
  BY <1>1, <1>2 DEF B, W
<1> QED
  BY <1>1, <1>2, <1>3, <1>4 DEF flag, q, B, W

(* A repeated resolution finds a word that is not open to it. *)
LEMMA RepeatedRefused ==
  ASSUME WordsDistinct, "ResolveAgain" \in Calls, Inv, NEW s \in Sequences,
         outcome[s] # Unresolved
  PROVE  available[Index(s)] # publicationValue(flag(s), Unresolved)
<1>1. TypeInv /\ RingInv
  BY DEF Inv, SafetyInv
<1>2. s \in Int /\ flag(s) \in Int /\ 0 <= flag(s)
  BY LapFacts, RingAssumption
<1>3. s <= cursor /\ cursor \in Int /\ cursor <= MaxSequence /\ BufferSize \in Int
  <2>1. ~(cursor < s)
    BY <1>1 DEF RingInv, OutcomeInv
  <2> QED
    BY <1>1, <1>2, <2>1, RingNumbers
<1>4. publicationValue(flag(s), Unresolved) % 4 = 0
  BY <1>2, WordState
<1>5. outcome \in [Sequences -> {0, 1, 2}]
  BY <1>1, RingNumbers
<1>6. CASE InLap(s)
  <2>1. \A p \in Producers : ~Blank(prod[p], s)
    BY <1>1, BlankHeld DEF RingInv, OutcomeInv
  <2>2. available[Index(s)] = publicationValue(flag(s), outcome[s])
    BY <1>1, <1>6, <2>1 DEF RingInv, WordInv, WordOK
  <2>3. outcome[s] \in 0 .. 3 /\ outcome[s] # 0
    BY <1>5
  <2>4. available[Index(s)] % 4 # 0
    BY <1>2, <2>2, <2>3, WordState
  <2> QED
    BY <1>4, <2>4
<1>7. CASE ~InLap(s)
  <2>1. s < cursor - BufferSize + 1 /\ cursor - BufferSize + 1 \in Int
    BY <1>2, <1>3, <1>7 DEF InLap
  <2>2. PICK t \in Int : /\ cursor - BufferSize + 1 <= t
                         /\ t < (cursor - BufferSize + 1) + BufferSize
                         /\ Index(t) = Index(s) /\ flag(s) < flag(t)
    BY <1>2, <2>1, LapSuccessor
  <2>3. InLap(t) /\ s < t /\ t <= cursor
    BY <1>2, <1>3, <2>1, <2>2 DEF InLap
  <2>4. t \in Sequences
    BY <1>3, <2>2, <2>3, RingAssumption
  <2>5. WordOK(t)
    BY <1>1, <2>3, <2>4 DEF RingInv, WordInv
  <2>6. CASE \E p \in Producers : Blank(prod[p], t)
    BY <1>4, <2>2, <2>5, <2>6 DEF WordOK
  <2>7. CASE ~\E p \in Producers : Blank(prod[p], t)
    <3>1. available[Index(s)] = publicationValue(flag(t), outcome[t])
      BY <2>2, <2>5, <2>7 DEF WordOK
    <3>2. flag(t) \in Int /\ flag(t) < WordLaps
      <4>1. t < WordLaps * BufferSize
        <5>1. MaxSequence < WordLaps * BufferSize /\ WordLaps * BufferSize \in Int
          BY RingAssumption, ProducerAssumption DEF WordsDistinct
        <5> QED
          BY <1>3, <2>3, <5>1, RingAssumption
      <4> QED
        BY <4>1, LapBound
    <3>3. flag(t) < flag(s) + WordLaps /\ outcome[t] \in 0 .. 3
      BY <1>2, <1>5, <2>4, <3>2, ProducerAssumption
    <3> QED
      BY <1>2, <2>2, <3>1, <3>2, <3>3, WordDiffers
  <2> QED
    BY <2>6, <2>7
<1> QED
  BY <1>6, <1>7

LEMMA ResolveAgainRing ==
  ASSUME WordsDistinct, Inv, NEW s \in Sequences, NEW as \in {Published, Discarded},
         ResolveAgain(s, as)
  PROVE  /\ RingInv' /\ UNCHANGED <<cursor, outcome>>
         /\ hasDiscards' = hasDiscards \/ hasDiscards' = TRUE
<1>1. TypeInv /\ RingInv
  BY DEF Inv, SafetyInv
<1>2. UNCHANGED <<available, outcome>>
  BY RepeatedRefused DEF ResolveAgain, ResolveWord
<1>3. UNCHANGED <<cursor, entries, prod, untranslated>>
  BY DEF ResolveAgain
<1>4. hasDiscards' = hasDiscards \/ hasDiscards' = TRUE
  BY <1>1, RingNumbers DEF ResolveAgain
<1>5. ClaimInv'
  <2>1. ASSUME NEW p \in Producers PROVE ClaimOK(prod[p], cursor, hasDiscards')
    BY <1>1, <1>4 DEF RingInv, ClaimInv, ClaimOK
  <2> QED
    BY <1>1, <1>3, <2>1 DEF RingInv, ClaimInv
<1>6. OutcomeInv' /\ WordInv' /\ EntryInv'
  BY <1>1, <1>2, <1>3 DEF RingInv, OutcomeInv, WordInv, WordOK, EntryInv, InLap
<1> QED
  BY <1>2, <1>3, <1>4, <1>5, <1>6 DEF RingInv

-----------------------------------------------------------------------------
(***************************************************************************)
(* The slot of a sequence that is about to be claimed shows a resolved     *)
(* word of the lap before, or the initial word: the gates that admit the   *)
(* claim bound every consumer, and consumers have passed only what is      *)
(* resolved.                                                               *)
(***************************************************************************)
LEMMA NewSlotWord ==
  ASSUME Attached, Inv, NEW top \in Int, top <= cursor + BufferSize,
         \A g \in Gating : top - BufferSize <= sequence[g],
         NEW s \in Sequences, cursor < s, s <= top
  PROVE  LET word == available[Index(s)]
         IN /\ word % 4 # Unresolved
            /\ word # publicationValue(flag(s), Published)
            /\ word # publicationValue(flag(s), Discarded)
<1>1. TypeInv /\ RingInv /\ ConsumerInv /\ DeliveryInv
  BY DEF Inv, SafetyInv
<1>2. /\ s \in Int /\ 0 <= s /\ cursor \in Int /\ BufferSize \in Int /\ BufferSize > 0
      /\ flag(s) \in Int /\ Index(s) \in Slots
      /\ s <= MaxSequence /\ MaxSequence \in Int
  BY <1>1, LapFacts, RingNumbers, RingAssumption
<1>3. /\ publicationValue(flag(s), Published) % 4 = 1
      /\ publicationValue(flag(s), Discarded) % 4 = 2
  BY <1>2, WordState
<1>4. CASE s < BufferSize
  <2>1. Index(s) = s
    <3>1. s \in Nat /\ BufferSize \in Nat
      BY <1>2
    <3> QED
      BY <1>2, <1>4, <3>1 DEF Index
  <2>2. available[Index(s)] = 4 * WordLaps - 1
    BY <1>1, <1>2, <2>1 DEF RingInv, WordInv
  <2> QED
    BY <1>3, <2>2, FreshWord
<1>5. CASE ~(s < BufferSize)
  <2>1. PICK t \in Sequences : t = s - BufferSize
    BY <1>2, <1>5
  <2>2. InLap(t) /\ t <= top - BufferSize
    BY <1>2, <2>1 DEF InLap
  <2>3. outcome[t] # Unresolved
    <3>1. PICK c \in Consumers : TRUE
      BY DEF Attached
    <3>2. top - BufferSize \in Int /\ sequence[c] \in Int /\ t \in Int
      BY <1>1, <1>2, <2>1, Numbers
    <3>3. top - BufferSize <= sequence[c]
      BY <1>1, <3>2, GatesBoundEveryone
    <3>4. t <= sequence[c]
      BY <2>2, <3>2, <3>3
    <3> QED
      BY <1>1, <3>4 DEF DeliveryInv, RunOK, Trails, Resolved
  <2>4. \A p \in Producers : ~Blank(prod[p], t)
    BY <1>1, <2>3, BlankHeld DEF RingInv, OutcomeInv
  <2>5. available[Index(t)] = publicationValue(flag(t), outcome[t])
    BY <1>1, <2>2, <2>4 DEF RingInv, WordInv, WordOK
  <2>6. /\ flag(s) = flag(t) + 1 /\ Index(s) = Index(t) /\ flag(t) \in Int
    BY <1>2, <2>1, LapBefore, LapFacts, RingAssumption
  <2>7. outcome[t] \in 0 .. 3 /\ outcome[t] # 0
    BY <1>1, <2>3, RingNumbers
  <2>8. flag(t) < flag(s) /\ flag(s) < flag(t) + WordLaps
    BY <2>6, ProducerAssumption
  <2>9. available[Index(s)] % 4 # Unresolved
    BY <2>5, <2>6, <2>7, WordState
  <2>10. /\ available[Index(s)] # publicationValue(flag(s), 1)
         /\ available[Index(s)] # publicationValue(flag(s), 2)
    BY <1>2, <2>5, <2>6, <2>7, <2>8, WordDiffers
  <2> QED
    BY <2>9, <2>10
<1> QED
  BY <1>4, <1>5

LEMMA SwapRing ==
  ASSUME Attached, Inv, NEW p \in Producers, CompareAndSwap(p),
         cursor = prod[p].current
  PROVE  RingInv' /\ cursor <= cursor' /\ UNCHANGED <<outcome, hasDiscards>>
<1> DEFINE top == Top(prod[p])
           st == [prod[p] EXCEPT !.pc = "prepare", !.at = cursor + 1]
<1>1. TypeInv /\ RingInv /\ GateInv
  BY DEF Inv, SafetyInv
<1>2. /\ prod[p].pc = "cas" /\ cursor' = top /\ prod' = [prod EXCEPT ![p] = st]
      /\ UNCHANGED <<available, outcome, entries, hasDiscards, untranslated>>
  BY DEF CompareAndSwap, High, Top, ringVars
<1>3. /\ st.pc = "prepare" /\ st.current = cursor /\ st.count = prod[p].count
      /\ st.at = cursor + 1 /\ Top(st) = top
  BY <1>1, ClaimNumbers DEF ProducerState, Top
<1>4. /\ cursor \in Int /\ top \in Int /\ prod[p].count \in Int
      /\ prod[p].count >= 1 /\ prod[p].count <= BufferSize /\ BufferSize \in Int
      /\ top = cursor + prod[p].count
  BY <1>1, <1>2, ClaimNumbers, RingNumbers DEF RingInv, ClaimInv, ClaimOK, Top
<1> HIDE DEF st, top
<1>5. cursor < top /\ cursor + 1 <= top /\ top <= cursor + BufferSize
  BY <1>4
<1>6. \A g \in Gating : top - BufferSize <= sequence[g]
  BY <1>1, <1>2 DEF GateInv, Admitted, WrapPoint, High, Top, top
<1>7. /\ prod'[p] = st
      /\ \A q \in Producers : q # p => prod'[q] = prod[q]
  BY <1>1, <1>2 DEF TypeInv, TypeOK
<1>8. ASSUME NEW q \in Producers, Claimed(prod[q])
      PROVE  Top(prod[q]) <= cursor /\ Top(prod[q]) \in Int
  BY <1>1, <1>8, ClaimNumbers DEF RingInv, ClaimInv, ClaimOK
<1>9. ~Claimed(prod[p])
  BY <1>2 DEF Claimed
<1>10. ClaimInv'
  <2>1. ASSUME NEW q \in Producers PROVE ClaimOK(prod'[q], cursor', hasDiscards')
    <3>1. CASE q = p
      <4>1. ClaimOK(st, top, hasDiscards)
        BY <1>3, <1>4, <1>5 DEF ClaimOK, Claimed
      <4> QED
        BY <1>2, <1>7, <3>1, <4>1
    <3>2. CASE q # p
      <4>1. Claimed(prod[q]) => Top(prod[q]) <= top
        BY <1>4, <1>5, <1>8
      <4>2. ClaimOK(prod[q], cursor, hasDiscards)
        BY <1>1 DEF RingInv, ClaimInv
      <4>3. ClaimOK(prod[q], top, hasDiscards)
        BY <4>1, <4>2 DEF ClaimOK
      <4> QED
        BY <1>2, <1>7, <3>2, <4>3
    <3> QED
      BY <3>1, <3>2
  <2>2. ASSUME NEW q \in Producers, NEW r \in Producers, q # r
        PROVE  Apart(prod'[q], prod'[r])
    <3>1. Apart(prod[q], prod[r])
      BY <1>1, <2>2 DEF RingInv, ClaimInv
    <3>2. CASE q = p
      BY <1>3, <1>7, <1>8, <2>2, <3>2 DEF Apart
    <3>3. CASE r = p
      BY <1>3, <1>7, <1>8, <2>2, <3>3 DEF Apart
    <3>4. CASE q # p /\ r # p
      BY <1>7, <3>1, <3>4
    <3> QED
      BY <3>2, <3>3, <3>4
  <2> QED
    BY <2>1, <2>2 DEF ClaimInv
<1>11. ASSUME NEW s \in Sequences
       PROVE  /\ Holds(st, s) <=> cursor < s /\ s <= top
              /\ Stale(st, s) <=> cursor < s /\ s <= top
              /\ Blank(st, s) <=> cursor < s /\ s <= top
              /\ ~Blank(prod[p], s) /\ ~Stale(prod[p], s)
  <2>1. cursor + 1 <= s <=> cursor < s
    BY <1>4, RingAssumption
  <2> QED
    BY <1>2, <1>3, <2>1 DEF Holds, Stale, Blank
<1>12. OutcomeInv'
  <2>1. ASSUME NEW q \in Producers, NEW s \in Sequences, Holds(prod'[q], s)
        PROVE  outcome[s] = Unresolved
    <3>1. CASE q = p
      BY <1>1, <1>7, <1>11, <2>1, <3>1 DEF RingInv, OutcomeInv
    <3>2. CASE q # p
      BY <1>1, <1>7, <2>1, <3>2 DEF RingInv, OutcomeInv
    <3> QED
      BY <3>1, <3>2
  <2>2. ASSUME NEW s \in Sequences, cursor' < s PROVE outcome[s] = Unresolved
    <3>1. cursor < s
      BY <1>2, <1>4, <1>5, <2>2, RingAssumption
    <3> QED
      BY <1>1, <3>1 DEF RingInv, OutcomeInv
  <2> QED
    BY <1>2, <2>1, <2>2 DEF OutcomeInv
<1>13. ASSUME NEW s \in Sequences, InLap(s)'
       PROVE  s <= top /\ (cursor < s \/ InLap(s))
  BY <1>2, <1>4, <1>5, <1>13, RingAssumption DEF InLap
<1>14. WordInv'
  <2>1. ASSUME NEW s \in Sequences, InLap(s)' PROVE WordOK(s)'
    <3>1. CASE cursor < s
      <4>1. Blank(prod'[p], s)
        BY <1>7, <1>11, <1>13, <2>1, <3>1
      <4>2. LET word == available[Index(s)]
            IN /\ word % 4 # Unresolved
               /\ word # publicationValue(flag(s), Published)
               /\ word # publicationValue(flag(s), Discarded)
        BY <1>4, <1>5, <1>6, <1>13, <2>1, <3>1, NewSlotWord
      <4> QED
        BY <1>2, <4>1, <4>2 DEF WordOK
    <3>2. CASE ~(cursor < s)
      <4>1. InLap(s)
        BY <1>13, <2>1, <3>2
      <4>2. \A q \in Producers : Blank(prod'[q], s) <=> Blank(prod[q], s)
        BY <1>7, <1>11, <3>2
      <4>3. WordOK(s)
        BY <1>1, <4>1 DEF RingInv, WordInv
      <4> QED
        BY <1>2, <4>2, <4>3 DEF WordOK
    <3> QED
      BY <3>1, <3>2
  <2>2. ASSUME NEW i \in Slots, cursor' < i PROVE available'[i] = 4 * WordLaps - 1
    <3>1. cursor < i
      BY <1>2, <1>4, <1>5, <2>2 DEF Slots
    <3> QED
      BY <1>1, <1>2, <3>1 DEF RingInv, WordInv
  <2> QED
    BY <2>1, <2>2 DEF WordInv
<1>15. EntryInv'
  <2> SUFFICES ASSUME NEW s \in Sequences, InLap(s)', s \notin untranslated',
                      \A q \in Producers : ~Stale(prod'[q], s)
               PROVE  entries[Index(s)] = s
    BY <1>2 DEF EntryInv
  <2>1. ~(cursor < s)
    BY <1>7, <1>11, <1>13
  <2>2. InLap(s) /\ s \notin untranslated
    BY <1>2, <1>13, <2>1
  <2>3. \A q \in Producers : ~Stale(prod[q], s)
    BY <1>7, <1>11
  <2> QED
    BY <1>1, <2>2, <2>3 DEF RingInv, EntryInv
<1>16. cursor <= cursor'
  BY <1>2, <1>4, <1>5
<1> QED
  BY <1>2, <1>10, <1>12, <1>14, <1>15, <1>16 DEF RingInv

-----------------------------------------------------------------------------
(* The steps of a producer, all together. *)
LEMMA ProducerStepRing ==
  ASSUME Attached, Inv, NEW p \in Producers, ProducerStep(p)
  PROVE  RingInv' /\ OutcomesFinal /\ DiscardsKnown'
<1>1. TypeInv /\ RingInv /\ DiscardsKnown /\ cursor \in Int /\ cursor <= cursor
  BY RingNumbers DEF Inv, SafetyInv, DeliveryInv
<1>2. ASSUME RingInv', cursor <= cursor', UNCHANGED outcome,
             hasDiscards' = hasDiscards \/ hasDiscards' = TRUE
      PROVE  RingInv' /\ OutcomesFinal /\ DiscardsKnown'
  <2>1. OutcomesFinal
    BY <1>2 DEF OutcomesFinal
  <2>2. DiscardsKnown'
    BY <1>1, <1>2 DEF DiscardsKnown
  <2> QED
    BY <1>2, <2>1, <2>2
<1>3. ASSUME RingInv', UNCHANGED <<cursor, outcome, hasDiscards>>
      PROVE  RingInv' /\ OutcomesFinal /\ DiscardsKnown'
  BY <1>1, <1>2, <1>3
<1>4. CASE \E count \in ClaimSizes, try \in BOOLEAN : BeginClaim(p, count, try)
  BY <1>1, <1>3, <1>4, BeginClaimRing
<1>5. CASE ClaimStep(p)
  <2>1. CASE CompareAndSwap(p) /\ cursor = prod[p].current
    <3>1. RingInv' /\ cursor <= cursor' /\ UNCHANGED <<outcome, hasDiscards>>
      BY <2>1, SwapRing
    <3> QED
      BY <1>2, <3>1
  <2>2. CASE Prepare(p)
    BY <1>3, <2>2, PrepareRing
  <2>3. CASE ~Prepare(p) /\ ~(CompareAndSwap(p) /\ cursor = prod[p].current)
    <3>1. RingInv' /\ UNCHANGED <<cursor, outcome, hasDiscards>>
      BY <1>1, <1>5, <2>3, ClaimLoopRing DEF ClaimStep
    <3> QED
      BY <1>3, <3>1
  <2> QED
    BY <2>1, <2>2, <2>3
<1>6. CASE OwnerStep(p)
  <2>1. CASE Translate(p)
    BY <1>3, <2>1, TranslateRing
  <2>2. CASE FailTranslation(p)
    BY <1>1, <1>3, <2>2, FailTranslationRing
  <2>3. CASE \E low, high \in Sequences, as \in {Published, Discarded} :
               BeginResolve(p, low, high, as)
    <3>1. /\ RingInv' /\ UNCHANGED <<cursor, outcome>>
          /\ hasDiscards' = hasDiscards \/ hasDiscards' = TRUE
      BY <1>1, <2>3, BeginResolveRing
    <3> QED
      BY <1>1, <1>2, <3>1
  <2>4. CASE Resolve(p)
    BY <2>4, ResolveRing
  <2> QED
    BY <1>6, <2>1, <2>2, <2>3, <2>4 DEF OwnerStep
<1> QED
  BY <1>4, <1>5, <1>6 DEF ProducerStep

(* The sequencer answers truthfully about the batches of its consumers. *)
LEMMA SequencerAnswers ==
  ASSUME Inv, NEW c \in Consumers
  PROVE  TrueAnswers(c, IsAvailable(con[c].at), IsDiscarded(con[c].last),
                     IsDiscarded(con[c].at), "scan")
<1>1. /\ TypeInv /\ RingInv /\ ConsumerInv
      /\ sequence[c] \in Int /\ -1 <= sequence[c] /\ cursor \in Int
      /\ cursor - BufferSize <= sequence[c] /\ cursor - BufferSize \in Int
  BY PositionInLap, Numbers, RingNumbers DEF Inv, SafetyInv
<1>2. ASSUME NEW s \in Int, sequence[c] < s, s <= con[c].available,
             con[c].pc # "wait"
      PROVE  s \in Sequences /\ resolution(s) = outcome[s]
  <2>1. /\ con[c].available <= cursor /\ con[c].available \in Int
        /\ con[c].available <= MaxSequence
    BY <1>1, <1>2, Numbers DEF Inv, DeliveryInv, RunOK, BatchOK, Granted
  <2>2. s \in Sequences /\ InLap(s)
    BY <1>1, <1>2, <2>1, RingAssumption DEF InLap
  <2> QED
    BY <1>1, <2>2, WordsAnswer
<1>3. ASSUME con[c].pc = "scan", IsAvailable(con[c].at) PROVE Resolved(con[c].at)
  <2>1. sequence[c] < con[c].at /\ con[c].at <= con[c].available /\ con[c].at \in Int
    BY <1>1, <1>3, Numbers DEF ConsumerInv, BatchAhead
  <2> QED
    BY <1>2, <1>3, <2>1 DEF IsAvailable, Resolved
<1>4. ASSUME con[c].pc = "last", sequence[c] < con[c].last
      PROVE  IsDiscarded(con[c].last) <=> outcome[con[c].last] = Discarded
  <2>1. con[c].last <= con[c].available /\ con[c].last \in Int
    BY <1>1, <1>4, Numbers DEF Inv, DeliveryInv, RunOK, BatchOK, Trailing
  <2> QED
    BY <1>2, <1>4, <2>1 DEF IsDiscarded
<1>5. ASSUME con[c].pc = "handle", con[c].at <= con[c].available
      PROVE  IsDiscarded(con[c].at) <=> outcome[con[c].at] = Discarded
  <2>1. sequence[c] < con[c].at /\ con[c].at \in Int
    BY <1>1, <1>5, Numbers DEF Inv, DeliveryInv, RunOK, BatchOK, Handling
  <2> QED
    BY <1>2, <1>5, <2>1 DEF IsDiscarded
<1> QED
  BY <1>3, <1>4, <1>5 DEF TrueAnswers

LEMMA InvInit == Init => Inv
BY TypeInit, ConsumerInit, GateInit, RingInitial, DeliveryInit
DEF Init, Inv, SafetyInv

LEMMA OrdinaryStep ==
  ASSUME Attached, Inv, SafetyInv', [OrdinaryNext]_vars
  PROVE  Inv' /\ OutcomesFinal
<1>1. /\ RingTypes /\ RingTypes' /\ ConsumerInv /\ RingInv /\ DeliveryInv
      /\ DiscardsKnown /\ cursor \in Int
  BY RingTypesHold, RingNumbers, PTL DEF Inv, SafetyInv, DeliveryInv
<1>2. ASSUME NEW p \in Producers, ProducerStep(p), UNCHANGED consumerVars
      PROVE  Inv' /\ OutcomesFinal
  <2>1. RingInv' /\ OutcomesFinal /\ DiscardsKnown'
    BY <1>2, ProducerStepRing
  <2>2. DeliveryInv'
    BY <1>1, <1>2, <2>1, OthersKeepDelivery
  <2> QED
    BY <2>1, <2>2 DEF Inv
<1>3. ASSUME UNCHANGED <<cursor, entries, hasDiscards, outcome, untranslated,
                         available, prod, consumerVars>>
      PROVE  Inv' /\ OutcomesFinal
  <2>1. RingInv'
    BY <1>1, <1>3 DEF RingInv, ClaimInv, OutcomeInv, WordInv, WordOK, EntryInv, InLap
  <2>2. OutcomesFinal /\ DiscardsKnown'
    BY <1>1, <1>3 DEF OutcomesFinal, DiscardsKnown
  <2>3. DeliveryInv'
    BY <1>1, <1>3, <2>2, OthersKeepDelivery
  <2> QED
    BY <2>1, <2>2, <2>3 DEF Inv
<1>4. CASE /\ Seal \/ CloseRing
           /\ UNCHANGED <<gateCache, available, prod, consumerVars>>
  BY <1>3, <1>4 DEF Seal, CloseRing
<1>5. ASSUME NEW c \in Consumers, ConsumerStep(c), UNCHANGED producerVars
      PROVE  Inv' /\ OutcomesFinal
  <2>1. CoreStep(c, IsAvailable(con[c].at), IsDiscarded(con[c].last),
                 IsDiscarded(con[c].at), "scan")
    BY <1>5 DEF ConsumerStep, CoreStep
  <2>2. TrueAnswers(c, IsAvailable(con[c].at), IsDiscarded(con[c].last),
                    IsDiscarded(con[c].at), "scan")
    BY SequencerAnswers
  <2>3. UNCHANGED <<cursor, entries, hasDiscards, outcome, untranslated,
                    available, prod>>
    BY <1>5 DEF producerVars, ringVars
  <2>4. DeliveryInv'
    BY <1>1, <2>1, <2>2, <2>3, ConsumerStepDelivery
  <2>5. RingInv'
    BY <1>1, <2>3 DEF RingInv, ClaimInv, OutcomeInv, WordInv, WordOK, EntryInv, InLap
  <2>6. OutcomesFinal
    BY <1>1, <2>3 DEF OutcomesFinal
  <2> QED
    BY <2>4, <2>5, <2>6 DEF Inv
<1>6. CASE UNCHANGED vars
  BY <1>3, <1>6 DEF vars, producerVars, ringVars
<1> QED
  BY <1>2, <1>4, <1>5, <1>6 DEF OrdinaryNext

LEMMA InvStep ==
  ASSUME Attached, WordsDistinct, Inv, [Next]_vars
  PROVE  Inv'
<1>1. SafetyInv'
  BY SafetyStep DEF Inv
<1>2. CASE [OrdinaryNext]_vars
  BY <1>1, <1>2, OrdinaryStep
<1>3. ASSUME NEW s \in Sequences, NEW as \in {Published, Discarded},
             ResolveAgain(s, as), UNCHANGED consumerVars
      PROVE  Inv'
  <2>1. /\ RingTypes /\ RingTypes' /\ ConsumerInv /\ DeliveryInv
        /\ DiscardsKnown /\ cursor \in Int
    BY <1>1, RingTypesHold, RingNumbers, PTL DEF Inv, SafetyInv, DeliveryInv
  <2>2. /\ RingInv' /\ UNCHANGED <<cursor, outcome>>
        /\ hasDiscards' = hasDiscards \/ hasDiscards' = TRUE
    BY <1>3, ResolveAgainRing
  <2>3. OutcomesFinal /\ DiscardsKnown'
    BY <2>1, <2>2 DEF OutcomesFinal, DiscardsKnown
  <2>4. DeliveryInv'
    BY <1>3, <2>1, <2>3, OthersKeepDelivery
  <2> QED
    BY <1>1, <2>2, <2>4 DEF Inv
<1> QED
  BY <1>2, <1>3 DEF Next, OrdinaryNext

LEMMA Invariance ==
  ASSUME Attached, WordsDistinct
  PROVE  Spec => []Inv
BY InvInit, InvStep, PTL DEF Spec

-----------------------------------------------------------------------------
LEMMA OwnedHeld ==
  ASSUME TypeInv, NEW p \in Producers, NEW s \in Owned(p)
  PROVE  s \in Sequences /\ Holds(prod[p], s)
<1>1. /\ prod[p].current \in Int /\ -1 <= prod[p].current /\ High(p) = Top(prod[p])
      /\ Top(prod[p]) \in Int /\ prod[p].todo \subseteq Sequences
      /\ HasHigh(p) => Top(prod[p]) <= MaxSequence
  BY ClaimNumbers
<1>2. CASE prod[p].pc = "prepare"
  <2>1. s \in prod[p].current + 1 .. Top(prod[p]) /\ Top(prod[p]) <= MaxSequence
    BY <1>1, <1>2 DEF Owned, HasHigh
  <2>2. s \in Sequences /\ prod[p].current < s /\ s <= Top(prod[p])
    BY <1>1, <2>1, RingAssumption
  <2> QED
    BY <1>2, <2>2 DEF Holds
<1>3. CASE prod[p].pc \in {"owned", "resolve"}
  BY <1>1, <1>3 DEF Owned, Holds
<1>4. CASE prod[p].pc \notin {"prepare", "owned", "resolve"}
  BY <1>4 DEF Owned
<1> QED
  BY <1>2, <1>3, <1>4

LEMMA InvExclusive ==
  ASSUME Attached, Inv
  PROVE  SlotsExclusive
<1>1. TypeInv /\ RingInv /\ ConsumerInv
  BY DEF Inv, SafetyInv
<1>2. ASSUME NEW p \in Producers, NEW q \in Producers, NEW s \in Owned(p),
             NEW t \in Owned(q), p # q \/ s # t
      PROVE  Index(s) # Index(t)
  <2>1. /\ s \in Sequences /\ Holds(prod[p], s) /\ InLap(s)
        /\ t \in Sequences /\ Holds(prod[q], t) /\ InLap(t)
    BY <1>1, OwnedHeld, OwnedFacts
  <2>2. s # t /\ s \in Int /\ t \in Int
    BY <1>1, <1>2, <2>1, OnlyHolder, RingAssumption
  <2> QED
    BY <1>1, <2>1, <2>2, LapSlots
<1>3. ASSUME NEW p \in Producers, NEW c \in Consumers, NEW s \in Owned(p),
             con[c].pc \in {"select", "last", "handle"},
             NEW t \in Desired(c) .. con[c].available
      PROVE  Index(s) # Index(t)
  <2>1. s \in Sequences /\ InLap(s) /\ outcome[s] = Unresolved /\ s \in Int
    BY <1>1, OwnedHeld, OwnedFacts, RingAssumption
  <2>2. /\ sequence[c] \in Int /\ -1 <= sequence[c] /\ Desired(c) = sequence[c] + 1
        /\ con[c].available \in Int /\ con[c].available <= MaxSequence
        /\ con[c].available <= cursor
    BY <1>1, <1>3, Numbers DEF Inv, DeliveryInv, RunOK, BatchOK, Granted
  <2>3. t \in Sequences /\ sequence[c] < t /\ t <= con[c].available /\ t \in Int
    BY <2>2, RingAssumption
  <2>4. outcome[t] # Unresolved
    BY <1>3, <2>3 DEF Inv, DeliveryInv, RunOK, BatchOK, Scanned, Resolved
  <2>5. InLap(t)
    <3>1. cursor - BufferSize <= sequence[c] /\ cursor - BufferSize \in Int
          /\ cursor \in Int
      BY <1>1, PositionInLap, RingNumbers DEF Inv
    <3> QED
      BY <2>2, <2>3, <3>1 DEF InLap
  <2> QED
    BY <1>1, <2>1, <2>3, <2>4, <2>5, LapSlots
<1> QED
  BY <1>2, <1>3 DEF SlotsExclusive

LEMMA InvReads ==
  ASSUME Inv
  PROVE  ReadsOwnEvent
<1> SUFFICES ASSUME NEW c \in Consumers, con[c].pc = "handle",
                    NEW s \in con[c].at .. con[c].available,
                    outcome[s] = Published, s \notin untranslated
             PROVE  entries[Index(s)] = s
  BY DEF ReadsOwnEvent
<1>1. TypeInv /\ RingInv /\ ConsumerInv
  BY DEF Inv, SafetyInv
<1>2. /\ sequence[c] \in Int /\ -1 <= sequence[c] /\ con[c].at \in Int
      /\ con[c].available \in Int /\ con[c].available <= MaxSequence
      /\ con[c].available <= cursor /\ sequence[c] < con[c].at
  BY <1>1, Numbers DEF Inv, DeliveryInv, RunOK, BatchOK, Granted, Handling
<1>3. s \in Sequences /\ sequence[c] < s /\ s <= con[c].available /\ s \in Int
  BY <1>2, RingAssumption
<1>4. InLap(s)
  <2>1. cursor - BufferSize <= sequence[c] /\ cursor - BufferSize \in Int
        /\ cursor \in Int
    BY <1>1, PositionInLap, RingNumbers DEF Inv
  <2> QED
    BY <1>2, <1>3, <2>1 DEF InLap
<1>5. \A q \in Producers : ~Stale(prod[q], s)
  BY <1>1, <1>3, BlankHeld DEF RingInv, OutcomeInv
<1> QED
  BY <1>1, <1>3, <1>4, <1>5 DEF RingInv, EntryInv

(***************************************************************************)
(* Producers that own claims at the same time and consumers that read      *)
(* batches never share a slot, however claims, resolutions and batches     *)
(* interleave, in any topology whose final stages are gated.               *)
(***************************************************************************)
THEOREM SlotsNeverShared ==
  ASSUME Attached, WordsDistinct
  PROVE  Spec => []SlotsExclusive
BY Invariance, InvExclusive, PTL

(***************************************************************************)
(* Get hands every handler the event of the sequence it asks for, although *)
(* HighestPublished judges it by a word that keeps only some bits of the   *)
(* lap and that another producer may be about to prepare.                  *)
(***************************************************************************)
THEOREM EventsOwn ==
  ASSUME Attached, WordsDistinct
  PROVE  Spec => []ReadsOwnEvent
BY Invariance, InvReads, PTL

(***************************************************************************)
(* Run acknowledges only what its handler completed, and processBatch      *)
(* never delivers a discarded sequence, although producers resolve out of  *)
(* order and the ring's discarded flag is read once a batch.               *)
(***************************************************************************)
THEOREM NothingSkipped ==
  ASSUME Attached, WordsDistinct
  PROVE  Spec => []AcknowledgedWasHandled
<1>1. Inv => AcknowledgedWasHandled
  BY DeliveryHandled DEF Inv, SafetyInv
<1> QED
  BY <1>1, Invariance, PTL

(* processBatch passes endOfBatch with the last sequence it delivers. *)
THEOREM EndOfBatchExact ==
  ASSUME Attached, WordsDistinct
  PROVE  Spec => []EndOfBatchIsLastDelivered
<1>1. Inv => EndOfBatchIsLastDelivered
  BY DeliveryEndOfBatch DEF Inv, SafetyInv
<1> QED
  BY <1>1, Invariance, PTL

-----------------------------------------------------------------------------
(* The refinement, action by action. *)
LEMMA BroadcastInit == Init => Broadcast!Init
BY DEF Init, RingInit, Broadcast!Init, Broadcast!Unresolved

(* A swap that succeeds is the claim. *)
LEMMA SwapImplements ==
  ASSUME Inv, NEW p \in Producers, CompareAndSwap(p), cursor = prod[p].current,
         UNCHANGED consumerVars
  PROVE  Broadcast!Next
<1>1. TypeInv /\ RingInv /\ GateInv /\ prod[p].pc = "cas"
  BY DEF Inv, SafetyInv, CompareAndSwap
<1>2. /\ prod[p].count \in Int /\ prod[p].count >= 1 /\ prod[p].count <= BufferSize
      /\ Top(prod[p]) <= MaxSequence
  BY <1>1, ClaimNumbers DEF RingInv, ClaimInv, ClaimOK, HasHigh
<1>3. PICK count \in 1 .. BufferSize : count = prod[p].count
  BY <1>2, RingAssumption
<1>4. /\ cursor + count <= MaxSequence /\ cursor' = cursor + count
      /\ UNCHANGED <<outcome, sequence>>
  BY <1>2, <1>3 DEF CompareAndSwap, High, Top, ringVars, consumerVars
<1>5. \A g \in Gating : cursor + count - BufferSize <= sequence[g]
  <2>1. \A g \in Gating : WrapPoint(p) <= sequence[g]
    BY <1>1 DEF GateInv, Admitted
  <2>2. WrapPoint(p) = cursor + count - BufferSize
    <3>1. cursor \in Int /\ BufferSize \in Int /\ count \in Int
      BY <1>1, <1>2, <1>3, RingNumbers
    <3>2. High(p) = cursor + count
      BY <1>3 DEF High
    <3> QED
      BY <3>1, <3>2 DEF WrapPoint
  <2> QED
    BY <2>1, <2>2
<1>6. Broadcast!Claim(count)
  BY <1>4, <1>5 DEF Broadcast!Claim
<1> QED
  BY <1>6 DEF Broadcast!Next

(* Each swap of a publication word resolves one sequence. *)
LEMMA ResolveImplements ==
  ASSUME Attached, Inv, NEW p \in Producers, Resolve(p), UNCHANGED consumerVars
  PROVE  Broadcast!Next
<1>1. PICK low \in 0 .. MaxSequence :
        /\ low = prod[p].low /\ InLap(low) /\ outcome[low] = Unresolved
        /\ outcome' = [outcome EXCEPT ![low] = prod[p].as]
  BY ResolveSwaps
<1>2. PICK as \in {Published, Discarded} : as = prod[p].as
  BY ClaimNumbers DEF Inv, SafetyInv
<1>3. low <= low /\ low .. low = {low} /\ low <= cursor
  BY <1>1, RingAssumption DEF InLap
<1>4. /\ outcome' = [s \in 0 .. MaxSequence |->
                      IF s \in low .. low THEN as ELSE outcome[s]]
      /\ UNCHANGED <<cursor, sequence>>
  <2>1. outcome \in [0 .. MaxSequence -> Resolutions]
    BY RingNumbers DEF Inv, SafetyInv
  <2> QED
    BY <1>1, <1>2, <1>3, <2>1 DEF Resolve, consumerVars
<1>5. Broadcast!Resolve(low, low, as)
  BY <1>1, <1>3, <1>4 DEF Broadcast!Resolve, Broadcast!Unresolved
<1> QED
  BY <1>5 DEF Broadcast!Next, Broadcast!Published, Broadcast!Discarded

LEMMA ConsumerImplements ==
  ASSUME Inv, NEW c \in Consumers, ConsumerStep(c), UNCHANGED producerVars
  PROVE  Broadcast!Next \/ UNCHANGED <<cursor, outcome, sequence>>
<1>1. UNCHANGED <<cursor, outcome>>
  BY DEF producerVars, ringVars
<1>2. CASE Acknowledge(c)
  <2>1. RingTypes /\ ConsumerInv /\ DeliveryInv
    BY RingTypesHold DEF Inv, SafetyInv
  <2>2. /\ sequence' = [sequence EXCEPT ![c] = con[c].available]
        /\ sequence[c] <= con[c].available /\ con[c].available <= cursor
        /\ con[c].available \in Int /\ con[c].available <= MaxSequence
        /\ \A s \in sequence[c] + 1 .. con[c].available : Resolved(s)
        /\ \A d \in Upstream[c] : con[c].available <= sequence[d]
    BY <1>2, <2>1, AcknowledgeAdvances
  <2>3. /\ sequence[c] \in Int /\ -1 <= sequence[c] /\ cursor \in Int
        /\ sequence \in [Consumers -> Positions]
    BY <2>1, Numbers, RingNumbers DEF Inv, SafetyInv, ConsumerInv, ConsumerTypes
  <2>4. CASE con[c].available = sequence[c]
    BY <1>1, <2>2, <2>3, <2>4
  <2>5. CASE con[c].available # sequence[c]
    <3>1. PICK end \in 0 .. MaxSequence : end = con[c].available
      BY <2>2, <2>3, <2>5, RingAssumption
    <3>2. sequence[c] < end /\ end <= cursor
      BY <2>2, <2>3, <2>5, <3>1
    <3>3. Broadcast!Advance(c, end)
      BY <1>1, <2>2, <3>1, <3>2
      DEF Broadcast!Advance, Broadcast!Unresolved, Resolved
    <3> QED
      BY <3>3 DEF Broadcast!Next
  <2> QED
    BY <2>4, <2>5
<1>3. CASE ~Acknowledge(c)
  BY <1>1, <1>3
  DEF ConsumerStep, WaitForCursor, WaitForDependency, Scan, SelectBatch, FindLast,
      Deliver, SkipDiscarded, FailHandler
<1> QED
  BY <1>2, <1>3

LEMMA OrdinaryImplements ==
  ASSUME Attached, Inv, [OrdinaryNext]_vars
  PROVE  [Broadcast!Next]_(Broadcast!broadcastVars)
<1> SUFFICES Broadcast!Next \/ UNCHANGED <<cursor, outcome, sequence>>
  BY DEF Broadcast!broadcastVars
<1>1. ASSUME NEW p \in Producers, ProducerStep(p), UNCHANGED consumerVars
      PROVE  Broadcast!Next \/ UNCHANGED <<cursor, outcome, sequence>>
  <2>1. CASE CompareAndSwap(p) /\ cursor = prod[p].current
    BY <1>1, <2>1, SwapImplements
  <2>2. CASE Resolve(p)
    BY <1>1, <2>2, ResolveImplements
  <2>3. CASE \/ CheckSealed(p) \/ LoadCursor(p) \/ LoadGateCache(p)
             \/ \E g \in Gating : LoadGate(p, g)
             \/ WaitForCapacity(p) \/ StoreGateCache(p)
             \/ CompareAndSwap(p) /\ cursor # prod[p].current
             \/ Prepare(p) \/ Translate(p) \/ FailTranslation(p)
    BY <1>1, <2>3
    DEF CheckSealed, LoadCursor, LoadGateCache, LoadGate, WaitForCapacity,
        StoreGateCache, CompareAndSwap, Prepare, Translate, FailTranslation,
        ringVars, consumerVars
  <2>4. CASE \E low, high \in Sequences, as \in {Published, Discarded} :
               BeginResolve(p, low, high, as)
    BY <1>1, <2>4 DEF BeginResolve, consumerVars
  <2>5. CASE \E count \in ClaimSizes, try \in BOOLEAN : BeginClaim(p, count, try)
    BY <1>1, <2>5 DEF BeginClaim, ringVars, consumerVars
  <2> QED
    BY <1>1, <2>1, <2>2, <2>3, <2>4, <2>5 DEF ProducerStep, ClaimStep, OwnerStep
<1>2. CASE /\ Seal \/ CloseRing
           /\ UNCHANGED <<gateCache, available, prod, consumerVars>>
  BY <1>2 DEF Seal, CloseRing, consumerVars
<1>3. CASE \E c \in Consumers : ConsumerStep(c) /\ UNCHANGED producerVars
  BY <1>3, ConsumerImplements
<1>4. CASE UNCHANGED vars
  BY <1>4 DEF vars, producerVars, ringVars, consumerVars
<1> QED
  BY <1>1, <1>2, <1>3, <1>4 DEF OrdinaryNext

LEMMA BroadcastStep ==
  ASSUME Attached, WordsDistinct, Inv, [Next]_vars
  PROVE  [Broadcast!Next]_(Broadcast!broadcastVars)
<1>1. CASE [OrdinaryNext]_vars
  BY <1>1, OrdinaryImplements
<1>2. ASSUME NEW s \in Sequences, NEW as \in {Published, Discarded},
             ResolveAgain(s, as), UNCHANGED consumerVars
      PROVE  UNCHANGED (Broadcast!broadcastVars)
  BY <1>2, ResolveAgainRing DEF consumerVars, Broadcast!broadcastVars
<1> QED
  BY <1>1, <1>2 DEF Next, OrdinaryNext

(***************************************************************************)
(* The multi-producer ring implements the bounded broadcast: claims stay   *)
(* within a lap of the gates, every sequence is resolved once, by whoever  *)
(* claimed it, and consumers acknowledge resolved prefixes that their      *)
(* upstream acknowledged before.                                           *)
(***************************************************************************)
THEOREM ImplementsBroadcast ==
  ASSUME Attached, WordsDistinct
  PROVE  Spec => BroadcastSpec
BY BroadcastInit, BroadcastStep, Invariance, PTL
DEF Spec, BroadcastSpec, Broadcast!Spec
=============================================================================
