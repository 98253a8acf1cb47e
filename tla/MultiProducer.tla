---------------------------- MODULE MultiProducer ----------------------------
(***************************************************************************)
(* The multi-producer ring: multiProducerSequencer (claims by compare and  *)
(* swap on the cursor, a cached gate, one publication word for each slot), *)
(* the RingBuffer operations built on it, and the consumers of             *)
(* RingCore.  Producers wait for capacity by polling (yielding or busy     *)
(* spinning).  One action is one atomic access to shared memory together   *)
(* with the local computation that follows it.                             *)
(***************************************************************************)
EXTENDS RingCore

CONSTANTS
  Producers,    \* the goroutines that claim, one claim at a time each
  ClaimSizes,   \* the counts they ask for
  Calls,        \* what the application does besides Next and Publish
  WordLaps      \* the laps a publication word tells apart (2^62 in 64 bits)

ASSUME ProducerAssumption ==
  /\ WordLaps \in Nat \ {0, 1}
  /\ ClaimSizes \subseteq 1 .. BufferSize
  /\ Calls \subseteq {"TryNext", "Discard", "ResolveAgain", "TranslatorError", "Close"}

VARIABLES
  gateCache,     \* multiProducerSequencer.gateCache
  available,     \* multiProducerSequencer.available, a word for each slot
  prod           \* the local state of each producer

producerVars == <<ringVars, cursor, gateCache, available, prod>>
vars == <<producerVars, consumerVars>>

(***************************************************************************)
(* The lap of a sequence, and the word that stands for a state in that     *)
(* lap: two bits of state below the lap, which loses its highest bits.     *)
(***************************************************************************)
flag(s) == s \div BufferSize
Words == 0 .. 4 * WordLaps - 1
DefectWithoutLap(lap, state) == state
publicationValue(lap, state) == (4 * lap + state) % (4 * WordLaps)

(* The state the slot's word shows for s: a word of another lap is stale. *)
resolution(s) ==
  LET word == available[Index(s)]
  IN IF word = publicationValue(flag(s), Published) THEN Published
     ELSE IF word = publicationValue(flag(s), Discarded) THEN Discarded
     ELSE Unresolved

IsAvailable(s) == resolution(s) # Unresolved
IsDiscarded(s) == resolution(s) = Discarded

-----------------------------------------------------------------------------
ProducerState ==
  [pc : {"idle", "sealed", "cursor", "cache", "gates", "cas",
         "prepare", "owned", "resolve"},
   try : BOOLEAN,               \* TryNext rather than Next
   count : 0 .. BufferSize,     \* the sequences asked for
   current : Positions,         \* the cursor as loaded
   minimum : Positions,         \* the slowest gate read so far
   unread : SUBSET Consumers,   \* gates minimumSequence has yet to read
   at : 0 .. MaxSequence + 1,   \* prepared or translated below this one
   todo : SUBSET Sequences,     \* claimed sequences this call has not resolved
   low : Sequences,             \* the rest low .. high of a resolution call
   high : Sequences,
   as : {Published, Discarded}]

IdleProducer ==
  [pc |-> "idle", try |-> FALSE, count |-> 0, current |-> InitialSequence,
   minimum |-> InitialSequence, unread |-> {}, at |-> 0, todo |-> {},
   low |-> 0, high |-> 0, as |-> Published]

(* The last sequence of the claim, and what it needs every gate to reach. *)
High(p) == prod[p].current + prod[p].count
DefectWrapPoint(p) == High(p) - BufferSize - 1   \* off by one
WrapPoint(p) == High(p) - BufferSize

(* The sequences p has claimed and not yet resolved. *)
Owned(p) ==
  CASE prod[p].pc = "prepare" -> prod[p].current + 1 .. High(p)
    [] prod[p].pc \in {"owned", "resolve"} -> prod[p].todo
    [] OTHER -> {}

-----------------------------------------------------------------------------
(***************************************************************************)
(* Next(ctx, count) and TryNext(count) begin with sealed.Load() and return *)
(* ErrClosed when it is set.  A count outside 1 .. BufferSize returns      *)
(* ErrInvalidClaimSize before that and touches nothing.                    *)
(***************************************************************************)
BeginClaim(p, count, try) ==
  /\ prod[p].pc = "idle" /\ ~sealed
  /\ try => "TryNext" \in Calls
  /\ prod' = [prod EXCEPT ![p].pc = "cursor", ![p].count = count, ![p].try = try]
  /\ UNCHANGED <<ringVars, cursor, gateCache, available>>

(* The claim loop starts over with the same load. *)
CheckSealed(p) ==
  /\ prod[p].pc = "sealed"
  /\ prod' = IF sealed THEN [prod EXCEPT ![p] = IdleProducer]
                       ELSE [prod EXCEPT ![p].pc = "cursor"]
  /\ UNCHANGED <<ringVars, cursor, gateCache, available>>

(* current := cursor.Load().  MaxSequence bounds the model here. *)
LoadCursor(p) ==
  /\ prod[p].pc = "cursor"
  /\ cursor + prod[p].count <= MaxSequence
  /\ prod' = [prod EXCEPT ![p].pc = "cache", ![p].current = cursor]
  /\ UNCHANGED <<ringVars, cursor, gateCache, available>>

(***************************************************************************)
(* cached := gateCache.Load(): the cached gate either admits the claim or  *)
(* the gates are read, with current as the minimum of no gates at all.     *)
(***************************************************************************)
LoadGateCache(p) ==
  /\ prod[p].pc = "cache"
  /\ prod' = IF WrapPoint(p) > gateCache \/ gateCache > prod[p].current
             THEN [prod EXCEPT ![p].pc = "gates", ![p].unread = Gating,
                               ![p].minimum = prod[p].current]
             ELSE [prod EXCEPT ![p].pc = "cas"]
  /\ UNCHANGED <<ringVars, cursor, gateCache, available>>

(* Defect: the minimum is seeded with InitialSequence. *)
DefectSeed(p, g) ==
  /\ prod[p].pc = "gates" /\ g \in prod[p].unread
  /\ prod' = [prod EXCEPT ![p].minimum = Minimum(InitialSequence, sequence[g]),
                          ![p].unread = @ \ {g}]
  /\ UNCHANGED <<ringVars, cursor, gateCache, available>>

(* minimumSequence reads the gates one after the other (here in any order). *)
LoadGate(p, g) ==
  /\ prod[p].pc = "gates" /\ g \in prod[p].unread
  /\ prod' = [prod EXCEPT
       ![p].minimum = IF prod[p].unread = Gating THEN sequence[g]
                      ELSE Minimum(@, sequence[g]),
       ![p].unread = @ \ {g}]
  /\ UNCHANGED <<ringVars, cursor, gateCache, available>>

(***************************************************************************)
(* Next without capacity: producerWait.wait yields and the loop starts     *)
(* again, or it returns ErrClosed or, when ctx is done, the context error. *)
(***************************************************************************)
WaitForCapacity(p) ==
  /\ prod[p].pc = "gates" /\ prod[p].unread = {}
  /\ ~prod[p].try /\ WrapPoint(p) > prod[p].minimum
  /\ \/ /\ ~closed
        /\ prod' = [prod EXCEPT ![p] = [IdleProducer EXCEPT
                      !.pc = "sealed", !.count = prod[p].count]]
     \/ prod' = [prod EXCEPT ![p] = IdleProducer]
  /\ UNCHANGED <<ringVars, cursor, gateCache, available>>

(***************************************************************************)
(* gateCache.store(minimum).  TryNext also stores a minimum that does not  *)
(* admit the claim, before it returns ErrInsufficientCapacity.             *)
(***************************************************************************)
StoreGateCache(p) ==
  /\ prod[p].pc = "gates" /\ prod[p].unread = {}
  /\ prod[p].try \/ WrapPoint(p) <= prod[p].minimum
  /\ gateCache' = prod[p].minimum
  /\ prod' = IF WrapPoint(p) > prod[p].minimum
             THEN [prod EXCEPT ![p] = IdleProducer]
             ELSE [prod EXCEPT ![p].pc = "cas"]
  /\ UNCHANGED <<ringVars, cursor, available>>

(* Defect: the cursor is stored without comparing it. *)
DefectStoreCursor(p) ==
  /\ prod[p].pc = "cas"
  /\ cursor' = High(p)
  /\ prod' = [prod EXCEPT ![p].pc = "prepare", ![p].at = prod[p].current + 1]
  /\ UNCHANGED <<ringVars, gateCache, available>>

(* cursor.compareAndSwap(current, next): claim, or start over. *)
CompareAndSwap(p) ==
  /\ prod[p].pc = "cas"
  /\ \/ /\ cursor = prod[p].current
        /\ cursor' = High(p)
        /\ prod' = [prod EXCEPT ![p].pc = "prepare", ![p].at = cursor + 1]
     \/ /\ cursor # prod[p].current
        /\ prod' = [prod EXCEPT ![p] = [IdleProducer EXCEPT
                      !.pc = "sealed", !.count = prod[p].count, !.try = prod[p].try]]
        /\ UNCHANGED cursor
  /\ UNCHANGED <<ringVars, gateCache, available>>

(* prepare(current+1, next): mark each slot unresolved in its new lap. *)
Prepare(p) ==
  /\ prod[p].pc = "prepare"
  /\ available' = [available EXCEPT
       ![Index(prod[p].at)] = publicationValue(flag(prod[p].at), Unresolved)]
  /\ prod' = IF prod[p].at < High(p)
             THEN [prod EXCEPT ![p].at = @ + 1]
             ELSE [prod EXCEPT ![p].pc = "owned", ![p].at = prod[p].current + 1,
                               ![p].todo = prod[p].current + 1 .. High(p)]
  /\ UNCHANGED <<ringVars, cursor, gateCache>>

-----------------------------------------------------------------------------
(***************************************************************************)
(* The claimed events belong to the producer.  It translates them in       *)
(* order (Publish, PublishN or its own loop over Get) ...                  *)
(***************************************************************************)
Translate(p) ==
  /\ prod[p].pc = "owned" /\ prod[p].at <= High(p)
  /\ entries' = [entries EXCEPT ![Index(prod[p].at)] = prod[p].at]
  /\ prod' = [prod EXCEPT ![p].at = @ + 1]
  /\ UNCHANGED <<cursor, gateCache, available, sealed, closed, hasDiscards,
                 outcome, untranslated>>

(***************************************************************************)
(* ... until the translator returns an error or panics, or the owner gives *)
(* up on the claim before it wrote the rest, which keeps its stale event.  *)
(***************************************************************************)
FailTranslation(p) ==
  /\ "TranslatorError" \in Calls
  /\ prod[p].pc = "owned" /\ prod[p].at <= High(p)
  /\ untranslated' = untranslated \cup (prod[p].at .. High(p))
  /\ prod' = [prod EXCEPT ![p].at = High(p) + 1]
  /\ UNCHANGED <<cursor, gateCache, available, sealed, closed, entries,
                 hasDiscards, outcome>>

(* Defect: a discard does not store the ring's flag. *)
DefectForgetFlag(p, low, high, as) ==
  /\ prod[p].pc = "owned"
  /\ as = Discarded => "Discard" \in Calls
  /\ low <= high /\ low .. high \subseteq prod[p].todo /\ high < prod[p].at
  /\ prod' = [prod EXCEPT ![p].pc = "resolve", ![p].low = low,
                          ![p].high = high, ![p].as = as]
  /\ UNCHANGED <<ringVars, cursor, gateCache, available>>

(***************************************************************************)
(* PublishSequence, PublishRange, DiscardSequence and DiscardRange on a    *)
(* claimed range, in whatever order the owner calls them.  A discard first *)
(* stores the ring's discarded flag.                                       *)
(***************************************************************************)
BeginResolve(p, low, high, as) ==
  /\ prod[p].pc = "owned"
  /\ as = Discarded => "Discard" \in Calls
  /\ low <= high /\ low .. high \subseteq prod[p].todo /\ high < prod[p].at
  /\ hasDiscards' = (hasDiscards \/ as = Discarded)
  /\ prod' = [prod EXCEPT ![p].pc = "resolve", ![p].low = low,
                          ![p].high = high, ![p].as = as]
  /\ UNCHANGED <<cursor, gateCache, available, sealed, closed, entries,
                 outcome, untranslated>>

(* Defect: the word is stored whatever it holds. *)
DefectStoreWord(s, as) ==
  /\ available' = [available EXCEPT ![Index(s)] = publicationValue(flag(s), as)]
  /\ outcome' = [outcome EXCEPT ![s] = as]

(* The slot's word is swapped only while it is unresolved in the lap of s. *)
ResolveWord(s, as) ==
  IF available[Index(s)] = publicationValue(flag(s), Unresolved)
  THEN /\ available' = [available EXCEPT ![Index(s)] = publicationValue(flag(s), as)]
       /\ outcome' = [outcome EXCEPT ![s] = as]
  ELSE UNCHANGED <<available, outcome>>

(* Defect: the loop of resolve stops before high. *)
DefectResolveShort(p) ==
  /\ prod[p].pc = "resolve"
  /\ IF prod[p].low < prod[p].high THEN ResolveWord(prod[p].low, prod[p].as)
     ELSE UNCHANGED <<available, outcome>>
  /\ LET rest == prod[p].todo \ {prod[p].low}
     IN prod' = IF prod[p].low < prod[p].high
                THEN [prod EXCEPT ![p].low = @ + 1, ![p].todo = rest]
                ELSE IF rest # {}
                THEN [prod EXCEPT ![p].pc = "owned", ![p].todo = rest]
                ELSE [prod EXCEPT ![p] = IdleProducer]
  /\ UNCHANGED <<cursor, gateCache, sealed, closed, entries, hasDiscards,
                 untranslated>>

(* Defect: the loop of resolve runs past high. *)
DefectResolvePast(p) ==
  /\ prod[p].pc = "resolve"
  /\ ResolveWord(prod[p].low, prod[p].as)
  /\ LET rest == prod[p].todo \ {prod[p].low}
     IN prod' = IF prod[p].low <= prod[p].high
                THEN [prod EXCEPT ![p].low = @ + 1, ![p].todo = rest]
                ELSE IF rest # {}
                THEN [prod EXCEPT ![p].pc = "owned", ![p].todo = rest]
                ELSE [prod EXCEPT ![p] = IdleProducer]
  /\ UNCHANGED <<cursor, gateCache, sealed, closed, entries, hasDiscards,
                 untranslated>>

(***************************************************************************)
(* One iteration of resolve(low, high, resolution).  The signal to blocked *)
(* consumers that ends the call does nothing for the polling strategies.   *)
(***************************************************************************)
Resolve(p) ==
  /\ prod[p].pc = "resolve"
  /\ ResolveWord(prod[p].low, prod[p].as)
  /\ LET rest == prod[p].todo \ {prod[p].low}
     IN prod' = IF prod[p].low < prod[p].high
                THEN [prod EXCEPT ![p].low = @ + 1, ![p].todo = rest]
                ELSE IF rest # {}
                THEN [prod EXCEPT ![p].pc = "owned", ![p].todo = rest,
                                  ![p].low = 0, ![p].high = 0, ![p].as = Published]
                ELSE [prod EXCEPT ![p] = IdleProducer]
  /\ UNCHANGED <<cursor, gateCache, sealed, closed, entries, hasDiscards,
                 untranslated>>

(* A sequence that is already resolved is published or discarded again. *)
ResolveAgain(s, as) ==
  /\ "ResolveAgain" \in Calls
  /\ outcome[s] # Unresolved
  /\ hasDiscards' = (hasDiscards \/ as = Discarded)
  /\ ResolveWord(s, as)
  /\ UNCHANGED <<cursor, gateCache, sealed, closed, entries, prod, untranslated>>

-----------------------------------------------------------------------------
Init ==
  /\ RingInit
  /\ gateCache = InitialSequence
  /\ available = [i \in Slots |-> 4 * WordLaps - 1]   \* -1: every bit set
  /\ prod = [p \in Producers |-> IdleProducer]

(* What the producer does on its own once it was asked to claim. *)
ClaimStep(p) ==
  \/ CheckSealed(p) \/ LoadCursor(p) \/ LoadGateCache(p)
  \/ \E g \in Gating : LoadGate(p, g)
  \/ WaitForCapacity(p) \/ StoreGateCache(p) \/ CompareAndSwap(p) \/ Prepare(p)

(* What the owner of a claim does with it. *)
OwnerStep(p) ==
  \/ Translate(p) \/ FailTranslation(p)
  \/ \E low, high \in Sequences, as \in {Published, Discarded} :
       BeginResolve(p, low, high, as)
  \/ Resolve(p)

ProducerStep(p) ==
  \/ \E count \in ClaimSizes, try \in BOOLEAN : BeginClaim(p, count, try)
  \/ ClaimStep(p)
  \/ OwnerStep(p)

ConsumerStep(c) ==
  \/ WaitForCursor(c, "scan")
  \/ \E d \in Consumers : WaitForDependency(c, d, "scan")
  \/ Scan(c, IsAvailable(con[c].at))
  \/ SelectBatch(c)
  \/ FindLast(c, IsDiscarded(con[c].last))
  \/ Deliver(c, IsDiscarded(con[c].at))
  \/ SkipDiscarded(c, IsDiscarded(con[c].at))
  \/ FailHandler(c, IsDiscarded(con[c].at))
  \/ Acknowledge(c)

Next ==
  \/ \E p \in Producers : ProducerStep(p) /\ UNCHANGED consumerVars
  \/ \E s \in Sequences, as \in {Published, Discarded} :
       ResolveAgain(s, as) /\ UNCHANGED consumerVars
  \/ /\ "Close" \in Calls /\ (Seal \/ CloseRing)
     /\ UNCHANGED <<gateCache, available, prod, consumerVars>>
  \/ \E c \in Consumers : ConsumerStep(c) /\ UNCHANGED producerVars

Spec == Init /\ [][Next]_vars

-----------------------------------------------------------------------------
(* Every variable keeps its type. *)
TypeOK ==
  /\ RingTypeOK
  /\ gateCache \in Positions
  /\ available \in [Slots -> Words]
  /\ prod \in [Producers -> ProducerState]

(***************************************************************************)
(* No claim laps a gate, although Next and TryNext admit it from a cursor  *)
(* that may have moved, a cached gate that several producers overwrite and *)
(* gates read one after the other.                                         *)
(***************************************************************************)
GatesProtected ==
  \A g \in Gating : cursor - BufferSize <= sequence[g]

(***************************************************************************)
(* Get never hands one slot to two users that could race: claims that are  *)
(* owned at the same time have different slots, and no producer owns a     *)
(* slot that the batch of a consumer, gating or not, still reads.          *)
(***************************************************************************)
SlotsExclusive ==
  /\ \A p, q \in Producers : \A s \in Owned(p), t \in Owned(q) :
       (p # q \/ s # t) => Index(s) # Index(t)
  /\ \A p \in Producers, c \in Consumers : \A s \in Owned(p) :
       con[c].pc \in {"select", "last", "handle"} =>
         \A t \in Desired(c) .. con[c].available : Index(s) # Index(t)

(***************************************************************************)
(* The multi-producer ring, with its compare and swap loop, publication    *)
(* words and gap scan, implements the bounded broadcast: a lost, repeated  *)
(* or premature resolution, or a batch across a gap, would not be a step.  *)
(***************************************************************************)
Broadcast == INSTANCE BoundedBroadcast WITH claimed <- cursor, position <- sequence
BroadcastSpec == Broadcast!Spec

(***************************************************************************)
(* Fairness: a goroutine that can run is scheduled, and a claim once made  *)
(* is resolved, which the documentation demands of every caller.  Nobody   *)
(* has to start a claim.                                                   *)
(***************************************************************************)
Fairness ==
  /\ \A p \in Producers :
       WF_vars((ClaimStep(p) \/ OwnerStep(p)) /\ UNCHANGED consumerVars)
  /\ \A c \in Consumers : WF_vars(ConsumerStep(c) /\ UNCHANGED producerVars)

FairSpec == Spec /\ Fairness

(***************************************************************************)
(* Every claimed sequence is acknowledged by every consumer, in whatever   *)
(* order the producers resolve their claims: Run passes every gap that is  *)
(* filled in the end.                                                      *)
(***************************************************************************)
EventuallyAcknowledged ==
  \A s \in Sequences, c \in Consumers : cursor >= s ~> sequence[c] >= s

(***************************************************************************)
(* A claim in progress ends: the loop of Next, which waits for capacity    *)
(* and starts over when it loses the swap, leaves once consumers advance.  *)
(* (In the model it may also meet the bound MaxSequence.)                  *)
(***************************************************************************)
ClaimReturns ==
  \A p \in Producers :
    prod[p].pc = "cursor" ~>
      prod[p].pc \in {"idle", "prepare"} \/ cursor + prod[p].count > MaxSequence
=============================================================================
