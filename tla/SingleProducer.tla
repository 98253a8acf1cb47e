--------------------------- MODULE SingleProducer ---------------------------
(***************************************************************************)
(* The single-producer ring: singleProducerSequencer, the RingBuffer       *)
(* operations built on it and the consumers of RingCore.  nextValue and    *)
(* cachedGate are plain fields of the one producer goroutine; the cursor   *)
(* is what it has published, so that HighestPublished returns its argument *)
(* and a consumer goes from the wait straight to its batch.  The producer  *)
(* waits for capacity by polling.                                          *)
(***************************************************************************)
EXTENDS RingCore

CONSTANTS
  ClaimSizes,   \* the counts the producer asks for
  Calls         \* what the application does besides Next and Publish

ASSUME ProducerAssumption ==
  /\ ClaimSizes \subseteq 1 .. BufferSize
  /\ Calls \subseteq {"TryNext", "ClaimAhead", "Discard", "DiscardAgain",
                      "PublishAgain", "TranslatorError", "Close"}

VARIABLES
  nextValue,    \* the highest claimed sequence
  cachedGate,   \* the slowest gate when capacity was last computed
  discarded,    \* the sequence last discarded in each slot
  prod          \* the local state of the producer's current call

sequencerVars == <<nextValue, cachedGate, discarded>>
producerVars == <<ringVars, cursor, sequencerVars, prod>>
vars == <<producerVars, consumerVars>>

(***************************************************************************)
(* IsDiscarded loads the cursor and then the slot's marker.  One step here *)
(* stands for both: while a batch holds s, s lies within a lap below the   *)
(* cursor at either load.                                                  *)
(***************************************************************************)
IsDiscarded(s) ==
  /\ s <= cursor /\ s > cursor - BufferSize
  /\ discarded[Index(s)] = s

-----------------------------------------------------------------------------
ProducerState ==
  [pc : {"idle", "sealed", "gates", "mark", "advance"},
   try : BOOLEAN,               \* TryNext rather than Next
   count : 0 .. BufferSize,     \* the sequences asked for
   minimum : Positions,         \* the slowest gate read so far
   unread : SUBSET Consumers,   \* gates minimumSequence has yet to read
   at : 0 .. MaxSequence + 1,   \* claimed sequences below this are translated
   low : Sequences,             \* the rest low .. high of a Discard call
   high : Sequences]

InitialProducer ==
  [pc |-> "idle", try |-> FALSE, count |-> 0, minimum |-> InitialSequence,
   unread |-> {}, at |-> 0, low |-> 0, high |-> 0]

(* The producer between two calls: only the translation progress remains. *)
Idle(at) == [InitialProducer EXCEPT !.at = at]

(* Claimed and not yet resolved. *)
Owned == cursor + 1 .. nextValue

(* What a claim of count sequences needs every gate to reach. *)
WrapPoint(count) == nextValue + count - BufferSize

-----------------------------------------------------------------------------
(***************************************************************************)
(* Next(ctx, count) and TryNext(count) up to the first gate read.  The     *)
(* cached gate either admits the claim at once, or Next enters             *)
(* waitForCapacity and TryNext reads the gates, with nextValue as the      *)
(* minimum of no gates.  A sealed ring returns ErrClosed and a count       *)
(* outside 1 .. BufferSize ErrInvalidClaimSize.  With ClaimAhead earlier   *)
(* claims may still be unresolved.  MaxSequence bounds the model.          *)
(***************************************************************************)
BeginClaim(count, try) ==
  /\ prod.pc = "idle" /\ ~sealed
  /\ try => "TryNext" \in Calls
  /\ Owned = {} \/ "ClaimAhead" \in Calls
  /\ nextValue + count <= MaxSequence
  /\ IF WrapPoint(count) > cachedGate \/ cachedGate > nextValue
     THEN /\ prod' = [prod EXCEPT !.pc = IF try THEN "gates" ELSE "sealed",
                                  !.try = try, !.count = count,
                                  !.unread = Gating, !.minimum = nextValue]
          /\ UNCHANGED nextValue
     ELSE /\ nextValue' = nextValue + count
          /\ UNCHANGED prod
  /\ UNCHANGED <<ringVars, cursor, cachedGate, discarded>>

(* Every iteration of waitForCapacity begins with sealed.Load(). *)
CheckSealed ==
  /\ prod.pc = "sealed"
  /\ prod' = IF sealed THEN Idle(prod.at) ELSE [prod EXCEPT !.pc = "gates"]
  /\ UNCHANGED <<ringVars, cursor, sequencerVars>>

(* Defect: the last gate read wins. *)
DefectLastGate(g) ==
  /\ prod.pc = "gates" /\ g \in prod.unread
  /\ prod' = [prod EXCEPT !.minimum = sequence[g], !.unread = @ \ {g}]
  /\ UNCHANGED <<ringVars, cursor, sequencerVars>>

(* minimumSequence reads the gates one after the other (here in any order). *)
LoadGate(g) ==
  /\ prod.pc = "gates" /\ g \in prod.unread
  /\ prod' = [prod EXCEPT
       !.minimum = IF prod.unread = Gating THEN sequence[g]
                   ELSE Minimum(@, sequence[g]),
       !.unread = @ \ {g}]
  /\ UNCHANGED <<ringVars, cursor, sequencerVars>>

(* Defect: the claim is cached instead of the slowest gate. *)
DefectCacheClaim ==
  /\ prod.pc = "gates" /\ prod.unread = {} /\ WrapPoint(prod.count) <= prod.minimum
  /\ cachedGate' = nextValue
  /\ nextValue' = nextValue + prod.count
  /\ prod' = Idle(prod.at)
  /\ UNCHANGED <<ringVars, cursor, discarded>>

(* The gates leave room: the cached gate and the claim are updated. *)
FinishClaim ==
  /\ prod.pc = "gates" /\ prod.unread = {} /\ WrapPoint(prod.count) <= prod.minimum
  /\ cachedGate' = prod.minimum
  /\ nextValue' = nextValue + prod.count
  /\ prod' = Idle(prod.at)
  /\ UNCHANGED <<ringVars, cursor, discarded>>

(* TryNext returns ErrInsufficientCapacity and keeps the new cached gate. *)
RefuseClaim ==
  /\ prod.pc = "gates" /\ prod.unread = {} /\ WrapPoint(prod.count) > prod.minimum
  /\ prod.try
  /\ cachedGate' = prod.minimum
  /\ prod' = Idle(prod.at)
  /\ UNCHANGED <<ringVars, cursor, nextValue, discarded>>

(***************************************************************************)
(* Next without capacity: producerWait.wait yields and the loop starts     *)
(* again, or it returns ErrClosed or, when ctx is done, the context error. *)
(***************************************************************************)
WaitForCapacity ==
  /\ prod.pc = "gates" /\ prod.unread = {} /\ WrapPoint(prod.count) > prod.minimum
  /\ ~prod.try
  /\ \/ /\ ~closed
        /\ prod' = [prod EXCEPT !.pc = "sealed", !.unread = Gating,
                                !.minimum = nextValue]
     \/ prod' = Idle(prod.at)
  /\ UNCHANGED <<ringVars, cursor, sequencerVars>>

-----------------------------------------------------------------------------
(* The producer writes the claimed events in order ... *)
Translate ==
  /\ prod.pc = "idle" /\ prod.at <= nextValue
  /\ entries' = [entries EXCEPT ![Index(prod.at)] = prod.at]
  /\ prod' = [prod EXCEPT !.at = @ + 1]
  /\ UNCHANGED <<cursor, sealed, closed, hasDiscards, outcome, untranslated,
                 sequencerVars>>

(* ... or gives up on the rest: the translator failed, or will discard. *)
FailTranslation ==
  /\ "TranslatorError" \in Calls
  /\ prod.pc = "idle" /\ prod.at <= nextValue
  /\ untranslated' = untranslated \cup (prod.at .. nextValue)
  /\ prod' = [prod EXCEPT !.at = nextValue + 1]
  /\ UNCHANGED <<cursor, sealed, closed, entries, hasDiscards, outcome,
                 sequencerVars>>

(***************************************************************************)
(* Publish(low, high) is one store of the cursor; claims are resolved in   *)
(* order, so that low is the first unresolved one.                         *)
(***************************************************************************)
Publish(high) ==
  /\ prod.pc = "idle" /\ high \in Owned /\ high < prod.at
  /\ cursor' = high
  /\ outcome' = [s \in Sequences |->
                  IF s \in cursor + 1 .. high THEN Published ELSE outcome[s]]
  /\ UNCHANGED <<sealed, closed, entries, hasDiscards, untranslated,
                 sequencerVars, prod>>

(***************************************************************************)
(* DiscardRange(low, high) stores the ring's discarded flag; Discard then  *)
(* stores the slot's marker and the cursor for each sequence above it.     *)
(***************************************************************************)
BeginDiscard(high) ==
  /\ "Discard" \in Calls
  /\ prod.pc = "idle" /\ high \in Owned /\ high < prod.at
  /\ hasDiscards' = TRUE
  /\ prod' = [prod EXCEPT !.pc = "mark", !.low = cursor + 1, !.high = high]
  /\ UNCHANGED <<cursor, sealed, closed, entries, outcome, untranslated,
                 sequencerVars>>

(* Defect: the marker is not stored. *)
DefectForgetMarker ==
  /\ prod.pc = "mark"
  /\ prod' = [prod EXCEPT !.pc = "advance"]
  /\ UNCHANGED <<ringVars, cursor, sequencerVars>>

MarkDiscarded ==
  /\ prod.pc = "mark"
  /\ discarded' = [discarded EXCEPT ![Index(prod.low)] = prod.low]
  /\ prod' = [prod EXCEPT !.pc = "advance"]
  /\ UNCHANGED <<ringVars, cursor, nextValue, cachedGate>>

(* Defect: the loop runs past high. *)
DefectAdvancePast ==
  /\ prod.pc = "advance"
  /\ cursor' = prod.low
  /\ outcome' = [outcome EXCEPT ![prod.low] = Discarded]
  /\ prod' = IF prod.low <= prod.high
             THEN [prod EXCEPT !.pc = "mark", !.low = @ + 1]
             ELSE Idle(prod.at)
  /\ UNCHANGED <<sealed, closed, entries, hasDiscards, untranslated,
                 sequencerVars>>

AdvanceDiscarded ==
  /\ prod.pc = "advance"
  /\ cursor' = prod.low
  /\ outcome' = [outcome EXCEPT ![prod.low] = Discarded]
  /\ prod' = IF prod.low < prod.high
             THEN [prod EXCEPT !.pc = "mark", !.low = @ + 1]
             ELSE Idle(prod.at)
  /\ UNCHANGED <<sealed, closed, entries, hasDiscards, untranslated,
                 sequencerVars>>

(***************************************************************************)
(* A resolved sequence is resolved again.  A discard stores the ring's     *)
(* flag and then finds the cursor at or beyond the sequence; a publication *)
(* stores the cursor.                                                      *)
(***************************************************************************)
DiscardAgain(s) ==
  /\ "DiscardAgain" \in Calls
  /\ prod.pc = "idle" /\ outcome[s] # Unresolved /\ s <= cursor
  /\ hasDiscards' = TRUE
  /\ UNCHANGED <<cursor, sealed, closed, entries, outcome, untranslated,
                 sequencerVars, prod>>

PublishAgain(s) ==
  /\ "PublishAgain" \in Calls
  /\ prod.pc = "idle" /\ outcome[s] # Unresolved
  /\ cursor' = s
  /\ UNCHANGED <<ringVars, sequencerVars, prod>>

-----------------------------------------------------------------------------
Init ==
  /\ RingInit
  /\ nextValue = InitialSequence
  /\ cachedGate = InitialSequence
  /\ discarded = [i \in Slots |-> InitialSequence]
  /\ prod = InitialProducer

(* What a claim in progress does. *)
ClaimStep ==
  \/ CheckSealed \/ \E g \in Gating : LoadGate(g)
  \/ FinishClaim \/ RefuseClaim \/ WaitForCapacity

(* What the producer does with what it has claimed. *)
OwnerStep ==
  \/ Translate \/ FailTranslation
  \/ \E high \in Sequences : Publish(high) \/ BeginDiscard(high)
  \/ MarkDiscarded \/ AdvanceDiscarded

ProducerStep ==
  \/ \E count \in ClaimSizes, try \in BOOLEAN : BeginClaim(count, try)
  \/ ClaimStep
  \/ OwnerStep
  \/ \E s \in Sequences : DiscardAgain(s) \/ PublishAgain(s)

ConsumerStep(c) ==
  \/ WaitForCursor(c, "select")
  \/ \E d \in Consumers : WaitForDependency(c, d, "select")
  \/ SelectBatch(c)
  \/ FindLast(c, IsDiscarded(con[c].last))
  \/ Deliver(c, IsDiscarded(con[c].at))
  \/ SkipDiscarded(c, IsDiscarded(con[c].at))
  \/ FailHandler(c, IsDiscarded(con[c].at))
  \/ Acknowledge(c)

Next ==
  \/ ProducerStep /\ UNCHANGED consumerVars
  \/ /\ "Close" \in Calls /\ (Seal \/ CloseRing)
     /\ UNCHANGED <<sequencerVars, prod, consumerVars>>
  \/ \E c \in Consumers : ConsumerStep(c) /\ UNCHANGED producerVars

Spec == Init /\ [][Next]_vars

-----------------------------------------------------------------------------
(* Every variable keeps its type. *)
TypeOK ==
  /\ RingTypeOK
  /\ nextValue \in Positions
  /\ cachedGate \in Positions
  /\ discarded \in [Slots -> Positions]
  /\ prod \in ProducerState

(***************************************************************************)
(* No claim laps a gate, although the gates are read one by one and the    *)
(* producer reuses a cached minimum for as long as it admits the claim.    *)
(***************************************************************************)
GatesProtected ==
  \A g \in Gating : nextValue - BufferSize <= sequence[g]

(***************************************************************************)
(* The slots the producer writes to are different from those that the      *)
(* batch of any consumer still reads.                                      *)
(***************************************************************************)
SlotsExclusive ==
  \A c \in Consumers : con[c].pc # "wait" =>
    \A s \in Owned, t \in Desired(c) .. con[c].available : Index(s) # Index(t)

(***************************************************************************)
(* "Duplicate resolution calls are ignored, and the first publish or       *)
(* discard wins" (docs/usage.md): a sequence stays visible once resolved.  *)
(***************************************************************************)
DuplicatesIgnored ==
  \A s \in Sequences : outcome[s] # Unresolved => s <= cursor

(***************************************************************************)
(* The single-producer ring, whose Publish resolves a whole range with one *)
(* store and whose Discard advances one sequence at a time, implements the *)
(* bounded broadcast.                                                      *)
(***************************************************************************)
Broadcast == INSTANCE BoundedBroadcast
               WITH claimed <- nextValue, position <- sequence
BroadcastSpec == Broadcast!Spec

(***************************************************************************)
(* Fairness: goroutines that can run are scheduled, and a claim once made  *)
(* is resolved, which the documentation demands of every caller.           *)
(***************************************************************************)
Fairness ==
  /\ WF_vars((ClaimStep \/ OwnerStep) /\ UNCHANGED consumerVars)
  /\ \A c \in Consumers : WF_vars(ConsumerStep(c) /\ UNCHANGED producerVars)

FairSpec == Spec /\ Fairness

(* Next waits for sequences that the producer itself has yet to resolve. *)
WaitsForItself ==
  prod.pc \in {"sealed", "gates"} /\ ~prod.try /\ WrapPoint(prod.count) > cursor

(***************************************************************************)
(* Every claimed sequence is acknowledged by every consumer.  Only one     *)
(* thing can prevent it: a producer that claims ahead until its own        *)
(* unresolved claims fill the ring waits for consumers that wait for it.   *)
(***************************************************************************)
EventuallyAcknowledged ==
  \A s \in Sequences, c \in Consumers :
    nextValue >= s ~> sequence[c] >= s \/ WaitsForItself
=============================================================================
