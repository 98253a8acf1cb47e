---------------------------- MODULE RingCore ------------------------------
(***************************************************************************)
(* What both producer modes share: the state of RingBuffer and             *)
(* sequencerBase, and the consumers, that is SequenceBarrier.WaitFor with  *)
(* a polling wait strategy, BatchProcessor.Run and processBatch.           *)
(* MultiProducer and SingleProducer extend this module and pass it what    *)
(* their sequencer answers (HighestPublished, IsDiscarded) as arguments.   *)
(*                                                                         *)
(* One action is one atomic memory access of the code.  The topology       *)
(* (barriers and gates) is assembled before the first publication, as the  *)
(* guides require, so only a processor stores its own Sequence and its     *)
(* local variable next always is sequence + 1.                             *)
(***************************************************************************)
EXTENDS Integers

CONSTANTS
  BufferSize,     \* physical slots of the ring (New admits powers of two)
  MaxSequence,    \* bound of the model: the last sequence that is claimed
  Consumers,      \* the batch processors attached to the ring
  Upstream,       \* the dependencies of each consumer's barrier; {} = cursor
  Gating,         \* the consumers registered with AddGatingSequences
  MaxBatchSize,   \* WithMaxBatchSize
  Failing         \* the consumers whose handler may return an error or panic

(***************************************************************************)
(* DownstreamClosed(V): V holds every consumer whose barrier depends on a  *)
(* member of V.                                                            *)
(***************************************************************************)
DownstreamClosed(V) ==
  \A c \in V : \A d \in Consumers : c \in Upstream[d] => d \in V

ASSUME RingAssumption ==
  /\ BufferSize \in Nat \ {0}
  /\ MaxSequence \in Nat
  /\ MaxBatchSize \in Nat \ {0}
  /\ Upstream \in [Consumers -> SUBSET Consumers]
  /\ Gating \subseteq Consumers
  /\ Failing \subseteq Consumers

(***************************************************************************)
(* The topology rule of the guides ("gate only the final stage"): from     *)
(* every consumer the barriers lead downstream to a gating sequence.       *)
(***************************************************************************)
ASSUME TopologyAssumption ==
  \A V \in SUBSET Consumers :
    V # {} /\ DownstreamClosed(V) => V \cap Gating # {}

VARIABLES
  cursor,        \* sequencerBase.cursor
  sealed,        \* sequencerBase.sealed: claims are refused
  closed,        \* sequencerBase.closed and closedCh
  entries,       \* RingBuffer.entries: the sequence last written to a slot
  hasDiscards,   \* RingBuffer.discarded: some claim was ever discarded
  outcome,       \* history: how each sequence was first resolved
  untranslated,  \* history: claims whose event was not (fully) written
  sequence,      \* BatchProcessor.sequence, one for each consumer
  con,           \* the local state of each consumer's Run call
  handled        \* history: the sequences each handler completed

ringVars == <<sealed, closed, entries, hasDiscards, outcome, untranslated>>
consumerVars == <<sequence, con, handled>>

InitialSequence == -1
Sequences == 0 .. MaxSequence
Positions == InitialSequence .. MaxSequence

(* What became of a claimed sequence (publication.go). *)
Unresolved == 0
Published == 1
Discarded == 2
Resolutions == {Unresolved, Published, Discarded}

(* RingBuffer.Get and the sequencers' index: the physical slot. *)
Index(s) == s % BufferSize
Slots == 0 .. BufferSize - 1

(* minimumSequence and sequenceGroup.Load fold their loads with this. *)
Minimum(a, b) == IF b < a THEN b ELSE a

-----------------------------------------------------------------------------
ConsumerState ==
  [pc : {"wait", "scan", "select", "last", "handle"},
   unread : SUBSET Consumers,    \* dependencies the group load has yet to read
   available : Positions,        \* what the barrier granted, later the batch's end
   at : 0 .. MaxSequence + 1,    \* the sequence looked at
   last : Positions,             \* lastDelivered of processBatch
   skip : BOOLEAN]               \* hasDiscardedClaims() when the batch began

IdleConsumer(c) ==
  [pc |-> "wait", unread |-> Upstream[c], available |-> InitialSequence,
   at |-> 0, last |-> InitialSequence, skip |-> FALSE]

RingInit ==
  /\ cursor = InitialSequence
  /\ sealed = FALSE /\ closed = FALSE
  /\ entries = [i \in Slots |-> InitialSequence]
  /\ hasDiscards = FALSE
  /\ outcome = [s \in Sequences |-> Unresolved]
  /\ untranslated = {}
  /\ sequence = [c \in Consumers |-> InitialSequence]
  /\ con = [c \in Consumers |-> IdleConsumer(c)]
  /\ handled = [c \in Consumers |-> {}]

(* The local variable next of Run, the desired sequence of WaitFor. *)
Desired(c) == sequence[c] + 1

(* Defect: the wait asks for more than the desired sequence. *)
DefectWaitForMore(c, then) ==
  /\ con[c].pc = "wait" /\ Upstream[c] = {}
  /\ cursor > Desired(c)
  /\ con' = [con EXCEPT ![c].pc = then, ![c].available = cursor,
                        ![c].at = Desired(c)]
  /\ UNCHANGED <<sequence, handled>>

(***************************************************************************)
(* waitFor of the polling strategies on a barrier over the producer        *)
(* cursor: the load that finds desired available.  Loads that do not are   *)
(* stuttering steps, and so is a Run that ends with ErrAlerted, ErrClosed  *)
(* or a context error here and is started again.                           *)
(***************************************************************************)
WaitForCursor(c, then) ==
  /\ con[c].pc = "wait" /\ Upstream[c] = {}
  /\ cursor >= Desired(c)
  /\ con' = [con EXCEPT ![c].pc = then, ![c].available = cursor,
                        ![c].at = Desired(c)]
  /\ UNCHANGED <<sequence, handled>>

(* Defect: the group load returns the last dependency, not the slowest. *)
DefectLastDependency(c, d, then) ==
  /\ con[c].pc = "wait" /\ d \in con[c].unread
  /\ LET rest == con[c].unread \ {d}
     IN \/ /\ rest # {}
           /\ con' = [con EXCEPT ![c].unread = rest]
        \/ /\ rest = {} /\ sequence[d] >= Desired(c)
           /\ con' = [con EXCEPT ![c].pc = then, ![c].unread = {},
                                 ![c].available = sequence[d],
                                 ![c].at = Desired(c)]
        \/ /\ rest = {} /\ sequence[d] < Desired(c)
           /\ con' = [con EXCEPT ![c] = IdleConsumer(c)]
  /\ UNCHANGED <<sequence, handled>>

(***************************************************************************)
(* The same on a barrier over dependencies: sequenceGroup.Load reads them  *)
(* one after the other (here in any order) and keeps the minimum.          *)
(***************************************************************************)
WaitForDependency(c, d, then) ==
  /\ con[c].pc = "wait" /\ d \in con[c].unread
  /\ LET seen == IF con[c].unread = Upstream[c]
                 THEN sequence[d] ELSE Minimum(con[c].available, sequence[d])
         rest == con[c].unread \ {d}
     IN \/ /\ rest # {}
           /\ con' = [con EXCEPT ![c].unread = rest, ![c].available = seen]
        \/ /\ rest = {} /\ seen >= Desired(c)
           /\ con' = [con EXCEPT ![c].pc = then, ![c].unread = {},
                                 ![c].available = seen, ![c].at = Desired(c)]
        \/ /\ rest = {} /\ seen < Desired(c)
           /\ con' = [con EXCEPT ![c] = IdleConsumer(c)]
  /\ UNCHANGED <<sequence, handled>>

(* Defect: the scan stops at a gap only when it is the last sequence. *)
DefectScanAcrossGap(c, resolved) ==
  /\ con[c].pc = "scan"
  /\ \/ /\ ~resolved /\ con[c].at = con[c].available
        /\ con' = [con EXCEPT ![c].pc = "select", ![c].available = con[c].at - 1]
     \/ /\ resolved /\ con[c].at = con[c].available
        /\ con' = [con EXCEPT ![c].pc = "select"]
     \/ /\ con[c].at < con[c].available
        /\ con' = [con EXCEPT ![c].at = @ + 1]
  /\ UNCHANGED <<sequence, handled>>

(***************************************************************************)
(* One iteration of HighestPublished(desired, available): resolved tells   *)
(* whether the sequence looked at is resolved.  A gap at desired itself    *)
(* yields desired - 1 and an empty batch.                                  *)
(***************************************************************************)
Scan(c, resolved) ==
  /\ con[c].pc = "scan"
  /\ \/ /\ ~resolved
        /\ con' = [con EXCEPT ![c].pc = "select", ![c].available = con[c].at - 1]
     \/ /\ resolved /\ con[c].at = con[c].available
        /\ con' = [con EXCEPT ![c].pc = "select"]
     \/ /\ resolved /\ con[c].at < con[c].available
        /\ con' = [con EXCEPT ![c].at = @ + 1]
  /\ UNCHANGED <<sequence, handled>>

(***************************************************************************)
(* Run caps the batch and processBatch loads the ring's discarded flag,    *)
(* which decides whether IsDiscarded is consulted at all.                  *)
(***************************************************************************)
SelectBatch(c) ==
  /\ con[c].pc = "select"
  /\ LET end == Minimum(con[c].available, Desired(c) + MaxBatchSize - 1)
     IN con' = [con EXCEPT ![c].pc = IF hasDiscards THEN "last" ELSE "handle",
                           ![c].skip = hasDiscards, ![c].available = end,
                           ![c].last = end, ![c].at = Desired(c)]
  /\ UNCHANGED <<sequence, handled>>

(* Defect: trailing discards are not stepped over. *)
DefectKeepTrailing(c, discarded) ==
  /\ con[c].pc = "last"
  /\ con' = [con EXCEPT ![c].pc = "handle"]
  /\ UNCHANGED <<sequence, handled>>

(* The first loop of processBatch: step back over trailing discards. *)
FindLast(c, discarded) ==
  /\ con[c].pc = "last"
  /\ IF con[c].last >= Desired(c) /\ discarded
     THEN con' = [con EXCEPT ![c].last = @ - 1]
     ELSE con' = [con EXCEPT ![c].pc = "handle"]
  /\ UNCHANGED <<sequence, handled>>

(* The handler is invoked for the sequence looked at. *)
Invokes(c, discarded) ==
  /\ con[c].pc = "handle" /\ con[c].at <= con[c].available
  /\ ~(con[c].skip /\ discarded)

Deliver(c, discarded) ==
  /\ Invokes(c, discarded)
  /\ handled' = [handled EXCEPT ![c] = @ \cup {con[c].at}]
  /\ con' = [con EXCEPT ![c].at = @ + 1]
  /\ UNCHANGED sequence

SkipDiscarded(c, discarded) ==
  /\ con[c].pc = "handle" /\ con[c].at <= con[c].available
  /\ con[c].skip /\ discarded
  /\ con' = [con EXCEPT ![c].at = @ + 1]
  /\ UNCHANGED <<sequence, handled>>

(* Defect: the failed batch is acknowledged. *)
DefectAcknowledgeFailed(c, discarded) ==
  /\ c \in Failing /\ Invokes(c, discarded)
  /\ sequence' = [sequence EXCEPT ![c] = con[c].available]
  /\ con' = [con EXCEPT ![c] = IdleConsumer(c)]
  /\ UNCHANGED handled

(***************************************************************************)
(* The handler returns an error or panics: Run returns HandlerError or     *)
(* HandlerPanicError, the batch stays unacknowledged, and the supervisor   *)
(* starts Run again.                                                       *)
(***************************************************************************)
FailHandler(c, discarded) ==
  /\ c \in Failing /\ Invokes(c, discarded)
  /\ con' = [con EXCEPT ![c] = IdleConsumer(c)]
  /\ UNCHANGED <<sequence, handled>>

(* Defect: the next sequence is stored instead of the batch's last one. *)
DefectAcknowledgeNext(c) ==
  /\ con[c].pc = "handle" /\ con[c].at > con[c].available
  /\ sequence' = [sequence EXCEPT ![c] = con[c].at]
  /\ con' = [con EXCEPT ![c] = IdleConsumer(c)]
  /\ UNCHANGED handled

(* sequence.Store(end) after the whole batch. *)
Acknowledge(c) ==
  /\ con[c].pc = "handle" /\ con[c].at > con[c].available
  /\ sequence' = [sequence EXCEPT ![c] = con[c].available]
  /\ con' = [con EXCEPT ![c] = IdleConsumer(c)]
  /\ UNCHANGED handled

-----------------------------------------------------------------------------
(***************************************************************************)
(* Close and Shutdown both seal the ring first and close it last.  When    *)
(* Shutdown closes it is not restricted here.                              *)
(***************************************************************************)
Seal ==
  /\ ~sealed /\ sealed' = TRUE
  /\ UNCHANGED <<cursor, closed, entries, hasDiscards, outcome, untranslated>>

CloseRing ==
  /\ sealed /\ ~closed /\ closed' = TRUE
  /\ UNCHANGED <<cursor, sealed, entries, hasDiscards, outcome, untranslated>>

-----------------------------------------------------------------------------
RingTypeOK ==
  /\ cursor \in Positions
  /\ sealed \in BOOLEAN /\ closed \in BOOLEAN
  /\ entries \in [Slots -> Positions]
  /\ hasDiscards \in BOOLEAN
  /\ outcome \in [Sequences -> Resolutions]
  /\ untranslated \in SUBSET Sequences
  /\ sequence \in [Consumers -> Positions]
  /\ con \in [Consumers -> ConsumerState]
  /\ handled \in [Consumers -> SUBSET Sequences]

(***************************************************************************)
(* What a handler is about to read is what the owner of that very sequence *)
(* wrote, unless its translation failed: Get(sequence) never returns the   *)
(* event of an earlier or a later lap.                                     *)
(***************************************************************************)
ReadsOwnEvent ==
  \A c \in Consumers :
    con[c].pc = "handle" =>
      \A s \in con[c].at .. con[c].available :
        outcome[s] = Published /\ s \notin untranslated => entries[Index(s)] = s

(***************************************************************************)
(* Acknowledged means delivered: the handler completed every published     *)
(* sequence up to the position that Run stored, and processBatch never     *)
(* handed it a discarded one, whenever the discard happened.               *)
(***************************************************************************)
AcknowledgedWasHandled ==
  \A c \in Consumers :
    /\ \A s \in 0 .. sequence[c] : outcome[s] = Published => s \in handled[c]
    /\ \A s \in handled[c] : outcome[s] = Published

(***************************************************************************)
(* processBatch passes endOfBatch with the last delivered sequence of the  *)
(* batch: that one is published and everything behind it is discarded.     *)
(***************************************************************************)
EndOfBatchIsLastDelivered ==
  \A c \in Consumers :
    con[c].pc = "handle" =>
      /\ con[c].last >= Desired(c) => outcome[con[c].last] = Published
      /\ \A s \in con[c].last + 1 .. con[c].available : outcome[s] = Discarded
=============================================================================
