----------------------------- MODULE EventPoller -----------------------------
(***************************************************************************)
(* EventPoller.Poll on a multi-producer ring.  One consumer of             *)
(* MultiProducer, any of Pollers, is driven by Poll calls of one           *)
(* application loop instead of Run.  processBatch is the one of RingCore.  *)
(* An alerted barrier returns ErrAlerted before it reads anything; that    *)
(* changes no state and is a stuttering step.                              *)
(***************************************************************************)
EXTENDS MultiProducer

CONSTANT Pollers   \* the consumers that may be the poller

ASSUME PollerAssumption == Pollers \subseteq Consumers

VARIABLE poll   \* the local state of a Poll call and its history

pollVars == <<vars, poll>>

Poller == poll.who

NoPoll(c) ==
  [who |-> c,                               \* the polled consumer, fixed
   pc |-> "idle",
   producerAvailable |-> InitialSequence,   \* the cursor as loaded
   result |-> "none",                       \* the PollState or error returned
   claimedAtStart |-> InitialSequence,      \* history: the cursor when Poll began
   seenAtStart |-> FALSE]                   \* history: next was visible then

(* s can be polled: it is resolved and every dependency has passed it. *)
Visible(s) ==
  s \in Sequences /\ outcome[s] # Unresolved /\ \A d \in Upstream[Poller] : sequence[d] >= s

PollInit == Init /\ \E c \in Pollers : poll = NoPoll(c)

Return(result) == poll' = [poll EXCEPT !.pc = "idle", !.result = result]

(* next := sequence.Load() + 1; only Poll stores the sequence. *)
BeginPoll ==
  /\ poll.pc = "idle"
  /\ poll' = [NoPoll(Poller) EXCEPT !.pc = "cursor", !.claimedAtStart = cursor,
                                    !.seenAtStart = Visible(Desired(Poller))]
  /\ UNCHANGED vars

LoadProducer ==
  /\ poll.pc = "cursor"
  /\ poll' = [poll EXCEPT !.pc = "dependent", !.producerAvailable = cursor]
  /\ UNCHANGED vars

(* dependent.Load() on a barrier over the cursor: a second load of it. *)
LoadDependentCursor ==
  /\ poll.pc = "dependent" /\ Upstream[Poller] = {}
  /\ \/ /\ cursor >= Desired(Poller)
        /\ WaitForCursor(Poller, "scan")
        /\ poll' = [poll EXCEPT !.pc = "batch"]
     \/ /\ cursor < Desired(Poller)
        /\ poll' = [poll EXCEPT !.pc = "closed"]
        /\ UNCHANGED consumerVars
  /\ UNCHANGED producerVars

(* The same over dependencies: the last load of the group decides. *)
LoadDependency(d) ==
  /\ poll.pc = "dependent" /\ d \in con[Poller].unread
  /\ WaitForDependency(Poller, d, "scan")
  /\ poll' = [poll EXCEPT !.pc =
       IF con'[Poller].pc = "scan" THEN "batch"
       ELSE IF con[Poller].unread = {d} THEN "closed" ELSE "dependent"]
  /\ UNCHANGED producerVars

(* HighestPublished(next, dependentAvailable); a gap at next ends the call. *)
ScanPublished ==
  /\ poll.pc = "batch"
  /\ Scan(Poller, IsAvailable(con[Poller].at))
  /\ UNCHANGED <<producerVars, poll>>

FindGap ==
  /\ poll.pc = "batch" /\ con[Poller].pc = "select"
  /\ con[Poller].available < Desired(Poller)
  /\ con' = [con EXCEPT ![Poller] = IdleConsumer(Poller)]
  /\ poll' = [poll EXCEPT !.pc = "closed",
                          !.producerAvailable = Desired(Poller)]   \* PollGating
  /\ UNCHANGED <<producerVars, sequence, handled>>

(* Defect: whatever is not available is reported as idle. *)
DefectAlwaysIdle ==
  /\ poll.pc = "closed"
  /\ Return(IF closed THEN "closed" ELSE "idle")
  /\ UNCHANGED vars

(* Nothing to process: the closed flag is loaded last. *)
ReportNothing ==
  /\ poll.pc = "closed"
  /\ Return(IF closed THEN "closed"
            ELSE IF poll.producerAvailable >= Desired(Poller) THEN "gating" ELSE "idle")
  /\ UNCHANGED vars

(* The batch is capped and handled as in Run ... *)
ProcessBatch ==
  /\ poll.pc = "batch"
  /\ \/ con[Poller].available >= Desired(Poller) /\ SelectBatch(Poller)
     \/ FindLast(Poller, IsDiscarded(con[Poller].last))
     \/ Deliver(Poller, IsDiscarded(con[Poller].at))
     \/ SkipDiscarded(Poller, IsDiscarded(con[Poller].at))
  /\ UNCHANGED <<producerVars, poll>>

(* ... then acknowledged, or left for a later Poll. *)
EndBatch ==
  /\ poll.pc = "batch"
  /\ \/ Acknowledge(Poller) /\ Return("processing")
     \/ FailHandler(Poller, IsDiscarded(con[Poller].at)) /\ Return("failed")
  /\ UNCHANGED producerVars

PollStep ==
  \/ BeginPoll \/ LoadProducer \/ LoadDependentCursor
  \/ \E d \in Consumers : LoadDependency(d)
  \/ ScanPublished \/ FindGap \/ ReportNothing \/ ProcessBatch \/ EndBatch

PollNext ==
  \/ PollStep
  \/ \E p \in Producers : ProducerStep(p) /\ UNCHANGED <<consumerVars, poll>>
  \/ /\ "Close" \in Calls /\ (Seal \/ CloseRing)
     /\ UNCHANGED <<gateCache, available, prod, consumerVars, poll>>
  \/ \E c \in Consumers \ {Poller} : ConsumerStep(c) /\ UNCHANGED <<producerVars, poll>>

PollSpec == PollInit /\ [][PollNext]_pollVars

-----------------------------------------------------------------------------
(***************************************************************************)
(* What Poll reports was true: a sequence that was visible when Poll began *)
(* is processed, whatever moves between its loads, and PollIdle means that *)
(* no producer had claimed another one.                                    *)
(***************************************************************************)
PollReportsTruth ==
  /\ poll.result \in {"idle", "gating", "closed"} => ~poll.seenAtStart
  /\ poll.result = "idle" => poll.claimedAtStart < Desired(Poller)
=============================================================================
