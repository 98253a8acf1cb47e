-------------------------- MODULE EventPollerProofs --------------------------
(***************************************************************************)
(* What Poll reports, for every topology, number of producers and buffer   *)
(* size, and whatever moves between its loads.  The polled consumer takes  *)
(* the steps of a running one, so that the ring invariant carries over;    *)
(* what is new is the empty batch at a gap, which Poll drops where Run     *)
(* would acknowledge it.                                                   *)
(***************************************************************************)
EXTENDS EventPoller, MultiProducerRingProofs

PollState ==
  [who : Pollers, pc : {"idle", "cursor", "dependent", "batch", "closed"},
   producerAvailable : Int,
   result : {"none", "idle", "gating", "closed", "processing", "failed"},
   claimedAtStart : Int, seenAtStart : BOOLEAN]

(* Where the polled consumer is while the call is at poll.pc. *)
StageInv ==
  /\ poll.pc \in {"idle", "cursor", "closed"} =>
       con[Poller].pc = "wait" /\ con[Poller].unread = Upstream[Poller]
  /\ poll.pc = "dependent" => con[Poller].pc = "wait"
  /\ poll.pc = "batch" => con[Poller].pc # "wait"
  /\ poll.pc # "idle" => poll.result = "none"

(***************************************************************************)
(* The cursor that Poll loaded covers what was claimed when the call       *)
(* began, or the sequence asked for (a gap was met below the cursor).      *)
(***************************************************************************)
CursorInv ==
  /\ poll.pc # "idle" => poll.claimedAtStart <= cursor
  /\ poll.pc \in {"dependent", "batch", "closed"} =>
       \/ poll.claimedAtStart <= poll.producerAvailable
       \/ Desired(Poller) <= poll.producerAvailable
  /\ poll.pc = "idle" /\ poll.result = "idle" =>
       poll.claimedAtStart < Desired(Poller)

(***************************************************************************)
(* What was visible when the call began stays visible; no load of the call *)
(* falls below it, the scan does not stop at it, and the call does not     *)
(* come to report that nothing can be processed.                           *)
(***************************************************************************)
SeenInv ==
  poll.seenAtStart = TRUE =>
    /\ poll.pc = "idle" => poll.result \notin {"idle", "gating", "closed"}
    /\ poll.pc # "idle" => Visible(Desired(Poller))
    /\ poll.pc # "closed"
    /\ poll.pc = "dependent" /\ con[Poller].unread # Upstream[Poller] =>
         Desired(Poller) <= con[Poller].available
    /\ poll.pc = "batch" /\ con[Poller].pc \in {"scan", "select"} =>
         Desired(Poller) <= con[Poller].available

PollInv == poll \in PollState /\ StageInv /\ CursorInv /\ SeenInv

USE DEF InitialSequence, Unresolved, Published, Discarded, Resolutions,
        Sequences, Positions

-----------------------------------------------------------------------------
LEMMA PollNumbers ==
  ASSUME Inv, PollInv
  PROVE  /\ Poller \in Consumers /\ Attached
         /\ sequence[Poller] \in Int /\ -1 <= sequence[Poller]
         /\ Desired(Poller) = sequence[Poller] + 1 /\ Desired(Poller) \in Int
         /\ con[Poller].available \in Int /\ con[Poller].at \in Int
         /\ con[Poller] \in ConsumerState
         /\ cursor \in Int /\ poll.producerAvailable \in Int
         /\ poll.claimedAtStart \in Int
         /\ Upstream[Poller] \subseteq Consumers
<1>1. Poller \in Consumers /\ poll.producerAvailable \in Int
      /\ poll.claimedAtStart \in Int
  BY PollerAssumption DEF PollInv, PollState, Poller
<1>2. ConsumerInv /\ TypeInv
  BY DEF Inv, SafetyInv
<1> QED
  BY <1>1, <1>2, Numbers, RingNumbers, ConsumerLocal, RingAssumption DEF Attached

LEMMA PollInitial == PollInit => Inv /\ PollInv
<1> SUFFICES ASSUME PollInit PROVE Inv /\ PollInv
  OBVIOUS
<1>1. Inv
  BY InvInit DEF PollInit
<1>2. PICK c \in Pollers : poll = NoPoll(c)
  BY DEF PollInit
<1>3. /\ poll \in PollState /\ poll.who = c /\ poll.pc = "idle"
      /\ poll.result = "none" /\ poll.seenAtStart = FALSE
  BY <1>2 DEF NoPoll, PollState
<1>4. con[c].pc = "wait" /\ con[c].unread = Upstream[c]
  BY <1>2, PollerAssumption DEF PollInit, Init, RingInit, IdleConsumer
<1>5. StageInv /\ CursorInv /\ SeenInv
  BY <1>3, <1>4 DEF StageInv, CursorInv, SeenInv, Poller
<1> QED
  BY <1>1, <1>3, <1>5 DEF PollInv

(* What is visible stays visible. *)
LEMMA VisibleKept ==
  ASSUME Inv, Inv', PollInv, OutcomesFinal, PositionsAdvance,
         poll'.who = poll.who, NEW s \in Int, Visible(s)
  PROVE  Visible(s)'
<1>1. \A d \in Consumers : /\ sequence[d] \in Int /\ sequence'[d] \in Int
                           /\ sequence[d] <= sequence'[d]
  BY DEF Inv, SafetyInv, ConsumerInv, ConsumerTypes, PositionsAdvance
<1>2. Upstream[Poller] \subseteq Consumers /\ Poller' = Poller
  BY PollNumbers DEF Poller
<1>3. s \in Sequences /\ outcome'[s] # Unresolved
  BY DEF Visible, OutcomesFinal, Resolved
<1> QED
  BY <1>1, <1>2, <1>3 DEF Visible

(* What others do does not matter to a Poll call. *)
LEMMA PollKept ==
  ASSUME Inv, Inv', PollInv, OutcomesFinal, PositionsAdvance, UNCHANGED poll,
         con'[Poller] = con[Poller], sequence'[Poller] = sequence[Poller]
  PROVE  PollInv'
<1>1. Desired(Poller)' = Desired(Poller) /\ Poller' = Poller
      /\ con'[Poller'] = con[Poller]
  BY DEF Desired, Poller
<1>2. poll' \in PollState /\ StageInv'
  BY <1>1 DEF PollInv, StageInv
<1>3. CursorInv'
  <2>1. cursor \in Int /\ cursor' \in Int /\ poll.claimedAtStart \in Int
        /\ cursor <= cursor'
    BY PollNumbers, RingAssumption
    DEF Inv, SafetyInv, TypeInv, TypeOK, RingTypeOK, OutcomesFinal
  <2> QED
    BY <1>1, <2>1 DEF PollInv, CursorInv
<1>4. SeenInv'
  <2>1. poll.seenAtStart = TRUE /\ poll.pc # "idle" => Visible(Desired(Poller))'
    BY <1>1, PollNumbers, VisibleKept DEF PollInv, SeenInv
  <2> QED
    BY <1>1, <2>1 DEF PollInv, SeenInv
<1> QED
  BY <1>2, <1>3, <1>4 DEF PollInv

(* A sequence that is visible lies in the last lap and its word says so. *)
LEMMA VisibleAnswer ==
  ASSUME Inv, PollInv, Visible(Desired(Poller))
  PROVE  IsAvailable(Desired(Poller)) /\ Desired(Poller) <= cursor
<1> DEFINE s == Desired(Poller)
<1>1. s \in Sequences /\ outcome[s] # Unresolved
  BY DEF Visible
<1>2. s <= cursor
  BY <1>1, PollNumbers DEF Inv, RingInv, OutcomeInv
<1>3. cursor - BufferSize <= sequence[Poller] /\ cursor - BufferSize \in Int
  BY PollNumbers, PositionInLap, RingNumbers DEF Inv, SafetyInv
<1>4. InLap(s)
  BY <1>2, <1>3, PollNumbers DEF InLap
<1>5. resolution(s) = outcome[s]
  BY <1>1, <1>4, WordsAnswer DEF Inv, SafetyInv
<1> QED
  BY <1>1, <1>2, <1>5 DEF IsAvailable

-----------------------------------------------------------------------------
(* The steps of a Poll call. *)
LEMMA BeginPollInv ==
  ASSUME Inv, PollInv, BeginPoll
  PROVE  PollInv'
<1>1. UNCHANGED <<cursor, outcome, sequence, con>> /\ poll.pc = "idle"
  BY DEF BeginPoll, vars, producerVars, ringVars, consumerVars
<1>2. /\ poll'.who = Poller /\ poll'.pc = "cursor" /\ poll'.result = "none"
      /\ poll'.claimedAtStart = cursor /\ poll'.producerAvailable = -1
      /\ poll'.seenAtStart = Visible(Desired(Poller))
  BY DEF BeginPoll, NoPoll
<1>3. Visible(Desired(Poller)) \in BOOLEAN
  BY DEF Visible
<1>4. poll' \in PollState
  <2>1. poll' = [who |-> poll'.who, pc |-> poll'.pc,
                 producerAvailable |-> poll'.producerAvailable,
                 result |-> poll'.result, claimedAtStart |-> poll'.claimedAtStart,
                 seenAtStart |-> poll'.seenAtStart]
    BY DEF BeginPoll, NoPoll
  <2>2. Poller \in Pollers /\ cursor \in Int /\ -1 \in Int
    BY PollNumbers DEF PollInv, PollState, Poller
  <2> QED
    BY <1>2, <1>3, <2>1, <2>2, Zenon DEF PollState
<1>5. /\ Poller' = Poller /\ Desired(Poller)' = Desired(Poller)
      /\ Visible(Desired(Poller))' = Visible(Desired(Poller))
  BY <1>1, <1>2 DEF Poller, Desired, Visible
<1>6. con'[Poller'] = con[Poller] /\ cursor \in Int
  BY <1>1, <1>5, PollNumbers
<1>7. StageInv' /\ CursorInv'
  BY <1>1, <1>2, <1>5, <1>6 DEF PollInv, StageInv, CursorInv
<1>8. SeenInv'
  BY <1>2, <1>5 DEF SeenInv
<1> QED
  BY <1>4, <1>7, <1>8 DEF PollInv

(* A call that goes on, and one that ends. *)
LEMMA PollAt ==
  ASSUME poll \in PollState,
         NEW pc \in {"idle", "cursor", "dependent", "batch", "closed"},
         poll' = [poll EXCEPT !.pc = pc]
  PROVE  /\ poll' \in PollState /\ poll'.pc = pc /\ poll'.result = poll.result
         /\ poll'.producerAvailable = poll.producerAvailable
         /\ poll'.who = poll.who /\ poll'.seenAtStart = poll.seenAtStart
         /\ poll'.claimedAtStart = poll.claimedAtStart /\ Poller' = Poller
BY DEF PollState, Poller

LEMMA PollReturns ==
  ASSUME poll \in PollState, NEW result \in
           {"none", "idle", "gating", "closed", "processing", "failed"},
         Return(result)
  PROVE  /\ poll' \in PollState /\ poll'.pc = "idle" /\ poll'.result = result
         /\ poll'.who = poll.who /\ poll'.seenAtStart = poll.seenAtStart
         /\ poll'.claimedAtStart = poll.claimedAtStart /\ Poller' = Poller
BY DEF PollState, Poller, Return

LEMMA LoadProducerInv ==
  ASSUME Inv, PollInv, LoadProducer
  PROVE  PollInv'
<1>1. UNCHANGED <<cursor, outcome, sequence, con>> /\ poll.pc = "cursor"
      /\ poll.result = "none"
  BY DEF LoadProducer, vars, producerVars, ringVars, consumerVars, PollInv, StageInv
<1>2. /\ poll' \in PollState /\ poll'.pc = "dependent" /\ poll'.result = "none"
      /\ poll'.producerAvailable = cursor
      /\ poll'.who = poll.who /\ poll'.seenAtStart = poll.seenAtStart
      /\ poll'.claimedAtStart = poll.claimedAtStart /\ Poller' = Poller
  BY <1>1, PollNumbers DEF LoadProducer, PollInv, PollState, Poller
<1>3. /\ Desired(Poller)' = Desired(Poller)
      /\ Visible(Desired(Poller))' = Visible(Desired(Poller))
      /\ con'[Poller'] = con[Poller]
  BY <1>1, <1>2 DEF Desired, Visible
<1>4. StageInv' /\ CursorInv' /\ SeenInv'
  BY <1>1, <1>2, <1>3, PollNumbers DEF PollInv, StageInv, CursorInv, SeenInv
<1> QED
  BY <1>2, <1>4 DEF PollInv

LEMMA LoadDependentCursorInv ==
  ASSUME Inv, PollInv, LoadDependentCursor
  PROVE  PollInv'
<1>1. /\ UNCHANGED <<cursor, outcome, sequence>> /\ poll.pc = "dependent"
      /\ poll.result = "none" /\ Upstream[Poller] = {}
      /\ con[Poller].pc = "wait"
  BY DEF LoadDependentCursor, WaitForCursor, producerVars, ringVars, consumerVars,
         PollInv, StageInv
<1>2. CASE /\ cursor >= Desired(Poller)
           /\ WaitForCursor(Poller, "scan")
           /\ poll' = [poll EXCEPT !.pc = "batch"]
  <2>1. /\ poll' \in PollState /\ poll'.pc = "batch" /\ poll'.result = "none"
        /\ poll'.producerAvailable = poll.producerAvailable
        /\ poll'.who = poll.who /\ poll'.seenAtStart = poll.seenAtStart
        /\ poll'.claimedAtStart = poll.claimedAtStart /\ Poller' = Poller
    BY <1>1, <1>2, PollAt DEF PollInv
  <2>2. /\ Desired(Poller)' = Desired(Poller)
        /\ Visible(Desired(Poller))' = Visible(Desired(Poller))
    BY <1>1, <2>1 DEF Desired, Visible
  <2>3. con'[Poller'].pc = "scan" /\ con'[Poller'].available = cursor
    BY <1>2, <2>1, PollNumbers
    DEF WaitForCursor, Inv, SafetyInv, ConsumerInv, ConsumerTypes, ConsumerState
  <2>4. StageInv' /\ CursorInv' /\ SeenInv'
    BY <1>1, <1>2, <2>1, <2>2, <2>3, PollNumbers
    DEF PollInv, StageInv, CursorInv, SeenInv
  <2> QED
    BY <2>1, <2>4 DEF PollInv
<1>3. CASE /\ cursor < Desired(Poller)
           /\ poll' = [poll EXCEPT !.pc = "closed"]
           /\ UNCHANGED consumerVars
  <2>1. /\ poll' \in PollState /\ poll'.pc = "closed" /\ poll'.result = "none"
        /\ poll'.producerAvailable = poll.producerAvailable
        /\ poll'.who = poll.who /\ poll'.seenAtStart = poll.seenAtStart
        /\ poll'.claimedAtStart = poll.claimedAtStart /\ Poller' = Poller
    BY <1>1, <1>3, PollAt DEF PollInv
  <2>2. /\ Desired(Poller)' = Desired(Poller) /\ con'[Poller'] = con[Poller]
    BY <1>1, <1>3, <2>1 DEF Desired, consumerVars
  <2>3. con[Poller].unread = {}
    BY <1>1, PollNumbers DEF Inv, DeliveryInv, RunOK, BatchOK, Loading
  <2>4. poll.seenAtStart # TRUE
    <3>1. ~Visible(Desired(Poller))
      BY <1>3, PollNumbers, VisibleAnswer
    <3> QED
      BY <1>1, <3>1 DEF PollInv, SeenInv
  <2>5. StageInv' /\ CursorInv' /\ SeenInv'
    BY <1>1, <2>1, <2>2, <2>3, <2>4 DEF PollInv, StageInv, CursorInv, SeenInv
  <2> QED
    BY <2>1, <2>5 DEF PollInv
<1> QED
  BY <1>2, <1>3 DEF LoadDependentCursor

LEMMA LoadDependencyInv ==
  ASSUME Inv, PollInv, NEW d \in Consumers, LoadDependency(d)
  PROVE  PollInv'
<1> DEFINE seen == IF con[Poller].unread = Upstream[Poller] THEN sequence[d]
                   ELSE Minimum(con[Poller].available, sequence[d])
           rest == con[Poller].unread \ {d}
<1>1. /\ UNCHANGED <<cursor, outcome, sequence>> /\ poll.pc = "dependent"
      /\ poll.result = "none" /\ con[Poller].pc = "wait"
      /\ d \in con[Poller].unread /\ WaitForDependency(Poller, d, "scan")
  BY DEF LoadDependency, WaitForDependency, producerVars, ringVars, consumerVars,
         PollInv, StageInv
<1>2. con[Poller].unread \subseteq Upstream[Poller] /\ d \in Upstream[Poller]
  BY <1>1, PollNumbers DEF Inv, DeliveryInv, RunOK, BatchOK, Loading
<1>3. sequence[d] \in Int /\ seen \in Int
  BY PollNumbers, Numbers DEF Inv, SafetyInv, Minimum
<1>4. poll.seenAtStart = TRUE => Desired(Poller) <= seen
  <2> SUFFICES ASSUME poll.seenAtStart = TRUE PROVE Desired(Poller) <= seen
    OBVIOUS
  <2>1. Desired(Poller) <= sequence[d]
    BY <1>1, <1>2, <1>3, PollNumbers DEF PollInv, SeenInv, Visible
  <2>2. con[Poller].unread # Upstream[Poller] =>
          Desired(Poller) <= con[Poller].available
    BY <1>1 DEF PollInv, SeenInv
  <2> QED
    BY <2>1, <2>2 DEF Minimum
<1>5. \E pc \in {"batch", "closed", "dependent"} :
        /\ poll' = [poll EXCEPT !.pc = pc]
        /\ pc = (IF con'[Poller].pc = "scan" THEN "batch"
                 ELSE IF con[Poller].unread = {d} THEN "closed" ELSE "dependent")
  BY DEF LoadDependency
<1>6. PICK pc \in {"batch", "closed", "dependent"} :
        /\ poll' = [poll EXCEPT !.pc = pc]
        /\ pc = (IF con'[Poller].pc = "scan" THEN "batch"
                 ELSE IF con[Poller].unread = {d} THEN "closed" ELSE "dependent")
  BY <1>5
<1>7. /\ poll' \in PollState /\ poll'.pc = pc /\ poll'.result = "none"
      /\ poll'.producerAvailable = poll.producerAvailable
      /\ poll'.who = poll.who /\ poll'.seenAtStart = poll.seenAtStart
      /\ poll'.claimedAtStart = poll.claimedAtStart /\ Poller' = Poller
  BY <1>1, <1>6, PollAt DEF PollInv
<1>8. /\ Desired(Poller)' = Desired(Poller)
      /\ Visible(Desired(Poller))' = Visible(Desired(Poller))
  BY <1>1, <1>7 DEF Desired, Visible
<1>9. CursorInv'
  BY <1>1, <1>7, <1>8 DEF PollInv, CursorInv
<1>10. con \in [Consumers -> ConsumerState] /\ Poller \in Consumers
  BY PollNumbers DEF Inv, SafetyInv, ConsumerInv, ConsumerTypes
<1>11. CASE rest # {}
  <2>1. con' = [con EXCEPT ![Poller].unread = rest, ![Poller].available = seen]
    BY <1>1, <1>11 DEF WaitForDependency
  <2>2. /\ con'[Poller].pc = "wait" /\ con'[Poller].unread = rest
        /\ con'[Poller].available = seen
    BY <1>1, <1>10, <2>1 DEF ConsumerState
  <2>3. pc = "dependent"
    BY <1>6, <1>11, <2>2
  <2> HIDE DEF seen, rest
  <2> QED
    BY <1>1, <1>4, <1>7, <1>8, <1>9, <2>2, <2>3 DEF PollInv, StageInv, SeenInv
<1>12. CASE rest = {} /\ Desired(Poller) <= seen
  <2>1. con' = [con EXCEPT ![Poller].pc = "scan", ![Poller].unread = {},
                           ![Poller].available = seen,
                           ![Poller].at = Desired(Poller)]
    BY <1>1, <1>3, <1>12, PollNumbers DEF WaitForDependency
  <2>2. con'[Poller].pc = "scan" /\ con'[Poller].available = seen
    BY <1>1, <1>10, <2>1 DEF ConsumerState
  <2>3. pc = "batch"
    BY <1>6, <2>2
  <2> HIDE DEF seen, rest
  <2> QED
    BY <1>1, <1>4, <1>7, <1>8, <1>9, <2>2, <2>3 DEF PollInv, StageInv, SeenInv
<1>13. CASE rest = {} /\ ~(Desired(Poller) <= seen)
  <2>1. con' = [con EXCEPT ![Poller] = IdleConsumer(Poller)]
    BY <1>1, <1>3, <1>13, PollNumbers DEF WaitForDependency
  <2>2. con'[Poller].pc = "wait" /\ con'[Poller].unread = Upstream[Poller]
    BY <1>10, <2>1 DEF IdleConsumer
  <2>3. pc = "closed"
    BY <1>1, <1>6, <1>13, <2>2
  <2> QED
    BY <1>1, <1>4, <1>7, <1>8, <1>9, <1>13, <2>2, <2>3
    DEF PollInv, StageInv, SeenInv
<1> QED
  BY <1>11, <1>12, <1>13

LEMMA ScanPublishedInv ==
  ASSUME Inv, PollInv, ScanPublished
  PROVE  PollInv'
<1>1. /\ UNCHANGED <<cursor, outcome, sequence, poll>> /\ poll.pc = "batch"
      /\ con[Poller].pc = "scan" /\ Scan(Poller, IsAvailable(con[Poller].at))
  BY DEF ScanPublished, Scan, producerVars, ringVars
<1>2. /\ Desired(Poller)' = Desired(Poller) /\ Poller' = Poller
      /\ Visible(Desired(Poller))' = Visible(Desired(Poller))
  BY <1>1 DEF Desired, Visible, Poller
<1>3. Desired(Poller) <= con[Poller].at
  BY <1>1, PollNumbers DEF Inv, SafetyInv, ConsumerInv, BatchAhead
<1>4. con \in [Consumers -> ConsumerState] /\ Poller \in Consumers
  BY PollNumbers DEF Inv, SafetyInv, ConsumerInv, ConsumerTypes
<1>5. \/ /\ ~IsAvailable(con[Poller].at) /\ con'[Poller].pc = "select"
         /\ con'[Poller].available = con[Poller].at - 1
      \/ /\ con'[Poller].pc \in {"scan", "select"}
         /\ con'[Poller].available = con[Poller].available
  BY <1>1, <1>4 DEF Scan, ConsumerState
<1>6. poll.seenAtStart = TRUE => Desired(Poller) <= con'[Poller].available
  <2> SUFFICES ASSUME poll.seenAtStart = TRUE
               PROVE  Desired(Poller) <= con'[Poller].available
    OBVIOUS
  <2>1. IsAvailable(Desired(Poller)) /\ Desired(Poller) <= con[Poller].available
    BY <1>1, VisibleAnswer DEF PollInv, SeenInv
  <2>2. CASE ~IsAvailable(con[Poller].at) /\ con'[Poller].available = con[Poller].at - 1
    <3>1. con[Poller].at # Desired(Poller)
      BY <2>1, <2>2
    <3> QED
      BY <1>3, <2>2, <3>1, PollNumbers
  <2> QED
    BY <1>5, <2>1, <2>2
<1>7. StageInv' /\ CursorInv' /\ SeenInv'
  BY <1>1, <1>2, <1>5, <1>6 DEF PollInv, StageInv, CursorInv, SeenInv
<1> QED
  BY <1>1, <1>7 DEF PollInv

(* A gap at next was not visible when the call began. *)
LEMMA FindGapInv ==
  ASSUME Inv, PollInv, FindGap
  PROVE  PollInv'
<1>1. /\ UNCHANGED <<cursor, outcome, sequence>> /\ poll.pc = "batch"
      /\ poll.result = "none" /\ con[Poller].pc = "select"
      /\ con[Poller].available < Desired(Poller)
      /\ con' = [con EXCEPT ![Poller] = IdleConsumer(Poller)]
  BY DEF FindGap, producerVars, ringVars, PollInv, StageInv
<1>2. /\ poll' \in PollState /\ poll'.pc = "closed" /\ poll'.result = "none"
      /\ poll'.producerAvailable = Desired(Poller)
      /\ poll'.who = poll.who /\ poll'.seenAtStart = poll.seenAtStart
      /\ poll'.claimedAtStart = poll.claimedAtStart /\ Poller' = Poller
  BY <1>1, PollNumbers DEF FindGap, PollInv, PollState, Poller
<1>3. /\ Desired(Poller)' = Desired(Poller)
      /\ con'[Poller].pc = "wait" /\ con'[Poller].unread = Upstream[Poller]
  BY <1>1, <1>2, PollNumbers
  DEF Desired, IdleConsumer, Inv, SafetyInv, ConsumerInv, ConsumerTypes
<1>4. poll.seenAtStart # TRUE
  <2>1. poll.seenAtStart = TRUE => Desired(Poller) <= con[Poller].available
    BY <1>1 DEF PollInv, SeenInv
  <2>2. ~(Desired(Poller) <= con[Poller].available)
    BY <1>1, PollNumbers
  <2> QED
    BY <2>1, <2>2
<1>5. StageInv' /\ SeenInv'
  BY <1>2, <1>3, <1>4 DEF StageInv, SeenInv
<1>6. CursorInv'
  <2>1. Desired(Poller) <= Desired(Poller)
    BY PollNumbers
  <2> QED
    BY <1>1, <1>2, <1>3, <2>1 DEF PollInv, CursorInv
<1> QED
  BY <1>2, <1>5, <1>6 DEF PollInv

LEMMA ReportNothingInv ==
  ASSUME Inv, PollInv, ReportNothing
  PROVE  PollInv'
<1>1. UNCHANGED <<cursor, outcome, sequence, con>> /\ poll.pc = "closed"
  BY DEF ReportNothing, vars, producerVars, ringVars, consumerVars
<1>2. \E result \in {"closed", "gating", "idle"} :
        /\ Return(result)
        /\ result = "idle" => ~(poll.producerAvailable >= Desired(Poller))
  BY DEF ReportNothing
<1>3. PICK result \in {"closed", "gating", "idle"} :
        /\ Return(result)
        /\ result = "idle" => ~(poll.producerAvailable >= Desired(Poller))
  BY <1>2
<1>4. /\ poll' \in PollState /\ poll'.pc = "idle" /\ poll'.result = result
      /\ poll'.who = poll.who /\ poll'.seenAtStart = poll.seenAtStart
      /\ poll'.claimedAtStart = poll.claimedAtStart /\ Poller' = Poller
  BY <1>3, PollReturns DEF PollInv
<1>5. Desired(Poller)' = Desired(Poller) /\ con'[Poller'] = con[Poller]
  BY <1>1, <1>4 DEF Desired
<1>6. result = "idle" => poll.claimedAtStart < Desired(Poller)
  BY <1>1, <1>3, PollNumbers DEF PollInv, CursorInv
<1>7. StageInv' /\ CursorInv' /\ SeenInv'
  BY <1>1, <1>4, <1>5, <1>6 DEF PollInv, StageInv, CursorInv, SeenInv
<1> QED
  BY <1>4, <1>7 DEF PollInv

LEMMA ProcessBatchInv ==
  ASSUME Inv, PollInv, ProcessBatch
  PROVE  PollInv'
<1>1. UNCHANGED <<cursor, outcome, sequence, poll>> /\ poll.pc = "batch"
  BY DEF ProcessBatch, SelectBatch, FindLast, Deliver, SkipDiscarded,
         producerVars, ringVars
<1>2. /\ Desired(Poller)' = Desired(Poller) /\ Poller' = Poller
      /\ Visible(Desired(Poller))' = Visible(Desired(Poller))
  BY <1>1 DEF Desired, Visible, Poller
<1>3. con \in [Consumers -> ConsumerState] /\ Poller \in Consumers
  BY PollNumbers DEF Inv, SafetyInv, ConsumerInv, ConsumerTypes
<1>4. con'[Poller].pc \in {"last", "handle"}
  BY <1>3
  DEF ProcessBatch, SelectBatch, FindLast, Deliver, SkipDiscarded, Invokes,
      ConsumerState
<1>5. StageInv' /\ CursorInv' /\ SeenInv'
  BY <1>1, <1>2, <1>4 DEF PollInv, StageInv, CursorInv, SeenInv
<1> QED
  BY <1>1, <1>5 DEF PollInv

LEMMA EndBatchInv ==
  ASSUME Inv, PollInv, EndBatch
  PROVE  PollInv'
<1>1. \E result \in {"processing", "failed"} : Return(result)
  BY DEF EndBatch
<1>2. PICK result \in {"processing", "failed"} : Return(result)
  BY <1>1
<1>3. /\ poll' \in PollState /\ poll'.pc = "idle" /\ poll'.result = result
      /\ Poller' = Poller
  BY <1>2, PollReturns DEF PollInv
<1>4. con'[Poller].pc = "wait" /\ con'[Poller].unread = Upstream[Poller]
  BY PollNumbers
  DEF EndBatch, Acknowledge, FailHandler, IdleConsumer, Inv, SafetyInv,
      ConsumerInv, ConsumerTypes
<1>5. StageInv' /\ CursorInv' /\ SeenInv'
  BY <1>3, <1>4 DEF StageInv, CursorInv, SeenInv
<1> QED
  BY <1>3, <1>5 DEF PollInv

-----------------------------------------------------------------------------
(* Poll drops the empty batch; the ring does not notice. *)
LEMMA FindGapRing ==
  ASSUME Inv, PollInv, FindGap
  PROVE  Inv'
<1> DEFINE P == Poller
<1>1. /\ con' = [con EXCEPT ![P] = IdleConsumer(P)]
      /\ UNCHANGED <<cursor, sealed, closed, entries, hasDiscards, outcome,
                     untranslated, gateCache, available, prod, sequence, handled>>
  BY DEF FindGap, producerVars, ringVars
<1>2. /\ TypeInv /\ ConsumerInv /\ GateInv /\ RingInv /\ DeliveryInv /\ RingTypes
      /\ P \in Consumers
  BY PollNumbers, RingTypesHold DEF Inv, SafetyInv
<1>3. IdleConsumer(P) \in ConsumerState /\ IdleConsumer(P).pc = "wait"
  BY <1>2, IdleConsumerType
<1>4. /\ handled' = [handled EXCEPT ![P] = handled[P]]
      /\ handled' \in [Consumers -> SUBSET Sequences]
  BY <1>1, <1>2 DEF ConsumerInv, ConsumerTypes
<1> HIDE DEF P
<1>5. ConsumerInv' /\ PositionsAdvance
  BY <1>1, <1>2, <1>3, <1>4, ConsumerUpdate
<1>6. TypeInv'
  BY <1>1, <1>2, <1>3, <1>5
  DEF TypeInv, TypeOK, RingTypeOK, ClaimBound, HasHigh, High, ConsumerInv,
      ConsumerTypes
<1>7. GateInv'
  BY <1>1, <1>2, GateFrame
<1>8. RingInv'
  BY <1>1, <1>2 DEF RingInv, ClaimInv, OutcomeInv, WordInv, WordOK, EntryInv, InLap
<1>9. DeliveryInv'
  <2>1. BatchOK(P, IdleConsumer(P), handled[P])
    BY <1>2, RunRestarts
  <2> QED
    BY <1>1, <1>2, <1>4, <1>5, <2>1, RunUpdate
<1> QED
  BY <1>5, <1>6, <1>7, <1>8, <1>9 DEF Inv, SafetyInv

(* Everything else is a step of the ring without repeated calls. *)
LEMMA PollIsOrdinary ==
  ASSUME Inv, PollInv, [PollNext]_pollVars, ~FindGap
  PROVE  [OrdinaryNext]_vars /\ [Next]_vars
<1>1. Poller \in Consumers
  BY PollNumbers
<1>2. ASSUME NEW c \in Consumers, ConsumerStep(c), UNCHANGED producerVars
      PROVE  [OrdinaryNext]_vars /\ [Next]_vars
  BY <1>2 DEF OrdinaryNext, Next
<1>3. CASE BeginPoll \/ LoadProducer \/ ReportNothing \/ UNCHANGED pollVars
  BY <1>3 DEF BeginPoll, LoadProducer, ReportNothing, pollVars
<1>4. CASE LoadDependentCursor
  <2>1. UNCHANGED producerVars
    BY <1>4 DEF LoadDependentCursor
  <2>2. CASE WaitForCursor(Poller, "scan")
    BY <1>1, <1>2, <2>1, <2>2 DEF ConsumerStep
  <2>3. CASE UNCHANGED consumerVars
    BY <2>1, <2>3 DEF vars
  <2> QED
    BY <1>4, <2>2, <2>3 DEF LoadDependentCursor
<1>5. ASSUME NEW d \in Consumers, LoadDependency(d)
      PROVE  [OrdinaryNext]_vars /\ [Next]_vars
  BY <1>1, <1>2, <1>5 DEF LoadDependency, ConsumerStep
<1>6. CASE ScanPublished
  BY <1>1, <1>2, <1>6 DEF ScanPublished, ConsumerStep
<1>7. CASE ProcessBatch
  BY <1>1, <1>2, <1>7 DEF ProcessBatch, ConsumerStep
<1>8. CASE EndBatch
  BY <1>1, <1>2, <1>8 DEF EndBatch, ConsumerStep
<1>9. CASE \E p \in Producers : ProducerStep(p) /\ UNCHANGED <<consumerVars, poll>>
  BY <1>9 DEF OrdinaryNext, Next
<1>10. CASE /\ "Close" \in Calls /\ (Seal \/ CloseRing)
            /\ UNCHANGED <<gateCache, available, prod, consumerVars, poll>>
  BY <1>10 DEF OrdinaryNext, Next
<1>11. CASE \E c \in Consumers \ {Poller} :
              ConsumerStep(c) /\ UNCHANGED <<producerVars, poll>>
  BY <1>2, <1>11
<1> QED
  BY <1>3, <1>4, <1>5, <1>6, <1>7, <1>8, <1>9, <1>10, <1>11
  DEF PollNext, PollStep

(* What a step of another consumer leaves to the poller. *)
LEMMA OthersLeavePoller ==
  ASSUME Inv, PollInv, NEW c \in Consumers \ {Poller}, ConsumerStep(c)
  PROVE  /\ con'[Poller] = con[Poller] /\ sequence'[Poller] = sequence[Poller]
         /\ PositionsAdvance
<1>1. /\ Poller \in Consumers /\ Poller # c /\ ConsumerInv
      /\ cursor \in Positions /\ hasDiscards \in BOOLEAN
  BY PollNumbers, RingTypesHold DEF Inv, SafetyInv, RingTypes
<1>2. PositionsAdvance
  <2>1. CoreStep(c, IsAvailable(con[c].at), IsDiscarded(con[c].last),
                 IsDiscarded(con[c].at), "scan")
    BY DEF ConsumerStep, CoreStep
  <2> QED
    BY <1>1, <2>1, ConsumerStepInv
<1>3. con'[Poller] = con[Poller] /\ sequence'[Poller] = sequence[Poller]
  BY <1>1
  DEF ConsumerStep, WaitForCursor, WaitForDependency, Scan, SelectBatch, FindLast,
      Deliver, SkipDiscarded, FailHandler, Acknowledge, ConsumerInv, ConsumerTypes
<1> QED
  BY <1>2, <1>3

LEMMA PollInvStep ==
  ASSUME Inv, PollInv, [PollNext]_pollVars
  PROVE  Inv' /\ PollInv'
<1>1. CASE FindGap
  BY <1>1, FindGapRing, FindGapInv
<1>2. CASE ~FindGap
  <2>1. Inv' /\ OutcomesFinal
    <3>1. [OrdinaryNext]_vars /\ [Next]_vars
      BY <1>2, PollIsOrdinary
    <3>2. SafetyInv'
      BY <3>1, SafetyStep DEF Inv
    <3> QED
      BY <3>1, <3>2, PollNumbers, OrdinaryStep
  <2>2. CASE PollStep
    BY <1>2, <2>2, BeginPollInv, LoadProducerInv, LoadDependentCursorInv,
       LoadDependencyInv, ScanPublishedInv, ReportNothingInv, ProcessBatchInv,
       EndBatchInv, <2>1
    DEF PollStep
  <2>3. ASSUME UNCHANGED <<consumerVars, poll>> PROVE PollInv'
    <3>1. /\ con'[Poller] = con[Poller] /\ sequence'[Poller] = sequence[Poller]
          /\ PositionsAdvance /\ UNCHANGED poll
      BY <2>3
      DEF consumerVars, PositionsAdvance, Inv, SafetyInv, ConsumerInv, ConsumerTypes
    <3> QED
      BY <2>1, <3>1, PollKept
  <2>4. ASSUME NEW c \in Consumers \ {Poller}, ConsumerStep(c), UNCHANGED poll
        PROVE  PollInv'
    BY <2>1, <2>4, OthersLeavePoller, PollKept
  <2>5. CASE UNCHANGED pollVars
    BY <2>1, <2>3, <2>5 DEF pollVars, vars
  <2>6. CASE PollNext /\ ~PollStep
    <3>1. \/ UNCHANGED <<consumerVars, poll>>
          \/ \E c \in Consumers \ {Poller} : ConsumerStep(c) /\ UNCHANGED poll
      BY <2>6 DEF PollNext
    <3> QED
      BY <2>1, <2>3, <2>4, <3>1
  <2> QED
    BY <2>1, <2>2, <2>5, <2>6
<1> QED
  BY <1>1, <1>2

LEMMA PollInvariance == PollSpec => [](Inv /\ PollInv)
BY PollInitial, PollInvStep, PTL DEF PollSpec

(***************************************************************************)
(* What Poll reports was true, for every topology and every interleaving:  *)
(* PollIdle, PollGating and ErrClosed are returned only if the next        *)
(* sequence could not be polled when the call began, and PollIdle only if  *)
(* no producer had claimed it.                                             *)
(***************************************************************************)
THEOREM PollTellsTheTruth == PollSpec => []PollReportsTruth
<1>1. Inv /\ PollInv => PollReportsTruth
  <2> SUFFICES ASSUME Inv, PollInv PROVE PollReportsTruth
    OBVIOUS
  <2>1. poll.seenAtStart \in BOOLEAN
    BY DEF PollInv, PollState
  <2>2. poll.result \in {"idle", "gating", "closed"} =>
          poll.pc = "idle" /\ poll.seenAtStart # TRUE
    BY DEF PollInv, StageInv, SeenInv
  <2>3. poll.result = "idle" => poll.claimedAtStart < Desired(Poller)
    BY <2>2 DEF PollInv, CursorInv
  <2> QED
    BY <2>1, <2>2, <2>3 DEF PollReportsTruth
<1> QED
  BY <1>1, PollInvariance, PTL

(***************************************************************************)
(* A consumer driven by Poll acknowledges only what its handler completed  *)
(* and never delivers a discarded sequence, as one driven by Run.          *)
(***************************************************************************)
THEOREM PolledNothingSkipped == PollSpec => []AcknowledgedWasHandled
<1>1. Inv => AcknowledgedWasHandled
  BY DeliveryHandled DEF Inv, SafetyInv
<1> QED
  BY <1>1, PollInvariance, PTL

(* Poll passes endOfBatch with the last sequence that it delivers. *)
THEOREM PolledEndOfBatchExact == PollSpec => []EndOfBatchIsLastDelivered
<1>1. Inv => EndOfBatchIsLastDelivered
  BY DeliveryEndOfBatch DEF Inv, SafetyInv
<1> QED
  BY <1>1, PollInvariance, PTL

LEMMA PollImplements ==
  ASSUME Inv, PollInv, [PollNext]_pollVars
  PROVE  [Broadcast!Next]_(Broadcast!broadcastVars)
<1>1. CASE FindGap
  BY <1>1 DEF FindGap, producerVars, ringVars, Broadcast!broadcastVars
<1>2. CASE ~FindGap
  BY <1>2, PollIsOrdinary, PollNumbers, OrdinaryImplements
<1> QED
  BY <1>1, <1>2

(***************************************************************************)
(* A ring with a polled consumer implements the same bounded broadcast: an *)
(* empty poll and a failed handler acknowledge nothing.                    *)
(***************************************************************************)
THEOREM PolledRingImplementsBroadcast == PollSpec => BroadcastSpec
<1>1. PollInit => Broadcast!Init
  BY BroadcastInit DEF PollInit
<1> QED
  BY <1>1, PollImplements, PollInvariance, PTL
  DEF PollSpec, BroadcastSpec, Broadcast!Spec
=============================================================================
