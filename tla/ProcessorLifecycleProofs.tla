---------------------- MODULE ProcessorLifecycleProofs -----------------------
(***************************************************************************)
(* Theorems about ProcessorLifecycle, for every number of goroutines that  *)
(* call Run and Halt, either wait strategy, with or without an upstream    *)
(* consumer, every batch size and bound.                                   *)
(***************************************************************************)
EXTENDS ProcessorLifecycle, WellFoundedInduction, TLAPS

(***************************************************************************)
(* What the barrier granted to a Run call in local state st lies behind    *)
(* the cursor and the upstream consumer, and what it hands to processBatch *)
(* is resolved throughout.                                                 *)
(***************************************************************************)
Granted(st) ==
  st.pc \in {"scan", "handle"} =>
    /\ sequence <= st.end /\ st.end <= cursor
    /\ HasUpstream => st.end <= upstream
    /\ st.pc = "handle" => 0 .. st.end \subseteq resolved

(***************************************************************************)
(* The channel was taken and the cursor found behind after that: from then *)
(* on only a resolution whose signal is still to come can provide the      *)
(* sequence.                                                               *)
(***************************************************************************)
CommittedToBlock(st) ==
  \/ st.pc = "block"
  \/ st.pc \in {"alerted", "closed"} /\ st.then = "block"

SignalComes(st) ==
  CommittedToBlock(st) /\ ~st.fired =>
    (Desired \in resolved => Desired \in unsignalled)

(* The same for the alert, from its check on. *)
AlertSignalComes(st) ==
  CommittedToBlock(st) /\ st.pc # "alerted" /\ ~st.fired =>
    (alerted => \E h \in Halters : halt[h].pc = "signal")

RunInv(st) == Granted(st) /\ SignalComes(st) /\ AlertSignalComes(st)

(* Both positions cover resolved sequences only. *)
Positioned ==
  /\ resolved \subseteq 0 .. cursor
  /\ 0 .. sequence \subseteq resolved
  /\ 0 .. upstream \subseteq resolved
  /\ HasUpstream => sequence <= upstream

Inv ==
  /\ TypeOK
  /\ OneRunAtATime
  /\ Positioned
  /\ \A r \in Runners : RunInv(run[r])

USE DEF Sequences, Positions

-----------------------------------------------------------------------------
(* Every set of natural numbers that is not empty has a least element. *)
LEMMA LeastElement ==
  ASSUME NEW T \in SUBSET Nat, T # {}
  PROVE  \E x \in T : \A y \in T : x <= y
<1> DEFINE R == {pair \in Nat \X Nat : pair[1] < pair[2]}
<1>1. IsWellFoundedOn(R, Nat)
  BY NatLessThanWellFounded DEF OpToRel
<1>2. PICK x \in T : \A y \in T : ~(<<y, x>> \in R)
  <2> HIDE DEF R
  <2> QED
    BY <1>1, WFMin
<1>3. \A y \in T : ~(y < x)
  BY <1>2
<1> QED
  BY <1>3

(***************************************************************************)
(* HighestPublished finds the end of the resolved sequences from desired   *)
(* on: the sequence before the first gap, or what is available.            *)
(***************************************************************************)
LEMMA HighestPublishedEnd ==
  ASSUME sequence \in Positions, NEW available \in Positions, sequence <= available
  PROVE  /\ HighestPublished(available) \in sequence .. available
         /\ Desired .. HighestPublished(available) \subseteq resolved
<1> DEFINE End(h) == /\ Desired .. h \subseteq resolved
                     /\ h = available \/ h + 1 \notin resolved
           gaps == {s \in Desired .. available : s \notin resolved}
<1>0. sequence \in Int /\ available \in Int /\ -1 <= sequence /\ Desired = sequence + 1
  BY LifecycleAssumption DEF Desired
<1>1. \E h \in sequence .. available : End(h)
  <2>1. CASE gaps = {}
    BY <1>0, <2>1
  <2>2. CASE gaps # {}
    <3>1. gaps \in SUBSET Nat
      BY <1>0
    <3>2. PICK gap \in gaps : \A s \in gaps : gap <= s
      <4> HIDE DEF gaps
      <4> QED
        BY <2>2, <3>1, LeastElement
    <3>3. gap - 1 \in sequence .. available /\ gap \notin resolved /\ gap \in Int
      BY <1>0, <3>2
    <3>4. Desired .. gap - 1 \subseteq resolved
      BY <1>0, <3>2, <3>3
    <3> QED
      BY <3>3, <3>4
  <2> QED
    BY <2>1, <2>2
<1>2. HighestPublished(available) = CHOOSE h \in sequence .. available : End(h)
  BY DEF HighestPublished
<1> QED
  BY <1>1, <1>2

-----------------------------------------------------------------------------
LEMMA NotRunningType ==
  NotRunning \in RunState /\ NotRunning.pc = "idle"
BY LifecycleAssumption DEF NotRunning, RunState

LEMMA InvInit == Init => Inv
<1> SUFFICES ASSUME Init PROVE Inv
  OBVIOUS
<1>1. TypeOK
  <2>1. /\ cursor \in Positions /\ upstream \in Positions /\ sequence \in Positions
    BY LifecycleAssumption DEF Init
  <2>2. /\ alerted \in BOOLEAN
        /\ run \in [Runners -> RunState]
        /\ halt \in [Halters -> [pc : {"idle", "load", "cas", "alert", "signal"},
                                 seen : {"idle", "starting", "running"}]]
    BY NotRunningType DEF Init, NotHalting
  <2> QED
    BY <2>1, <2>2 DEF Init, TypeOK
<1>2. OneRunAtATime
  BY NotRunningType DEF Init, OneRunAtATime, Active
<1>3. Positioned
  BY LifecycleAssumption DEF Init, Positioned
<1>4. ASSUME NEW r \in Runners PROVE RunInv(run[r])
  BY NotRunningType
  DEF Init, RunInv, Granted, SignalComes, AlertSignalComes, CommittedToBlock
<1> QED
  BY <1>1, <1>2, <1>3, <1>4 DEF Inv

(* What a step of a Run call has to establish about its new local state. *)
LEMMA RunUpdate ==
  ASSUME Inv, NEW r \in Runners, Active(r), NEW st \in RunState, st.pc # "idle",
         run' = [run EXCEPT ![r] = st], UNCHANGED <<environment, sequence, halt>>,
         state' \in {"starting", "running", "halted"}, alerted' \in {alerted, FALSE},
         RunInv(st)
  PROVE  Inv'
<1>1. /\ run \in [Runners -> RunState] /\ run'[r] = st
      /\ \A q \in Runners : q # r => run'[q] = run[q]
  BY DEF Inv, TypeOK
<1>2. TypeOK'
  BY DEF Inv, TypeOK, environment
<1>3. OneRunAtATime'
  BY <1>1 DEF Inv, OneRunAtATime, Active
<1>4. Positioned'
  BY DEF Inv, Positioned, environment
<1>5. ASSUME NEW q \in Runners PROVE RunInv(run[q])'
  <2>1. RunInv(run'[q])
    BY <1>1 DEF Inv
  <2>2. Granted(run[q])' /\ SignalComes(run[q])'
    BY <2>1 DEF RunInv, Granted, SignalComes, CommittedToBlock, Desired, environment
  <2>3. alerted' => alerted
    OBVIOUS
  <2>4. AlertSignalComes(run[q])'
    BY <2>1, <2>3 DEF RunInv, AlertSignalComes, CommittedToBlock
  <2> QED
    BY <2>2, <2>4 DEF RunInv
<1> QED
  BY <1>2, <1>3, <1>4, <1>5 DEF Inv

(* The new local state of the steps that go on, and of those that return. *)
LEMMA GotoInv ==
  ASSUME Inv, NEW r \in Runners, Active(r),
         NEW pc \in {"enter", "top", "barrier", "cursor", "take", "recheck",
                     "dependent", "explain"},
         NEW fired \in BOOLEAN,
         run' = [run EXCEPT ![r].pc = pc, ![r].fired = fired],
         UNCHANGED <<environment, sequence, halt>>,
         state' \in {"starting", "running", "halted"}, alerted' \in {alerted, FALSE}
  PROVE  Inv'
<1> DEFINE st == [run[r] EXCEPT !.pc = pc, !.fired = fired]
<1>1. run[r] \in RunState
  BY DEF Inv, TypeOK
<1>2. st \in RunState /\ st.pc = pc
  BY <1>1 DEF RunState
<1>3. RunInv(st)
  BY <1>2 DEF RunInv, Granted, SignalComes, AlertSignalComes, CommittedToBlock
<1>4. run' = [run EXCEPT ![r] = st]
  OBVIOUS
<1> HIDE DEF st
<1> QED
  BY <1>2, <1>3, <1>4, RunUpdate

LEMMA ReturnInv ==
  ASSUME Inv, NEW r \in Runners, Active(r),
         NEW result \in {"nil", "alerted", "closed", "context", "handler"},
         Return(r, result), UNCHANGED <<environment, state, alerted, sequence, halt>>
  PROVE  Inv'
<1> DEFINE st == [NotRunning EXCEPT !.pc = "finish", !.result = result]
<1>1. st \in RunState /\ st.pc = "finish"
  BY NotRunningType DEF RunState, NotRunning
<1>2. RunInv(st)
  BY <1>1 DEF RunInv, Granted, SignalComes, AlertSignalComes, CommittedToBlock
<1>3. run' = [run EXCEPT ![r] = st]
  BY DEF Return
<1>4. state' \in {"starting", "running", "halted"}
  BY DEF Inv, TypeOK, OneRunAtATime
<1> HIDE DEF st
<1> QED
  BY <1>1, <1>2, <1>3, <1>4, RunUpdate

(* The steps of Run that are one of these. *)
LEMMA PlainStepInv ==
  ASSUME Inv, NEW r \in Runners,
         \/ ClearAlert(r) \/ EnterRunning(r) \/ CheckContext(r) \/ WaitFor(r)
         \/ LoadCursor(r) \/ TakeChannel(r) \/ Wake(r) \/ FailHandler(r)
         \/ ExplainAlert(r)
  PROVE  Inv'
<1> USE DEF Active
<1>1. run[r] \in RunState /\ run[r].fired \in BOOLEAN
  BY DEF Inv, TypeOK, RunState
<1>2. \A pc : Goto(r, pc) => run' = [run EXCEPT ![r].pc = pc, ![r].fired = run[r].fired]
  BY <1>1 DEF Goto, Inv, TypeOK, RunState
<1>3. Active(r) => state \in {"starting", "running", "halted"}
  BY DEF Inv, TypeOK, OneRunAtATime
<1>4. CASE ClearAlert(r)
  BY <1>1, <1>2, <1>3, <1>4, GotoInv DEF ClearAlert
<1>5. CASE EnterRunning(r)
  BY <1>1, <1>2, <1>3, <1>5, GotoInv, ReturnInv DEF EnterRunning
<1>6. CASE CheckContext(r)
  BY <1>1, <1>2, <1>3, <1>6, GotoInv, ReturnInv DEF CheckContext
<1>7. CASE WaitFor(r)
  BY <1>1, <1>2, <1>3, <1>7, GotoInv DEF WaitFor
<1>8. CASE LoadCursor(r)
  BY <1>1, <1>2, <1>3, <1>8, GotoInv DEF LoadCursor
<1>9. CASE TakeChannel(r)
  BY <1>1, <1>3, <1>9, GotoInv DEF TakeChannel
<1>10. CASE Wake(r)
  BY <1>1, <1>3, <1>10, GotoInv, ReturnInv DEF Wake
<1>11. CASE FailHandler(r)
  BY <1>11, ReturnInv DEF FailHandler
<1>12. CASE ExplainAlert(r)
  BY <1>12, ReturnInv DEF ExplainAlert
<1> QED
  BY <1>4, <1>5, <1>6, <1>7, <1>8, <1>9, <1>10, <1>11, <1>12

LEMMA RecheckCursorInv ==
  ASSUME Inv, NEW r \in Runners, RecheckCursor(r)
  PROVE  Inv'
<1>1. /\ run[r] \in RunState /\ run[r].pc = "recheck" /\ Active(r)
      /\ run[r].fired \in BOOLEAN /\ state \in {"starting", "running", "halted"}
  BY DEF Inv, TypeOK, OneRunAtATime, Active, RunState, RecheckCursor
<1>2. CASE Goto(r, "dependent")
  <2>1. run' = [run EXCEPT ![r].pc = "dependent", ![r].fired = run[r].fired]
    BY <1>1, <1>2 DEF Goto, Inv, TypeOK, RunState
  <2> QED
    BY <1>1, <2>1, GotoInv DEF RecheckCursor
<1>3. CASE cursor < Desired
           /\ run' = [run EXCEPT ![r].pc = "alerted", ![r].then = "block"]
  <2> DEFINE st == [run[r] EXCEPT !.pc = "alerted", !.then = "block"]
  <2>1. st \in RunState /\ st.pc = "alerted"
    BY <1>1 DEF RunState
  <2>2. Desired \notin resolved
    BY <1>3, LifecycleAssumption DEF Inv, TypeOK, Positioned, Desired
  <2>3. RunInv(st)
    BY <2>1, <2>2 DEF RunInv, Granted, SignalComes, AlertSignalComes
  <2>4. run' = [run EXCEPT ![r] = st]
    BY <1>3
  <2> HIDE DEF st
  <2> QED
    BY <1>1, <2>1, <2>3, <2>4, RunUpdate DEF RecheckCursor
<1> QED
  BY <1>2, <1>3 DEF RecheckCursor

LEMMA CheckAlertedInv ==
  ASSUME Inv, NEW r \in Runners, CheckAlerted(r)
  PROVE  Inv'
<1>1. /\ run[r] \in RunState /\ run[r].pc = "alerted" /\ Active(r)
      /\ run[r].fired \in BOOLEAN /\ state \in {"starting", "running", "halted"}
  BY DEF Inv, TypeOK, OneRunAtATime, Active, RunState, CheckAlerted
<1>2. CASE Goto(r, "explain")
  <2>1. run' = [run EXCEPT ![r].pc = "explain", ![r].fired = run[r].fired]
    BY <1>1, <1>2 DEF Goto, Inv, TypeOK, RunState
  <2> QED
    BY <1>1, <2>1, GotoInv DEF CheckAlerted
<1>3. CASE ~alerted /\ Goto(r, "closed")
  <2> DEFINE st == [run[r] EXCEPT !.pc = "closed"]
  <2>1. /\ st \in RunState /\ st.pc = "closed" /\ st.then = run[r].then
        /\ st.fired = run[r].fired
    BY <1>1 DEF RunState
  <2>2. RunInv(run[r])
    BY DEF Inv
  <2>3. RunInv(st)
    BY <1>1, <1>3, <2>1, <2>2
    DEF RunInv, Granted, SignalComes, AlertSignalComes, CommittedToBlock
  <2>4. run' = [run EXCEPT ![r] = st]
    BY <1>3 DEF Goto
  <2> HIDE DEF st
  <2> QED
    BY <1>1, <2>1, <2>3, <2>4, RunUpdate DEF CheckAlerted
<1> QED
  BY <1>2, <1>3 DEF CheckAlerted

LEMMA CheckClosedInv ==
  ASSUME Inv, NEW r \in Runners, CheckClosed(r)
  PROVE  Inv'
<1>1. /\ run[r] \in RunState /\ run[r].pc = "closed" /\ Active(r)
      /\ run[r].then \in {"block", "dependent"}
      /\ state \in {"starting", "running", "halted"}
  BY DEF Inv, TypeOK, OneRunAtATime, Active, RunState, CheckClosed
<1>2. CASE Return(r, "closed") \/ Return(r, "context")
  BY <1>1, <1>2, ReturnInv DEF CheckClosed
<1>3. CASE run' = [run EXCEPT ![r].pc = run[r].then, ![r].then = "dependent"]
  <2> DEFINE st == [run[r] EXCEPT !.pc = run[r].then, !.then = "dependent"]
  <2>1. st \in RunState /\ st.pc = run[r].then /\ st.fired = run[r].fired
    BY <1>1 DEF RunState
  <2>2. RunInv(run[r])
    BY DEF Inv
  <2>3. RunInv(st)
    BY <1>1, <2>1, <2>2
    DEF RunInv, Granted, SignalComes, AlertSignalComes, CommittedToBlock
  <2>4. run' = [run EXCEPT ![r] = st]
    BY <1>3
  <2> HIDE DEF st
  <2> QED
    BY <1>1, <2>1, <2>3, <2>4, RunUpdate DEF CheckClosed
<1> QED
  BY <1>2, <1>3 DEF CheckClosed

LEMMA LoadDependentInv ==
  ASSUME Inv, NEW r \in Runners, LoadDependent(r)
  PROVE  Inv'
<1>1. /\ run[r] \in RunState /\ Active(r) /\ state \in {"starting", "running", "halted"}
  BY DEF Inv, TypeOK, OneRunAtATime, Active, RunState, LoadDependent
<1> DEFINE available == IF HasUpstream THEN upstream ELSE cursor
           found == [run[r] EXCEPT !.pc = "scan", !.end = available]
           retry == [run[r] EXCEPT !.pc = "alerted", !.then = "dependent"]
<1>2. CASE available >= Desired /\ run' = [run EXCEPT ![r] = found]
  <2>1. available \in Positions
    BY DEF Inv, TypeOK
  <2>2. found \in RunState /\ found.pc = "scan" /\ found.end = available
    <3> HIDE DEF Positions, available
    <3> QED
      BY <1>1, <2>1 DEF RunState
  <2>3. available <= cursor /\ sequence <= available
    <3>1. cursor \in Int /\ upstream \in Int /\ sequence \in Int /\ -1 <= cursor
      BY LifecycleAssumption DEF Inv, TypeOK
    <3>2. upstream <= cursor
      BY <3>1 DEF Inv, Positioned
    <3> QED
      BY <1>2, <3>1, <3>2 DEF Desired
  <2>4. HasUpstream => available <= upstream
    BY LifecycleAssumption DEF Inv, TypeOK
  <2> HIDE DEF available
  <2>5. RunInv(found)
    BY <2>2, <2>3, <2>4 DEF RunInv, Granted, SignalComes, AlertSignalComes, CommittedToBlock
  <2> HIDE DEF found
  <2> QED
    BY <1>1, <1>2, <2>2, <2>5, RunUpdate DEF LoadDependent
<1>3. CASE run' = [run EXCEPT ![r] = retry]
  <2>1. retry \in RunState /\ retry.pc = "alerted" /\ retry.then = "dependent"
    BY <1>1 DEF RunState
  <2>2. RunInv(retry)
    BY <2>1 DEF RunInv, Granted, SignalComes, AlertSignalComes, CommittedToBlock
  <2> HIDE DEF retry
  <2> QED
    BY <1>1, <1>3, <2>1, <2>2, RunUpdate DEF LoadDependent
<1> QED
  BY <1>2, <1>3 DEF LoadDependent

LEMMA ScanInv ==
  ASSUME Inv, NEW r \in Runners, Scan(r)
  PROVE  Inv'
<1>1. /\ run[r] \in RunState /\ run[r].end \in Positions /\ run[r].pc = "scan"
      /\ Active(r) /\ state \in {"starting", "running", "halted"}
  BY DEF Inv, TypeOK, OneRunAtATime, Active, RunState, Scan
<1>2. /\ sequence \in Positions /\ sequence <= run[r].end /\ run[r].end <= cursor
      /\ HasUpstream => run[r].end <= upstream
      /\ cursor \in Positions /\ upstream \in Positions
  BY <1>1 DEF Inv, TypeOK, RunInv, Granted
<1> DEFINE available == HighestPublished(run[r].end)
           end == IF available - sequence > MaxBatchSize
                  THEN sequence + MaxBatchSize ELSE available
           st == [run[r] EXCEPT !.pc = "handle", !.end = end]
<1>3. available \in sequence .. run[r].end /\ Desired .. available \subseteq resolved
  BY <1>1, <1>2, HighestPublishedEnd
<1> HIDE DEF available
<1>4. /\ end \in Positions /\ sequence <= end /\ end <= available
      /\ end <= run[r].end /\ end <= cursor
  BY <1>1, <1>2, <1>3, LifecycleAssumption
<1>5. HasUpstream => end <= upstream
  BY <1>1, <1>2, <1>3, LifecycleAssumption
<1>6. 0 .. end \subseteq resolved
  <2>1. 0 .. sequence \subseteq resolved
    BY DEF Inv, Positioned
  <2>2. available \in Int
    BY <1>1, <1>2, <1>3, LifecycleAssumption
  <2> HIDE DEF end
  <2> QED
    BY <1>2, <1>3, <1>4, <2>1, <2>2, LifecycleAssumption DEF Desired
<1> HIDE DEF end
<1>7. st \in RunState /\ st.pc = "handle" /\ st.end = end
  <2> HIDE DEF Positions
  <2> QED
    BY <1>1, <1>4 DEF RunState
<1>8. RunInv(st)
  BY <1>4, <1>5, <1>6, <1>7
  DEF RunInv, Granted, SignalComes, AlertSignalComes, CommittedToBlock
<1>9. run' = [run EXCEPT ![r] = st]
  BY DEF Scan, available, end
<1> HIDE DEF st
<1> QED
  BY <1>1, <1>7, <1>8, <1>9, RunUpdate DEF Scan

LEMMA CancelInv ==
  ASSUME Inv, NEW r \in Runners, Cancel(r)
  PROVE  Inv'
<1>1. /\ run[r] \in RunState /\ Active(r) /\ state \in {"starting", "running", "halted"}
  BY DEF Inv, TypeOK, OneRunAtATime, Active, Cancel
<1> DEFINE st == [run[r] EXCEPT !.cancelled = TRUE]
<1>2. /\ st \in RunState /\ st.pc = run[r].pc /\ st.then = run[r].then
      /\ st.end = run[r].end /\ st.fired = run[r].fired
  BY <1>1 DEF RunState
<1>3. RunInv(run[r]) /\ st.pc # "idle"
  BY <1>1, <1>2 DEF Inv, Active
<1>4. RunInv(st)
  BY <1>2, <1>3 DEF RunInv, Granted, SignalComes, AlertSignalComes, CommittedToBlock
<1>5. run' = [run EXCEPT ![r] = st]
  BY DEF Cancel
<1> HIDE DEF st
<1> QED
  BY <1>1, <1>2, <1>3, <1>4, <1>5, RunUpdate DEF Cancel

(* While a Run call is active the others are not. *)
LEMMA OthersInactive ==
  ASSUME Inv, NEW r \in Runners, Active(r), NEW q \in Runners, q # r
  PROVE  run[q].pc = "idle"
BY DEF Inv, OneRunAtATime, Active

LEMMA AcknowledgeInv ==
  ASSUME Inv, NEW r \in Runners, Acknowledge(r)
  PROVE  Inv'
<1> DEFINE st == [run[r] EXCEPT !.pc = "top", !.end = -1]
<1>1. /\ run[r] \in RunState /\ run[r].pc = "handle" /\ Active(r)
      /\ run[r].end \in Positions
  BY DEF Inv, TypeOK, RunState, Active, Acknowledge
<1>2. /\ sequence' = run[r].end /\ run' = [run EXCEPT ![r] = st]
      /\ UNCHANGED <<closing, cursor, resolved, unsignalled, upstream, state,
                     alerted, halt>>
  BY DEF Acknowledge, environment
<1>3. st \in RunState /\ st.pc = "top"
  <2>1. -1 \in Positions
    BY LifecycleAssumption
  <2> HIDE DEF Positions
  <2> QED
    BY <1>1, <2>1 DEF RunState
<1> HIDE DEF st
<1>4. run'[r] = st /\ \A q \in Runners : q # r => run'[q] = run[q]
  BY <1>2 DEF Inv, TypeOK
<1>5. TypeOK'
  BY <1>1, <1>2, <1>3 DEF Inv, TypeOK
<1>6. OneRunAtATime'
  BY <1>1, <1>2, <1>3, <1>4 DEF Inv, OneRunAtATime, Active
<1>7. Positioned'
  <2>1. Granted(run[r]) /\ Positioned
    BY DEF Inv, RunInv
  <2> QED
    BY <1>1, <1>2, <2>1 DEF Granted, Positioned
<1>8. ASSUME NEW q \in Runners PROVE RunInv(run[q])'
  <2>1. run'[q].pc \in {"idle", "top"}
    BY <1>1, <1>3, <1>4, OthersInactive
  <2> QED
    BY <2>1 DEF RunInv, Granted, SignalComes, AlertSignalComes, CommittedToBlock
<1> QED
  BY <1>5, <1>6, <1>7, <1>8 DEF Inv

LEMMA FinishRunInv ==
  ASSUME Inv, NEW r \in Runners, FinishRun(r)
  PROVE  Inv'
<1>1. Active(r)
  BY DEF FinishRun, Active
<1>2. \A q \in Runners : run'[q].pc = "idle"
  BY <1>1, OthersInactive, NotRunningType DEF FinishRun, Inv, TypeOK
<1>3. TypeOK'
  BY NotRunningType DEF FinishRun, Inv, TypeOK, environment
<1>4. OneRunAtATime'
  BY <1>2 DEF OneRunAtATime, Active
<1>5. Positioned'
  BY DEF FinishRun, Inv, Positioned, environment
<1>6. ASSUME NEW q \in Runners PROVE RunInv(run[q])'
  BY <1>2 DEF RunInv, Granted, SignalComes, AlertSignalComes, CommittedToBlock
<1> QED
  BY <1>3, <1>4, <1>5, <1>6 DEF Inv

LEMMA StartRunInv ==
  ASSUME Inv, NEW r \in Runners, StartRun(r)
  PROVE  Inv'
<1> DEFINE st == [NotRunning EXCEPT !.pc = "clear"]
<1>1. st \in RunState /\ st.pc = "clear"
  BY NotRunningType DEF RunState
<1>2. run' = [run EXCEPT ![r] = st]
  BY DEF StartRun
<1> HIDE DEF st
<1>3. \A q \in Runners : run[q].pc = "idle"
  BY DEF StartRun, Inv, OneRunAtATime, Active
<1>4. run'[r] = st /\ \A q \in Runners : q # r => run'[q].pc = "idle"
  BY <1>2, <1>3 DEF Inv, TypeOK
<1>5. TypeOK'
  BY <1>1, <1>2 DEF StartRun, Inv, TypeOK, environment
<1>6. OneRunAtATime'
  BY <1>4 DEF StartRun, OneRunAtATime, Active
<1>7. Positioned'
  BY DEF StartRun, Inv, Positioned, environment
<1>8. ASSUME NEW q \in Runners PROVE RunInv(run[q])'
  <2>1. run'[q].pc \in {"idle", "clear"}
    BY <1>1, <1>4
  <2> QED
    BY <2>1 DEF RunInv, Granted, SignalComes, AlertSignalComes, CommittedToBlock
<1> QED
  BY <1>5, <1>6, <1>7, <1>8 DEF Inv

LEMMA RunCallInv ==
  ASSUME Inv, NEW r \in Runners, StartRun(r) \/ RunStep(r) \/ Cancel(r)
  PROVE  Inv'
BY StartRunInv, PlainStepInv, RecheckCursorInv, CheckAlertedInv, CheckClosedInv,
   LoadDependentInv, ScanInv, AcknowledgeInv, FinishRunInv, CancelInv
DEF RunStep

-----------------------------------------------------------------------------
(* A signal reaches every Run call that has taken the channel. *)
LEMMA FireRun ==
  ASSUME TypeOK, Fire
  PROVE  /\ run' \in [Runners -> RunState]
         /\ \A r \in Runners :
              /\ run'[r].pc = run[r].pc /\ run'[r].end = run[r].end
              /\ CommittedToBlock(run'[r]) => run'[r].fired
<1>1. ASSUME NEW r \in Runners
      PROVE  /\ run'[r] \in RunState
             /\ run'[r].pc = run[r].pc /\ run'[r].end = run[r].end
             /\ CommittedToBlock(run'[r]) => run'[r].fired
  <2> DEFINE fired == run[r].pc \in {"recheck", "alerted", "closed", "block"}
  <2>1. run[r] \in RunState /\ fired \in BOOLEAN
    BY DEF TypeOK
  <2>2. run'[r] = [run[r] EXCEPT !.fired = fired]
    BY DEF Fire
  <2>3. (CommittedToBlock(run'[r])) => fired
    BY <2>1, <2>2 DEF CommittedToBlock, RunState
  <2> HIDE DEF fired
  <2> QED
    BY <2>1, <2>2, <2>3 DEF RunState
<1> QED
  BY <1>1 DEF Fire

(* Steps of others that signal. *)
LEMMA FireInv ==
  ASSUME Inv, Fire, UNCHANGED <<cursor, resolved, upstream, sequence, state>>,
         TypeOK'
  PROVE  Inv'
<1>1. OneRunAtATime'
  BY FireRun DEF Inv, OneRunAtATime, Active
<1>2. Positioned'
  BY DEF Inv, Positioned
<1>3. ASSUME NEW r \in Runners PROVE RunInv(run[r])'
  <2>1. CommittedToBlock(run'[r]) => run'[r].fired
    BY FireRun DEF Inv
  <2>2. Granted(run[r])'
    BY FireRun DEF Inv, RunInv, Granted
  <2> QED
    BY <2>1, <2>2 DEF RunInv, SignalComes, AlertSignalComes, CommittedToBlock
<1> QED
  BY <1>1, <1>2, <1>3 DEF Inv

(* Steps of others that do not, with what they may change. *)
LEMMA QuietInv ==
  ASSUME Inv, UNCHANGED <<sequence, run>>, TypeOK', Positioned',
         state # "idle" => state' # "idle",
         cursor <= cursor', upstream <= upstream', resolved \subseteq resolved',
         \A s \in Sequences : s \in resolved' => s \in resolved \/ s \in unsignalled',
         unsignalled \subseteq unsignalled',
         alerted' => alerted \/ \E h \in Halters : halt'[h].pc = "signal",
         \A h \in Halters : halt[h].pc = "signal" => halt'[h].pc = "signal"
  PROVE  Inv'
<1>1. OneRunAtATime'
  BY DEF Inv, OneRunAtATime, Active
<1>2. ASSUME NEW r \in Runners PROVE RunInv(run[r])'
  <2>1. RunInv(run[r])
    BY DEF Inv
  <2>2. Granted(run[r])'
    <3>1. /\ cursor \in Int /\ cursor' \in Int /\ upstream \in Int /\ upstream' \in Int
          /\ run[r].end \in Int /\ sequence \in Int
      BY LifecycleAssumption DEF Inv, TypeOK, RunState
    <3> QED
      BY <2>1, <3>1 DEF RunInv, Granted
  <2>3. SignalComes(run[r])'
    <3>1. Desired \in resolved' => Desired \in Sequences
      BY DEF TypeOK
    <3> QED
      BY <2>1, <3>1 DEF RunInv, SignalComes, CommittedToBlock, Desired
  <2>4. AlertSignalComes(run[r])'
    BY <2>1 DEF RunInv, AlertSignalComes, CommittedToBlock
  <2> QED
    BY <2>2, <2>3, <2>4 DEF RunInv
<1> QED
  BY <1>1, <1>2 DEF Inv

LEMMA HaltCallInv ==
  ASSUME Inv, NEW h \in Halters, LoadState(h) \/ HaltStep(h)
  PROVE  Inv'
<1> DEFINE HaltState == [pc : {"idle", "load", "cas", "alert", "signal"},
                         seen : {"idle", "starting", "running"}]
<1>1. TypeOK /\ halt \in [Halters -> HaltState]
  BY DEF Inv, TypeOK
<1>3. cursor <= cursor /\ upstream <= upstream
  BY LifecycleAssumption DEF Inv, TypeOK
<1>4. CASE LoadState(h)
  <2>1. TypeOK'
    BY <1>1, <1>4 DEF LoadState, TypeOK, environment, NotHalting
  <2>2. Positioned'
    BY <1>4 DEF LoadState, Inv, Positioned, environment
  <2>3. \A k \in Halters : halt[k].pc = "signal" => halt'[k].pc = "signal"
    BY <1>1, <1>4 DEF LoadState
  <2> QED
    BY <1>3, <1>4, <2>1, <2>2, <2>3, QuietInv DEF LoadState, environment
<1>5. CASE SwapHalted(h)
  <2>1. TypeOK'
    BY <1>1, <1>5 DEF SwapHalted, TypeOK, environment
  <2>2. Positioned'
    BY <1>5 DEF SwapHalted, Inv, Positioned, environment
  <2>3. \A k \in Halters : halt[k].pc = "signal" => halt'[k].pc = "signal"
    BY <1>1, <1>5 DEF SwapHalted
  <2> QED
    BY <1>3, <1>5, <2>1, <2>2, <2>3, QuietInv DEF SwapHalted, environment
<1>6. CASE StoreAlert(h)
  <2>1. TypeOK'
    BY <1>1, <1>6 DEF StoreAlert, TypeOK, environment
  <2>2. Positioned'
    BY <1>6 DEF StoreAlert, Inv, Positioned, environment
  <2>3. /\ halt'[h].pc = "signal"
        /\ \A k \in Halters : halt[k].pc = "signal" => halt'[k].pc = "signal"
    BY <1>1, <1>6 DEF StoreAlert
  <2> QED
    BY <1>3, <1>6, <2>1, <2>2, <2>3, QuietInv DEF StoreAlert, environment
<1>7. CASE SignalAlert(h)
  <2>1. TypeOK'
    BY <1>1, <1>7, FireRun DEF SignalAlert, TypeOK, environment, NotHalting
  <2> QED
    BY <1>7, <2>1, FireInv DEF SignalAlert, environment
<1> QED
  BY <1>4, <1>5, <1>6, <1>7 DEF HaltStep

LEMMA EnvironmentInv ==
  ASSUME Inv,
         \/ Claim \/ AdvanceUpstream \/ CloseRing \/ FinishClose
         \/ \E s \in Sequences : Resolve(s) \/ Signal(s)
  PROVE  Inv'
<1>1. /\ TypeOK /\ Positioned
      /\ cursor \in Int /\ upstream \in Int /\ sequence \in Int
      /\ cursor <= cursor /\ upstream <= upstream
  BY LifecycleAssumption DEF Inv, TypeOK
<1>2. CASE Claim
  <2>1. TypeOK'
    BY <1>1, <1>2, LifecycleAssumption DEF Claim, TypeOK
  <2>2. Positioned'
    BY <1>1, <1>2 DEF Claim, Positioned
  <2>3. cursor <= cursor'
    BY <1>1, <1>2 DEF Claim
  <2> QED
    BY <1>1, <1>2, <2>1, <2>2, <2>3, QuietInv DEF Claim
<1>3. CASE AdvanceUpstream
  <2>1. upstream + 1 \in Sequences /\ -1 <= upstream
    BY <1>1, <1>3 DEF AdvanceUpstream, TypeOK
  <2>2. TypeOK'
    BY <1>1, <1>3, <2>1 DEF AdvanceUpstream, TypeOK
  <2>3. Positioned'
    BY <1>1, <1>3, <2>1 DEF AdvanceUpstream, Positioned
  <2>4. upstream <= upstream'
    BY <1>1, <1>3 DEF AdvanceUpstream
  <2> QED
    BY <1>1, <1>3, <2>2, <2>3, <2>4, QuietInv DEF AdvanceUpstream
<1>4. CASE CloseRing
  <2>1. TypeOK' /\ Positioned'
    BY <1>1, <1>4 DEF CloseRing, TypeOK, Positioned
  <2> QED
    BY <1>1, <1>4, <2>1, QuietInv DEF CloseRing
<1>5. CASE FinishClose
  <2>1. CASE UNCHANGED run
    <3>1. TypeOK' /\ Positioned'
      BY <1>1, <1>5, <2>1 DEF FinishClose, TypeOK, Positioned
    <3> QED
      BY <1>1, <1>5, <2>1, <3>1, QuietInv DEF FinishClose
  <2>2. CASE Fire
    <3>1. TypeOK'
      BY <1>1, <1>5, <2>2, FireRun DEF FinishClose, TypeOK
    <3> QED
      BY <1>5, <2>2, <3>1, FireInv DEF FinishClose
  <2> QED
    BY <1>5, <2>1, <2>2 DEF FinishClose
<1>6. ASSUME NEW s \in Sequences, Resolve(s)
      PROVE  Inv'
  <2>1. TypeOK'
    BY <1>1, <1>6 DEF Resolve, TypeOK
  <2>2. Positioned'
    BY <1>1, <1>6 DEF Resolve, Positioned
  <2> QED
    BY <1>1, <1>6, <2>1, <2>2, QuietInv DEF Resolve
<1>7. ASSUME NEW s \in Sequences, Signal(s)
      PROVE  Inv'
  <2>1. TypeOK'
    BY <1>1, <1>7, FireRun DEF Signal, TypeOK
  <2> QED
    BY <1>7, <2>1, FireInv DEF Signal
<1> QED
  BY <1>2, <1>3, <1>4, <1>5, <1>6, <1>7

LEMMA InvStep == Inv /\ [Next]_vars => Inv'
<1> SUFFICES ASSUME Inv, [Next]_vars PROVE Inv'
  OBVIOUS
<1>1. CASE Next
  BY <1>1, RunCallInv, HaltCallInv, EnvironmentInv DEF Next
<1>2. CASE UNCHANGED vars
  <2>1. TypeOK' /\ OneRunAtATime' /\ Positioned'
    BY <1>2 DEF Inv, TypeOK, OneRunAtATime, Active, Positioned, vars, environment
  <2>2. ASSUME NEW r \in Runners PROVE RunInv(run[r])'
    BY <1>2 DEF Inv, RunInv, Granted, SignalComes, AlertSignalComes,
                CommittedToBlock, Desired, vars, environment
  <2> QED
    BY <2>1, <2>2 DEF Inv
<1> QED
  BY <1>1, <1>2

LEMMA Invariance == Spec => []Inv
BY InvInit, InvStep, PTL DEF Spec

(***************************************************************************)
(* Every variable keeps its type: the batch that Scan selects always       *)
(* exists, since HighestPublished is never asked about an end that lies    *)
(* below the stored position.                                              *)
(***************************************************************************)
THEOREM TypeCorrect == Spec => []TypeOK
<1>1. Inv => TypeOK
  BY DEF Inv
<1> QED
  BY <1>1, Invariance, PTL

(***************************************************************************)
(* At most one Run call is past its first swap, whatever number of         *)
(* goroutines calls Run and Halt: Halt's swap never shows an idle state    *)
(* while the Run it has met is still returning.                            *)
(***************************************************************************)
THEOREM OneRunner == Spec => []OneRunAtATime
<1>1. Inv => OneRunAtATime
  BY DEF Inv
<1> QED
  BY <1>1, Invariance, PTL

(***************************************************************************)
(* The blocking strategy loses no wake-up.  Taking the channel before the  *)
(* second look at the cursor, the alert and the closed flag suffices: what *)
(* those looks missed still has its signal to come.                        *)
(***************************************************************************)
THEOREM WakeupsArrive == Spec => []NoLostWakeup
<1>1. Inv => NoLostWakeup
  BY DEF Inv, RunInv, SignalComes, AlertSignalComes, CommittedToBlock, NoLostWakeup
<1> QED
  BY <1>1, Invariance, PTL

-----------------------------------------------------------------------------
(* The refinement mapping: who is where, and what is resolved. *)
PositionOf ==
  [c \in {"upstream", "processor"} |-> IF c = "upstream" THEN upstream ELSE sequence]
OutcomeOf == [s \in Sequences |-> IF s \in resolved THEN 1 ELSE 0]

LEMMA BroadcastInit == Init => Broadcast!Init
BY DEF Init, Broadcast!Init, Broadcast!Unresolved

(* Steps that leave the cursor, the resolved sequences and both positions. *)
LEMMA BroadcastStutter ==
  ASSUME UNCHANGED <<cursor, resolved, upstream, sequence>>
  PROVE  UNCHANGED Broadcast!broadcastVars
BY DEF Broadcast!broadcastVars

LEMMA BroadcastAcknowledge ==
  ASSUME Inv, NEW r \in Runners, Acknowledge(r)
  PROVE  Broadcast!Next \/ UNCHANGED Broadcast!broadcastVars
<1>1. /\ run[r].pc = "handle" /\ run[r].end \in Positions /\ sequence \in Positions
      /\ Granted(run[r]) /\ sequence' = run[r].end
      /\ UNCHANGED <<cursor, resolved, upstream>>
  BY DEF Acknowledge, Inv, TypeOK, RunState, RunInv, environment
<1>2. CASE run[r].end = sequence
  BY <1>1, <1>2, BroadcastStutter
<1>3. CASE run[r].end # sequence
  <2>0. PICK end \in 0 .. MaxSequence : end = run[r].end
    BY <1>1, <1>3, LifecycleAssumption DEF Granted
  <2>1. /\ sequence < end /\ end <= cursor
        /\ 0 .. end \subseteq resolved
        /\ HasUpstream => end <= upstream
    BY <1>1, <1>3, <2>0, LifecycleAssumption DEF Granted
  <2>2. \A s \in sequence + 1 .. end : s \in Sequences /\ s \in resolved
    BY <1>1, <2>1, LifecycleAssumption
  <2>3. Broadcast!Advance("processor", end)
    <3>1. PositionOf["processor"] = sequence /\ PositionOf["upstream"] = upstream
      BY DEF PositionOf
    <3>2. \A s \in PositionOf["processor"] + 1 .. end : OutcomeOf[s] # 0
      BY <2>2, <3>1 DEF OutcomeOf
    <3>3. PositionOf' = [PositionOf EXCEPT !["processor"] = end]
      BY <1>1, <2>0 DEF PositionOf
    <3>4. \A d \in [c \in {"upstream", "processor"} |->
                      IF c = "processor" /\ HasUpstream THEN {"upstream"} ELSE {}]["processor"] :
            end <= PositionOf[d]
      <4>1. CASE HasUpstream
        BY <2>1, <3>1, <4>1
      <4>2. CASE ~HasUpstream
        BY <4>2
      <4> QED
        BY <4>1, <4>2
    <3>5. UNCHANGED <<cursor, OutcomeOf>>
      BY <1>1 DEF OutcomeOf
    <3> QED
      BY <2>1, <3>1, <3>2, <3>3, <3>4, <3>5
      DEF Broadcast!Advance, Broadcast!Unresolved, PositionOf, OutcomeOf
  <2>4. \E c \in {"upstream", "processor"}, e \in 0 .. MaxSequence :
          Broadcast!Advance(c, e)
    BY <2>1, <2>3
  <2> QED
    BY <2>4 DEF Broadcast!Next
<1> QED
  BY <1>2, <1>3

LEMMA BroadcastAdvanceUpstream ==
  ASSUME Inv, AdvanceUpstream
  PROVE  Broadcast!Next
<1>1. PICK end \in 0 .. MaxSequence : end = upstream + 1
  BY DEF AdvanceUpstream, Inv, TypeOK
<1>2. /\ upstream \in Int /\ upstream < end /\ end \in resolved
      /\ end <= cursor /\ upstream' = end /\ UNCHANGED <<cursor, resolved, sequence>>
  BY <1>1, LifecycleAssumption DEF AdvanceUpstream, Inv, TypeOK, Positioned
<1>3. Broadcast!Advance("upstream", end)
  <2>1. PositionOf["upstream"] = upstream
    BY DEF PositionOf
  <2>2. \A s \in PositionOf["upstream"] + 1 .. end : OutcomeOf[s] # 0
    BY <1>1, <1>2, <2>1 DEF OutcomeOf
  <2>3. PositionOf' = [PositionOf EXCEPT !["upstream"] = end]
    BY <1>2 DEF PositionOf
  <2>4. UNCHANGED <<cursor, OutcomeOf>>
    BY <1>2 DEF OutcomeOf
  <2>5. [c \in {"upstream", "processor"} |->
           IF c = "processor" /\ HasUpstream THEN {"upstream"} ELSE {}]["upstream"] = {}
    OBVIOUS
  <2> QED
    BY <1>2, <2>1, <2>2, <2>3, <2>4, <2>5
    DEF Broadcast!Advance, Broadcast!Unresolved, PositionOf, OutcomeOf
<1>4. \E c \in {"upstream", "processor"}, e \in 0 .. MaxSequence :
        Broadcast!Advance(c, e)
  BY <1>3
<1> QED
  BY <1>4 DEF Broadcast!Next

LEMMA BroadcastClaim ==
  ASSUME Inv, Claim
  PROVE  Broadcast!Next
<1>1. Broadcast!Claim(1)
  <2>1. cursor \in Int /\ cursor + 1 <= MaxSequence
    BY LifecycleAssumption DEF Claim, Inv, TypeOK
  <2>2. UNCHANGED <<OutcomeOf, PositionOf>>
    BY DEF Claim, OutcomeOf, PositionOf
  <2> QED
    BY <2>1, <2>2 DEF Claim, Broadcast!Claim, OutcomeOf, PositionOf
<1> QED
  BY <1>1 DEF Broadcast!Next

LEMMA BroadcastResolve ==
  ASSUME Inv, NEW s \in Sequences, Resolve(s)
  PROVE  Broadcast!Next
<1>1. Broadcast!Resolve(s, s, Broadcast!Published)
  <2>1. s \in Int /\ s <= cursor /\ s .. s = {s} /\ s \notin resolved
    BY LifecycleAssumption DEF Resolve
  <2>2. OutcomeOf[s] = 0
    BY <2>1 DEF OutcomeOf
  <2>3. OutcomeOf' = [t \in 0 .. MaxSequence |-> IF t \in s .. s THEN 1 ELSE OutcomeOf[t]]
    BY <2>1 DEF Resolve, OutcomeOf
  <2>4. UNCHANGED <<cursor, PositionOf>>
    BY DEF Resolve, PositionOf
  <2> QED
    BY <2>1, <2>2, <2>3, <2>4
    DEF Broadcast!Resolve, Broadcast!Published, Broadcast!Unresolved, PositionOf, OutcomeOf
<1> QED
  BY <1>1 DEF Broadcast!Next

LEMMA BroadcastStep ==
  Inv /\ [Next]_vars => [Broadcast!Next]_(Broadcast!broadcastVars)
<1> SUFFICES ASSUME Inv, [Next]_vars
             PROVE  Broadcast!Next \/ UNCHANGED Broadcast!broadcastVars
  OBVIOUS
<1>1. ASSUME NEW r \in Runners, StartRun(r) \/ RunStep(r) \/ Cancel(r)
      PROVE  Broadcast!Next \/ UNCHANGED Broadcast!broadcastVars
  <2>1. CASE Acknowledge(r)
    BY <2>1, BroadcastAcknowledge
  <2>2. CASE ~Acknowledge(r)
    <3>1. UNCHANGED <<cursor, resolved, upstream, sequence>>
      BY <1>1, <2>2
      DEF StartRun, RunStep, Cancel, ClearAlert, EnterRunning, CheckContext, WaitFor,
          LoadCursor, TakeChannel, RecheckCursor, CheckAlerted, CheckClosed, Wake,
          LoadDependent, Scan, FailHandler, ExplainAlert, FinishRun, environment
    <3> QED
      BY <3>1, BroadcastStutter
  <2> QED
    BY <2>1, <2>2
<1>2. ASSUME NEW h \in Halters, LoadState(h) \/ HaltStep(h)
      PROVE  UNCHANGED Broadcast!broadcastVars
  BY <1>2, BroadcastStutter
  DEF HaltStep, LoadState, SwapHalted, StoreAlert, SignalAlert, environment
<1>3. CASE CloseRing \/ FinishClose \/ \E s \in Sequences : Signal(s)
  BY <1>3, BroadcastStutter DEF CloseRing, FinishClose, Signal
<1>4. CASE UNCHANGED vars
  BY <1>4, BroadcastStutter DEF vars, environment
<1> QED
  BY <1>1, <1>2, <1>3, <1>4, BroadcastClaim, BroadcastAdvanceUpstream, BroadcastResolve
  DEF Next

(***************************************************************************)
(* The processor implements the bounded broadcast: whatever races with Run *)
(* and however often it is started again, the position that it stores      *)
(* advances over resolved sequences only, and never beyond its upstream.   *)
(***************************************************************************)
THEOREM ImplementsBroadcast == Spec => BroadcastSpec
BY BroadcastInit, BroadcastStep, Invariance, PTL DEF Spec, BroadcastSpec, Broadcast!Spec
=============================================================================
