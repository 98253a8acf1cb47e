------------------------- MODULE ProcessorLifecycle --------------------------
(***************************************************************************)
(* The life of a BatchProcessor: Run against Halt, alerts, a cancelled     *)
(* context, a failing handler and a closing ring, and what SequenceBarrier *)
(* .WaitFor waits with: the blocking strategy with its channel, or one of  *)
(* the polling ones.  The producers are reduced to claiming, resolving and *)
(* signalling; processBatch, detailed in RingCore, is one step.  The       *)
(* variable next of Run always is sequence + 1.                            *)
(***************************************************************************)
EXTENDS Integers

CONSTANTS
  Runners,       \* the goroutines that call Run, again and again
  Halters,       \* the goroutines that call Halt
  MaxSequence,   \* bound of the model: the last sequence that is claimed
  MaxBatchSize,  \* WithMaxBatchSize
  Strategy,      \* "blocking", or "polling" for the three others
  HasUpstream,   \* the barrier depends on another consumer
  Calls          \* what may happen besides Run, Halt and publication

ASSUME LifecycleAssumption ==
  /\ MaxSequence \in Nat
  /\ MaxBatchSize \in Nat \ {0}
  /\ Strategy \in {"blocking", "polling"}
  /\ HasUpstream \in BOOLEAN
  /\ Calls \subseteq {"Cancel", "Close", "Fail"}

VARIABLES
  state,        \* BatchProcessor.state
  alerted,      \* SequenceBarrier.alerted
  closing,      \* how far Close has come
  cursor,       \* sequencerBase.cursor
  resolved,     \* the sequences published or discarded
  unsignalled,  \* resolved sequences whose signalAll is still to come
  upstream,     \* the position of the upstream consumer
  sequence,     \* BatchProcessor.sequence
  run,          \* the local state of each Run call
  halt          \* the local state of each Halt call

environment == <<closing, cursor, resolved, unsignalled, upstream>>
vars == <<environment, state, alerted, sequence, run, halt>>

Sequences == 0 .. MaxSequence
Positions == -1 .. MaxSequence

RunState ==
  [pc : {"idle", "clear", "enter", "top", "barrier", "cursor", "take", "recheck",
         "alerted", "closed", "block", "dependent", "scan", "handle",
         "explain", "finish"},
   then : {"block", "dependent"},   \* where checkWait was called from
   end : Positions,                 \* what the barrier granted
   fired : BOOLEAN,                 \* the channel taken from the strategy is closed
   cancelled : BOOLEAN,             \* ctx is done
   result : {"none", "nil", "alerted", "closed", "context", "handler"}]

NotRunning ==
  [pc |-> "idle", then |-> "dependent", end |-> -1, fired |-> FALSE,
   cancelled |-> FALSE, result |-> "none"]

(* Halt keeps the state it loaded until its swap. *)
NotHalting == [pc |-> "idle", seen |-> "idle"]

Init ==
  /\ state = "idle" /\ alerted = FALSE
  /\ closing = "open"
  /\ cursor = -1 /\ resolved = {} /\ unsignalled = {} /\ upstream = -1
  /\ sequence = -1
  /\ run = [r \in Runners |-> NotRunning]
  /\ halt = [h \in Halters |-> NotHalting]

Desired == sequence + 1
Closed == closing # "open"
ChannelClosed == closing \in {"channel", "signalled"}

Goto(r, pc) == run' = [run EXCEPT ![r].pc = pc]
Return(r, result) ==
  run' = [run EXCEPT ![r] = [NotRunning EXCEPT !.pc = "finish", !.result = result]]

(***************************************************************************)
(* signalAll of the wait strategy closes the channel that waiters hold and *)
(* replaces it; a polling strategy has nobody to wake.                     *)
(***************************************************************************)
Fire ==
  run' = [r \in Runners |-> [run[r] EXCEPT
            !.fired = run[r].pc \in {"recheck", "alerted", "closed", "block"}]]

-----------------------------------------------------------------------------
(* Defect: Run also starts over a halted Run that has not returned yet. *)
DefectStartOverHalted(r) ==
  /\ run[r].pc = "idle" /\ state \in {"idle", "halted"}
  /\ state' = "starting"
  /\ run' = [run EXCEPT ![r] = [NotRunning EXCEPT !.pc = "clear"]]
  /\ UNCHANGED <<environment, alerted, sequence, halt>>

(* Run's first swap; when it fails Run returns ErrAlreadyRunning. *)
StartRun(r) ==
  /\ run[r].pc = "idle" /\ state = "idle"
  /\ state' = "starting"
  /\ run' = [run EXCEPT ![r] = [NotRunning EXCEPT !.pc = "clear"]]
  /\ UNCHANGED <<environment, alerted, sequence, halt>>

ClearAlert(r) ==
  /\ run[r].pc = "clear"
  /\ alerted' = FALSE
  /\ Goto(r, "enter")
  /\ UNCHANGED <<environment, state, sequence, halt>>

(* Defect: Run enters without comparing, and overwrites a Halt. *)
DefectStoreRunning(r) ==
  /\ run[r].pc = "enter"
  /\ state' = "running" /\ Goto(r, "top")
  /\ UNCHANGED <<environment, alerted, sequence, halt>>

(* Run's second swap fails when Halt came first. *)
EnterRunning(r) ==
  /\ run[r].pc = "enter"
  /\ \/ state = "starting" /\ state' = "running" /\ Goto(r, "top")
     \/ state # "starting" /\ UNCHANGED state /\ Return(r, "nil")
  /\ UNCHANGED <<environment, alerted, sequence, halt>>

(* The select on ctx.Done() that begins every round of Run's loop. *)
CheckContext(r) ==
  /\ run[r].pc = "top"
  /\ \/ run[r].cancelled /\ Return(r, "context")
     \/ ~run[r].cancelled /\ Goto(r, "barrier")
  /\ UNCHANGED <<environment, state, alerted, sequence, halt>>

(* WaitFor loads the alert before it calls the strategy. *)
WaitFor(r) ==
  /\ run[r].pc = "barrier"
  /\ Goto(r, IF alerted THEN "explain"
             ELSE IF Strategy = "blocking" THEN "cursor" ELSE "dependent")
  /\ UNCHANGED <<environment, state, alerted, sequence, halt>>

(* for cursor.Load() < desired *)
LoadCursor(r) ==
  /\ run[r].pc = "cursor"
  /\ Goto(r, IF cursor < Desired THEN "take" ELSE "dependent")
  /\ UNCHANGED <<environment, state, alerted, sequence, halt>>

(* ch := s.ch under the strategy's mutex *)
TakeChannel(r) ==
  /\ run[r].pc = "take"
  /\ run' = [run EXCEPT ![r].pc = "recheck", ![r].fired = FALSE]
  /\ UNCHANGED <<environment, state, alerted, sequence, halt>>

(* Defect: the cursor is not loaded again once the channel is held. *)
DefectNoRecheck(r) ==
  /\ run[r].pc = "recheck"
  /\ run' = [run EXCEPT ![r].pc = "alerted", ![r].then = "block"]
  /\ UNCHANGED <<environment, state, alerted, sequence, halt>>

RecheckCursor(r) ==
  /\ run[r].pc = "recheck"
  /\ \/ cursor >= Desired /\ Goto(r, "dependent")
     \/ /\ cursor < Desired
        /\ run' = [run EXCEPT ![r].pc = "alerted", ![r].then = "block"]
  /\ UNCHANGED <<environment, state, alerted, sequence, halt>>

(* checkWait: the alert ... *)
CheckAlerted(r) ==
  /\ run[r].pc = "alerted"
  /\ Goto(r, IF alerted THEN "explain" ELSE "closed")
  /\ UNCHANGED <<environment, state, alerted, sequence, halt>>

(* ... then the closed flag, then the context. *)
CheckClosed(r) ==
  /\ run[r].pc = "closed"
  /\ \/ Closed /\ Return(r, "closed")
     \/ ~Closed /\ run[r].cancelled /\ Return(r, "context")
     \/ /\ ~Closed /\ ~run[r].cancelled
        /\ run' = [run EXCEPT ![r].pc = run[r].then, ![r].then = "dependent"]
  /\ UNCHANGED <<environment, state, alerted, sequence, halt>>

(* Defect: the select has no case for the context. *)
DefectUncancellable(r) ==
  /\ run[r].pc = "block"
  /\ \/ /\ run[r].fired
        /\ run' = [run EXCEPT ![r].pc = "cursor", ![r].fired = FALSE]
     \/ ChannelClosed /\ Return(r, "closed")
  /\ UNCHANGED <<environment, state, alerted, sequence, halt>>

(* The blocking select, with any of the cases that are ready. *)
Wake(r) ==
  /\ run[r].pc = "block"
  /\ \/ /\ run[r].fired
        /\ run' = [run EXCEPT ![r].pc = "cursor", ![r].fired = FALSE]
     \/ run[r].cancelled /\ Return(r, "context")
     \/ ChannelClosed /\ Return(r, "closed")
  /\ UNCHANGED <<environment, state, alerted, sequence, halt>>

(* Defect: the barrier waits on the cursor instead of its dependencies. *)
DefectIgnoreUpstream(r) ==
  /\ run[r].pc = "dependent"
  /\ run' = IF cursor >= Desired
            THEN [run EXCEPT ![r].pc = "scan", ![r].end = cursor]
            ELSE [run EXCEPT ![r].pc = "alerted", ![r].then = "dependent"]
  /\ UNCHANGED <<environment, state, alerted, sequence, halt>>

(***************************************************************************)
(* dependent.Load(): the polling loop, and the second loop of the blocking *)
(* strategy.  Busy spinning skips some calls of checkWait and sleeping     *)
(* adds a select with the same outcomes, which only delays the load.       *)
(***************************************************************************)
LoadDependent(r) ==
  /\ run[r].pc = "dependent"
  /\ LET available == IF HasUpstream THEN upstream ELSE cursor
     IN run' = IF available >= Desired
               THEN [run EXCEPT ![r].pc = "scan", ![r].end = available]
               ELSE [run EXCEPT ![r].pc = "alerted", ![r].then = "dependent"]
  /\ UNCHANGED <<environment, state, alerted, sequence, halt>>

(* The end of the resolved sequences from desired on, up to available. *)
HighestPublished(available) ==
  CHOOSE h \in sequence .. available :
    /\ Desired .. h \subseteq resolved
    /\ h = available \/ h + 1 \notin resolved

(* WaitFor stops before a gap and Run caps the batch. *)
Scan(r) ==
  /\ run[r].pc = "scan"
  /\ LET available == HighestPublished(run[r].end)
         end == IF available - sequence > MaxBatchSize
                THEN sequence + MaxBatchSize ELSE available
     IN run' = [run EXCEPT ![r].pc = "handle", ![r].end = end]
  /\ UNCHANGED <<environment, state, alerted, sequence, halt>>

(* Defect: the next sequence is stored instead of the batch's last one. *)
DefectAcknowledgeNext(r) ==
  /\ run[r].pc = "handle"
  /\ sequence' = run[r].end + 1
  /\ run' = [run EXCEPT ![r].pc = "top", ![r].end = -1]
  /\ UNCHANGED <<environment, state, alerted, halt>>

(* processBatch succeeds and sequence.Store(end) acknowledges the batch ... *)
Acknowledge(r) ==
  /\ run[r].pc = "handle"
  /\ sequence' = run[r].end
  /\ run' = [run EXCEPT ![r].pc = "top", ![r].end = -1]
  /\ UNCHANGED <<environment, state, alerted, halt>>

(* ... or the handler returns an error or panics. *)
FailHandler(r) ==
  /\ "Fail" \in Calls
  /\ run[r].pc = "handle" /\ run[r].end >= Desired
  /\ Return(r, "handler")
  /\ UNCHANGED <<environment, state, alerted, sequence, halt>>

(* ErrAlerted becomes nil when the state says that Halt was called. *)
ExplainAlert(r) ==
  /\ run[r].pc = "explain"
  /\ Return(r, IF state = "halted" THEN "nil" ELSE "alerted")
  /\ UNCHANGED <<environment, state, alerted, sequence, halt>>

(* The deferred state.Store(processorIdle). *)
FinishRun(r) ==
  /\ run[r].pc = "finish"
  /\ state' = "idle"
  /\ run' = [run EXCEPT ![r] = NotRunning]
  /\ UNCHANGED <<environment, alerted, sequence, halt>>

-----------------------------------------------------------------------------
(* Halt loads the state and does nothing for an idle or halted processor. *)
LoadState(h) ==
  /\ halt[h].pc \in {"idle", "load"}
  /\ \/ /\ state \in {"starting", "running"}
        /\ halt' = [halt EXCEPT ![h] = [pc |-> "cas", seen |-> state]]
     \/ /\ state \in {"idle", "halted"} /\ halt[h].pc = "load"
        /\ halt' = [halt EXCEPT ![h] = NotHalting]
  /\ UNCHANGED <<environment, state, alerted, sequence, run>>

(* The swap to halted, or another round with a fresh load. *)
SwapHalted(h) ==
  /\ halt[h].pc = "cas"
  /\ \/ /\ state = halt[h].seen /\ state' = "halted"
        /\ halt' = [halt EXCEPT ![h] = [pc |-> "alert", seen |-> "idle"]]
     \/ /\ state # halt[h].seen /\ UNCHANGED state
        /\ halt' = [halt EXCEPT ![h] = [pc |-> "load", seen |-> "idle"]]
  /\ UNCHANGED <<environment, alerted, sequence, run>>

(* Alert stores the flag ... *)
StoreAlert(h) ==
  /\ halt[h].pc = "alert"
  /\ alerted' = TRUE
  /\ halt' = [halt EXCEPT ![h].pc = "signal"]
  /\ UNCHANGED <<environment, state, sequence, run>>

(* ... and wakes who waits. *)
SignalAlert(h) ==
  /\ halt[h].pc = "signal"
  /\ Fire
  /\ halt' = [halt EXCEPT ![h] = NotHalting]
  /\ UNCHANGED <<environment, state, alerted, sequence>>

-----------------------------------------------------------------------------
(***************************************************************************)
(* The producers.  A claim that passed the sealed check may still succeed  *)
(* after Close.  Publish and Discard resolve first and signal then.        *)
(***************************************************************************)
Claim ==
  /\ cursor < MaxSequence /\ cursor' = cursor + 1
  /\ UNCHANGED <<closing, resolved, unsignalled, upstream, state, alerted,
                 sequence, run, halt>>

Resolve(s) ==
  /\ s <= cursor /\ s \notin resolved
  /\ resolved' = resolved \cup {s}
  /\ unsignalled' = unsignalled \cup {s}
  /\ UNCHANGED <<closing, cursor, upstream, state, alerted, sequence, run, halt>>

Signal(s) ==
  /\ s \in unsignalled
  /\ unsignalled' = unsignalled \ {s}
  /\ Fire
  /\ UNCHANGED <<closing, cursor, resolved, upstream, state, alerted, sequence, halt>>

(* The upstream consumer advances over what is resolved; it signals nobody. *)
AdvanceUpstream ==
  /\ HasUpstream /\ upstream + 1 \in resolved
  /\ upstream' = upstream + 1
  /\ UNCHANGED <<closing, cursor, resolved, unsignalled, state, alerted,
                 sequence, run, halt>>

(* closed.Store(true) in Close *)
CloseRing ==
  /\ "Close" \in Calls /\ closing = "open" /\ closing' = "closed"
  /\ UNCHANGED <<cursor, resolved, unsignalled, upstream, state, alerted,
                 sequence, run, halt>>

(* Defect: Close stores the flag and nothing more. *)
DefectFlagOnly ==
  closing = "closed" /\ UNCHANGED vars

(* close(closedCh), then wait.signalAll() *)
FinishClose ==
  /\ \/ closing = "closed" /\ closing' = "channel" /\ UNCHANGED run
     \/ closing = "channel" /\ closing' = "signalled" /\ Fire
  /\ UNCHANGED <<cursor, resolved, unsignalled, upstream, state, alerted,
                 sequence, halt>>

(* The context of a Run that has not decided to return is cancelled. *)
Cancel(r) ==
  /\ "Cancel" \in Calls
  /\ run[r].pc \notin {"idle", "finish"} /\ ~run[r].cancelled
  /\ run' = [run EXCEPT ![r].cancelled = TRUE]
  /\ UNCHANGED <<environment, state, alerted, sequence, halt>>

-----------------------------------------------------------------------------
(* What a Run call does on its own. *)
RunStep(r) ==
  \/ ClearAlert(r) \/ EnterRunning(r) \/ CheckContext(r) \/ WaitFor(r)
  \/ LoadCursor(r) \/ TakeChannel(r) \/ RecheckCursor(r)
  \/ CheckAlerted(r) \/ CheckClosed(r) \/ Wake(r) \/ LoadDependent(r)
  \/ Scan(r) \/ Acknowledge(r) \/ FailHandler(r) \/ ExplainAlert(r) \/ FinishRun(r)

(* What a Halt call does once it has met a Run. *)
HaltStep(h) ==
  \/ halt[h].pc = "load" /\ LoadState(h)
  \/ SwapHalted(h) \/ StoreAlert(h) \/ SignalAlert(h)

Next ==
  \/ \E r \in Runners : StartRun(r) \/ RunStep(r) \/ Cancel(r)
  \/ \E h \in Halters : LoadState(h) \/ HaltStep(h)
  \/ Claim \/ AdvanceUpstream \/ CloseRing \/ FinishClose
  \/ \E s \in Sequences : Resolve(s) \/ Signal(s)

Spec == Init /\ [][Next]_vars

(***************************************************************************)
(* Fairness: Run, Halt, Close and a resolution that has begun go on.       *)
(* Nobody has to claim, to resolve a claim, to start Run or to halt it.    *)
(***************************************************************************)
Fairness ==
  /\ \A r \in Runners : WF_vars(RunStep(r))
  /\ \A h \in Halters : WF_vars(HaltStep(h))
  /\ \A s \in Sequences : WF_vars(Signal(s))
  /\ WF_vars(FinishClose)
  /\ WF_vars(AdvanceUpstream)

FairSpec == Spec /\ Fairness

-----------------------------------------------------------------------------
(* Every variable keeps its type. *)
TypeOK ==
  /\ state \in {"idle", "starting", "running", "halted"}
  /\ alerted \in BOOLEAN
  /\ closing \in {"open", "closed", "channel", "signalled"}
  /\ cursor \in Positions /\ upstream \in Positions /\ sequence \in Positions
  /\ resolved \in SUBSET Sequences /\ unsignalled \in SUBSET Sequences
  /\ run \in [Runners -> RunState]
  /\ halt \in [Halters -> [pc : {"idle", "load", "cas", "alert", "signal"},
                           seen : {"idle", "starting", "running"}]]

Active(r) == run[r].pc # "idle"

(***************************************************************************)
(* One Run at a time, whatever Halt does meanwhile: two of them would both *)
(* store the sequence.  While one is active the state never shows idle.    *)
(***************************************************************************)
OneRunAtATime ==
  \A r \in Runners :
    Active(r) => state # "idle" /\ \A q \in Runners : Active(q) => q = r

(***************************************************************************)
(* No wake-up is lost: a consumer that sleeps on a channel nobody has      *)
(* closed is not waiting for a sequence whose signal has already gone out, *)
(* nor under an alert whose Halt has already signalled.                    *)
(***************************************************************************)
NoLostWakeup ==
  \A r \in Runners :
    run[r].pc = "block" /\ ~run[r].fired =>
      /\ Desired \in resolved => Desired \in unsignalled
      /\ alerted => \E h \in Halters : halt[h].pc = "signal"

(***************************************************************************)
(* However Runs are halted, fail, are cancelled and restarted, the stored  *)
(* position moves forward only, over resolved sequences and behind the     *)
(* upstream consumer: the bounded broadcast with one or two consumers.     *)
(***************************************************************************)
Broadcast == INSTANCE BoundedBroadcast WITH
  BufferSize <- 1,
  Consumers <- {"upstream", "processor"},
  Upstream <- [c \in {"upstream", "processor"} |->
                 IF c = "processor" /\ HasUpstream THEN {"upstream"} ELSE {}],
  Gating <- {},
  claimed <- cursor,
  outcome <- [s \in Sequences |-> IF s \in resolved THEN 1 ELSE 0],
  position <- [c \in {"upstream", "processor"} |->
                 IF c = "upstream" THEN upstream ELSE sequence]
BroadcastSpec == Broadcast!Spec

(***************************************************************************)
(* Halt stops the Run it has met, also one that is starting, that sleeps   *)
(* on the channel, waits for its upstream or spins before a gap.           *)
(***************************************************************************)
HaltStopsRun == state = "halted" ~> state = "idle"

(* Run returns when its context is done, wherever it waits. *)
CancelEndsRun ==
  \A r \in Runners : run[r].cancelled ~> ~Active(r)

(***************************************************************************)
(* Closing the ring ends Run, and every Run that is started later, when no *)
(* claim is left unresolved for ever.                                      *)
(***************************************************************************)
CloseEndsDrainedRun ==
  <>[](Closed /\ 0 .. cursor \subseteq resolved) =>
    []<>(\A r \in Runners : ~Active(r))

(***************************************************************************)
(* What the comment of Run promises: it returns when the ring is closed.   *)
(***************************************************************************)
CloseEndsRun == Closed ~> (\A r \in Runners : ~Active(r))
=============================================================================
