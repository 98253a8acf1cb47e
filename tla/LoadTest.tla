------------------------------- MODULE LoadTest ------------------------------
(***************************************************************************)
(* One repetition of cmd/loadtest: runOnce starts the processors, lets the *)
(* publishers send a warm-up and a measured phase, waits for the terminal  *)
(* sequences, cancels the context, halts and joins the processors and      *)
(* reports.  The ring is what BoundedBroadcast promises of it, a processor *)
(* what ProcessorLifecycle shows of Run and Halt: a step of either is one  *)
(* atomic step here.  Times, memory statistics and handler delays are left *)
(* out; a payload is its first byte, a latency sample is a count.          *)
(***************************************************************************)
EXTENDS Integers, FiniteSetsExt

CONSTANTS
  ProducerCount, ConsumerCount,   \* -producers, -consumers
  Topologies,                     \* the values of -topology
  Latency,                        \* -mode is latency, not throughput
  WarmupEvents, Events,           \* -warmup-events, -events
  RingSize, BatchSize,            \* -ring-size, -batch-size
  SampleEvery,                    \* -sample-every
  MayTimeOut                      \* the deadline of -timeout may pass

(* What validateConfig and New admit. *)
ASSUME ConfigAssumption ==
  /\ {ProducerCount, ConsumerCount, Events, RingSize, BatchSize, SampleEvery} \subseteq Nat \ {0}
  /\ WarmupEvents \in Nat
  /\ {Latency, MayTimeOut} \subseteq BOOLEAN
  /\ Topologies \subseteq {"broadcast", "pipeline"}
  /\ "pipeline" \in Topologies => ConsumerCount >= 2

VARIABLES
  main,        \* the local state of runOnce and stopProcessors
  ctx,         \* the context of the repetition
  cursor,      \* the highest claimed sequence
  published,   \* the published sequences
  entries,     \* the payload and the Sampled flag in each slot
  pub,         \* the publisher goroutines of publishPhase
  run,         \* the goroutine and Run call of each processor
  sequence,    \* the position of each processor
  done,        \* the buffered channel each Run call reports to
  checksums, latencies   \* what the handlers accumulate

vars == <<main, ctx, cursor, published, entries, pub, run, sequence, done, checksums, latencies>>
mainVars == <<main, done>>
ringVars == <<cursor, published, entries>>
tallies == <<checksums, latencies>>
runVars == <<run, sequence, tallies>>

Producers == 0 .. ProducerCount - 1
Consumers == 1 .. ConsumerCount
Slots == 0 .. RingSize - 1
Last == WarmupEvents + Events - 1

Pipeline == main.topology = "pipeline"

(* Defect: the first stage of a pipeline is taken for the last. *)
DefectFirstStage == IF Pipeline THEN {1} ELSE Consumers

(* The gates and the sequences runOnce waits for. *)
Terminal == IF Pipeline THEN {ConsumerCount} ELSE Consumers

(* recordLatency: every broadcast consumer, or the last stage. *)
Records(c) == Latency /\ c \in Terminal

Init ==
  /\ \E t \in Topologies :
       main = [pc |-> "start",
               topology |-> t,        \* -topology, fixed
               measured |-> FALSE,    \* the phase
               at |-> 1,              \* the loop index
               first |-> "none",      \* the error stopProcessors returns
               failed |-> "no"]       \* what made runOnce fail: "phase" or "stop"
  /\ ctx = "live"
  /\ cursor = -1 /\ published = {}
  /\ entries = [i \in Slots |-> [payload |-> 0, sampled |-> FALSE]]
  /\ pub = [p \in Producers |-> [pc |-> "none", index |-> 0, sequence |-> -1]]
  /\ run = [c \in Consumers |-> [pc |-> "none", at |-> 0, end |-> -1, halted |-> FALSE]]
  /\ sequence = [c \in Consumers |-> -1]
  /\ done = [c \in Consumers |-> "empty"]
  /\ checksums = [c \in Consumers |-> 0]
  /\ latencies = [c \in Consumers |-> 0]

-----------------------------------------------------------------------------
(* A publisher of publishPhase: every ProducerCount-th index of the phase. *)
PhaseEvents == IF main.measured THEN Events ELSE WarmupEvents

Spawned == [p \in Producers |-> [pc |-> "claim", index |-> p, sequence |-> -1]]

HasCapacity == \A g \in Terminal : cursor + 1 - RingSize <= sequence[g]

(* ring.Next succeeds; a canceled context is noticed only when it waits. *)
Claim(p) ==
  /\ pub[p].pc = "claim" /\ pub[p].index < PhaseEvents /\ HasCapacity
  /\ cursor' = cursor + 1
  /\ pub' = [pub EXCEPT ![p].pc = "write", ![p].sequence = cursor + 1]
  /\ UNCHANGED <<published, entries>>

(* Defect: Sampled is only ever set, so a reused slot keeps it. *)
DefectKeepSampled(p) ==
  /\ pub[p].pc = "write"
  /\ LET slot == pub[p].sequence % RingSize IN
     entries' = [entries EXCEPT ![slot] =
       [payload |-> pub[p].sequence % 256,
        sampled |-> @.sampled \/ (main.measured /\ Latency /\ pub[p].index % SampleEvery = 0)]]
  /\ pub' = [pub EXCEPT ![p].pc = "publish"]
  /\ UNCHANGED <<cursor, published>>

(* The event is filled: Sampled is assigned, the payload is a byte. *)
Write(p) ==
  /\ pub[p].pc = "write"
  /\ entries' = [entries EXCEPT ![pub[p].sequence % RingSize] =
       [payload |-> pub[p].sequence % 256,
        sampled |-> main.measured /\ Latency /\ pub[p].index % SampleEvery = 0]]
  /\ pub' = [pub EXCEPT ![p].pc = "publish"]
  /\ UNCHANGED <<cursor, published>>

Publish(p) ==
  /\ pub[p].pc = "publish"
  /\ published' = published \cup {pub[p].sequence}
  /\ pub' = [pub EXCEPT ![p].pc = "claim", ![p].index = @ + ProducerCount]
  /\ UNCHANGED <<cursor, entries>>

(* Defect: the publisher waits for capacity without the context. *)
DefectWaitForCapacity(p) ==
  /\ pub[p].pc = "claim" /\ pub[p].index >= PhaseEvents
  /\ pub' = [pub EXCEPT ![p].pc = "finished"]
  /\ UNCHANGED ringVars

(* The loop ends, or Next returns the context's error. *)
EndPublisher(p) ==
  /\ pub[p].pc = "claim"
  /\ \/ /\ pub[p].index >= PhaseEvents
        /\ pub' = [pub EXCEPT ![p].pc = "finished"]
     \/ /\ pub[p].index < PhaseEvents /\ ~HasCapacity /\ ctx # "live"
        /\ pub' = [pub EXCEPT ![p].pc = "failed"]
  /\ UNCHANGED ringVars

PublisherStep(p) ==
  /\ Claim(p) \/ Write(p) \/ Publish(p) \/ EndPublisher(p)
  /\ UNCHANGED <<mainVars, ctx, runVars>>

-----------------------------------------------------------------------------
(* A processor: Run on its goroutine. *)
Desired(c) == sequence[c] + 1

(* What the barrier grants: a published prefix its dependency has passed. *)
Granted(c) ==
  {e \in Desired(c) .. Last : /\ Desired(c) .. e \subseteq published
                              /\ Pipeline /\ c > 1 => e <= sequence[c - 1]}

(***************************************************************************)
(* The goroutine gets to run, and the two swaps of Run: a Halt before the  *)
(* first finds an idle processor, one before the second ends the Run.      *)
(***************************************************************************)
StartRun(c) ==
  /\ \/ /\ run[c].pc = "new"
        /\ run' = [run EXCEPT ![c].pc = "starting"]
     \/ /\ run[c].pc = "starting" /\ ~run[c].halted
        /\ run' = [run EXCEPT ![c].pc = "check"]
  /\ UNCHANGED <<sequence, done, tallies>>

(* The select at the top of Run's loop. *)
CheckContext(c) ==
  /\ run[c].pc = "check" /\ ctx = "live"
  /\ run' = [run EXCEPT ![c].pc = "wait"]
  /\ UNCHANGED <<sequence, done, tallies>>

SelectBatch(c) ==
  /\ run[c].pc = "wait" /\ Granted(c) # {}
  /\ run' = [run EXCEPT ![c].pc = "handle", ![c].at = Desired(c),
                        ![c].end = Min({Max(Granted(c)), sequence[c] + BatchSize})]
  /\ UNCHANGED <<sequence, done, tallies>>

(* The handler closure of startProcessors, for one event. *)
Handle(c) ==
  /\ run[c].pc = "handle" /\ run[c].at <= run[c].end
  /\ LET event == entries[run[c].at % RingSize] IN
     /\ checksums' = [checksums EXCEPT ![c] = @ + event.payload]
     /\ latencies' = [latencies EXCEPT ![c] = IF Records(c) /\ event.sampled THEN @ + 1 ELSE @]
  /\ run' = [run EXCEPT ![c].at = @ + 1]
  /\ UNCHANGED <<sequence, done>>

Acknowledge(c) ==
  /\ run[c].pc = "handle" /\ run[c].at > run[c].end
  /\ sequence' = [sequence EXCEPT ![c] = run[c].end]
  /\ run' = [run EXCEPT ![c].pc = "check"]
  /\ UNCHANGED <<done, tallies>>

(* Run returns and its goroutine sends the result to done. *)
EndRun(c) ==
  /\ \/ /\ run[c].pc \in {"starting", "wait"} /\ run[c].halted
        /\ done' = [done EXCEPT ![c] = "nil"]
     \/ /\ ctx # "live"
        /\ run[c].pc = "check" \/ (run[c].pc = "wait" /\ Granted(c) = {})
        /\ done' = [done EXCEPT ![c] = ctx]
  /\ run' = [run EXCEPT ![c].pc = "ended"]
  /\ UNCHANGED <<sequence, tallies>>

RunStep(c) ==
  /\ StartRun(c) \/ CheckContext(c) \/ SelectBatch(c) \/ Handle(c) \/ Acknowledge(c) \/ EndRun(c)
  /\ UNCHANGED <<main, ctx, ringVars, pub>>

-----------------------------------------------------------------------------
(* startProcessors, then the first phase. *)
StartProcessors ==
  /\ main.pc = "start"
  /\ run' = [c \in Consumers |-> [run[c] EXCEPT !.pc = "new"]]
  /\ main' = [main EXCEPT !.pc = IF WarmupEvents > 0 THEN "publish" ELSE "clear"]
  /\ pub' = IF WarmupEvents > 0 THEN Spawned ELSE pub
  /\ UNCHANGED <<ctx, ringVars, sequence, done, tallies>>

(* publishers.Wait and the first error, if any. *)
JoinPublishers ==
  /\ main.pc = "publish"
  /\ \A p \in Producers : pub[p].pc \in {"finished", "failed"}
  /\ main' = IF \E p \in Producers : pub[p].pc = "failed"
             THEN [main EXCEPT !.pc = "cancel", !.failed = "phase"]
             ELSE [main EXCEPT !.pc = "await", !.at = Min(Terminal)]
  /\ UNCHANGED <<ctx, ringVars, pub, runVars, done>>

Target == IF main.measured THEN Last ELSE WarmupEvents - 1

Awaited == [main EXCEPT !.pc = IF main.measured THEN "cancel" ELSE "clear", !.at = 1]

(* Defect: the target is a count, not the last sequence. *)
DefectAwaitCount ==
  /\ main.pc = "await" /\ sequence[main.at] >= Target + 1
  /\ main' = IF main.at = Max(Terminal) THEN Awaited ELSE [main EXCEPT !.at = @ + 1]
  /\ UNCHANGED <<ctx, ringVars, pub, runVars, done>>

(* waitForSequences finds one sequence at the target and goes on. *)
AwaitSequence ==
  /\ main.pc = "await" /\ sequence[main.at] >= Target
  /\ main' = IF main.at = Max(Terminal) THEN Awaited ELSE [main EXCEPT !.at = @ + 1]
  /\ UNCHANGED <<ctx, ringVars, pub, runVars, done>>

(* waitForSequences finds the context done. *)
AwaitFails ==
  /\ main.pc = "await" /\ sequence[main.at] < Target /\ ctx # "live"
  /\ main' = [main EXCEPT !.pc = "cancel", !.failed = "phase"]
  /\ UNCHANGED <<ctx, ringVars, pub, runVars, done>>

(* clear(processors.checksums), then the measured phase. *)
ClearChecksums ==
  /\ main.pc = "clear"
  /\ checksums' = [c \in Consumers |-> 0]
  /\ pub' = Spawned
  /\ main' = [main EXCEPT !.pc = "publish", !.measured = TRUE]
  /\ UNCHANGED <<ctx, ringVars, run, sequence, done, latencies>>

(* cancel(), called at the end of the drain and by the deferred function. *)
Cancel ==
  /\ main.pc = "cancel"
  /\ ctx' = IF ctx = "live" THEN "canceled" ELSE ctx
  /\ main' = [main EXCEPT !.pc = "halt", !.at = 1, !.first = "none"]
  /\ UNCHANGED <<ringVars, pub, runVars, done>>

(* The first loop of stopProcessors; Halt is a no-op on an idle processor. *)
HaltProcessor ==
  /\ main.pc = "halt"
  /\ LET c == main.at IN
     run' = IF run[c].pc \in {"new", "ended"} THEN run ELSE [run EXCEPT ![c].halted = TRUE]
  /\ main' = IF main.at = ConsumerCount THEN [main EXCEPT !.pc = "join", !.at = 1]
             ELSE [main EXCEPT !.at = @ + 1]
  /\ UNCHANGED <<ctx, ringVars, pub, sequence, done, tallies>>

(* Defect: stopProcessors returns at the first error. *)
DefectJoinFirst ==
  /\ main.pc = "join" /\ main.at <= ConsumerCount /\ done[main.at] # "empty"
  /\ main' = [main EXCEPT !.at = IF done[@] = "nil" THEN @ + 1 ELSE ConsumerCount + 1,
                          !.first = IF done[main.at] # "nil" THEN done[main.at] ELSE @]
  /\ done' = [done EXCEPT ![main.at] = "empty"]
  /\ UNCHANGED <<ctx, ringVars, pub, runVars>>

(* The second loop: receive one result, keep the first error. *)
JoinProcessor ==
  /\ main.pc = "join" /\ main.at <= ConsumerCount /\ done[main.at] # "empty"
  /\ main' = [main EXCEPT !.at = @ + 1,
                          !.first = IF @ = "none" /\ done[main.at] # "nil" THEN done[main.at] ELSE @]
  /\ done' = [done EXCEPT ![main.at] = "empty"]
  /\ UNCHANGED <<ctx, ringVars, pub, runVars>>

(***************************************************************************)
(* stopProcessors has returned.  The deferred function ignores its error   *)
(* and runOnce returns; on the way to the report any error but Canceled    *)
(* makes runOnce return with stopped unset, so the deferred function stops *)
(* the processors once more.                                               *)
(***************************************************************************)
EndStop ==
  /\ main.pc = "join" /\ main.at > ConsumerCount
  /\ main' = IF main.failed # "no" THEN [main EXCEPT !.pc = "returned"]
             ELSE IF main.first = "deadline"
                  THEN [main EXCEPT !.pc = "cancel", !.failed = "stop"]
                  ELSE [main EXCEPT !.pc = "report"]
  /\ UNCHANGED <<ctx, ringVars, pub, runVars, done>>

(* The checksums are summed, the samples counted, the report returned. *)
Report ==
  /\ main.pc = "report"
  /\ main' = [main EXCEPT !.pc = "returned"]
  /\ UNCHANGED <<ctx, ringVars, pub, runVars, done>>

MainStep ==
  \/ StartProcessors \/ JoinPublishers \/ AwaitSequence \/ AwaitFails \/ ClearChecksums
  \/ Cancel \/ HaltProcessor \/ JoinProcessor \/ EndStop \/ Report

(* The deadline of context.WithTimeout. *)
TimeOut ==
  /\ MayTimeOut /\ ctx = "live"
  /\ ctx' = "deadline"
  /\ UNCHANGED <<mainVars, ringVars, pub, runVars>>

Next ==
  \/ MainStep \/ TimeOut
  \/ \E p \in Producers : PublisherStep(p)
  \/ \E c \in Consumers : RunStep(c)

Spec == Init /\ [][Next]_vars

(* The scheduler runs every goroutine; the deadline need not pass. *)
FairSpec ==
  /\ Spec
  /\ WF_vars(MainStep)
  /\ \A p \in Producers : WF_vars(PublisherStep(p))
  /\ \A c \in Consumers : WF_vars(RunStep(c))

-----------------------------------------------------------------------------
(***************************************************************************)
(* runOnce clears and sums the handlers' checksums without a lock: while   *)
(* it does, no handler is running, in either topology.                     *)
(***************************************************************************)
TalliesUnshared ==
  main.pc \in {"clear", "report"} => \A c \in Consumers : run[c].pc # "handle"

(***************************************************************************)
(* A report counts every measured event once for each consumer, nothing of *)
(* the warm-up, and one latency sample per SampleEvery events for each     *)
(* consumer that records them, although slots and their Sampled flags are  *)
(* reused.                                                                 *)
(***************************************************************************)
ReportExact ==
  main.pc = "report" =>
    \A c \in Consumers :
      /\ checksums[c] = MapThenSumSet(LAMBDA s : s % 256, WarmupEvents .. Last)
      /\ latencies[c] = IF Records(c) THEN (Events + SampleEvery - 1) \div SampleEvery ELSE 0

(***************************************************************************)
(* When runOnce returns, with a report or an error, no publisher and no    *)
(* processor is left running.                                              *)
(***************************************************************************)
EverythingJoined ==
  main.pc = "returned" =>
    /\ \A p \in Producers : pub[p].pc \in {"none", "finished", "failed"}
    /\ \A c \in Consumers : run[c].pc = "ended"

(***************************************************************************)
(* A repetition whose deadline does not pass ends with a report.           *)
(***************************************************************************)
ReportsInTheEnd ==
  [](ctx # "deadline") => <>(main.pc = "returned" /\ main.failed = "no")

(***************************************************************************)
(* A phase ends whenever the deadline passes, although the processors that *)
(* publishers and runOnce wait for may be gone: the next phase, the report *)
(* or a return follows, unless it was stopProcessors that failed.          *)
(***************************************************************************)
PhaseEnds ==
  main.pc = "publish" ~> main.pc \in {"clear", "report", "returned"} \/ main.failed = "stop"

(***************************************************************************)
(* What the -timeout flag says, "timeout per repetition": a repetition     *)
(* ends, whenever its deadline passes.                                     *)
(***************************************************************************)
RunOnceReturns == <>(main.pc = "returned")
=============================================================================
