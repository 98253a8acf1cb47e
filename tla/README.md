# Verification of disruptor-go

TLA+ models of the ring buffer library in the Go package at the root of the
repository and of its load test command, TLC configurations that check them on small instances, and proofs
that TLAPS checks for every instance.

## 1. The system

A ring of `BufferSize` reusable events connects producers to consumers without
locks. Positions are 64-bit *sequences*; a sequence's slot is its value modulo
the (power of two) size.

| Component | Source | State | Operations |
|---|---|---|---|
| Sequence, group | `sequence.go` | an atomic value, a list of producer signals | Load, Store, Add, CompareAndSwap, minimum of a list |
| Sequencer base | `sequencer.go` | cursor, gate list (copy on write), sealed, closed, closedCh | AddGatingSequences, RemoveGatingSequence, Close, beginShutdown, awaitShutdown, waitForCapacity |
| Multi-producer sequencer | `sequencer_multi.go`, `publication.go` | gateCache, one publication word for each slot | Next, TryNext, prepare, Publish, Discard, HighestPublished, IsDiscarded |
| Single-producer sequencer | `sequencer_single.go` | nextValue, cachedGate (plain fields), discard markers | the same |
| Producer wait | `producer_wait.go` | a channel that signalAll closes and replaces | prepare, wait, signalAll |
| Consumer wait | `wait_strategy.go` | a channel, for the blocking strategy | waitFor (busy, yielding, sleeping, blocking), signalAll |
| Barrier | `barrier.go` | alerted | WaitFor, Alert, ClearAlert |
| Batch processor | `processor.go` | its Sequence, a start/run/halt state | Run, Halt |
| Event poller | `poller.go` | its Sequence | Poll |
| Ring buffer | `ring_buffer.go` | events, a flag "some claim was discarded" | Publish, PublishN and their Try forms, raw claims, PublishRange, DiscardRange, Get, Shutdown, Close |
| Load test | `cmd/loadtest/runner.go` | counters of the handlers, done channels, a deadline | runOnce, publishPhase, waitForSequences, startProcessors, stopProcessors |

How they interact. A producer claims sequences from the sequencer, which admits
a claim only when the slowest *gating* sequence is less than a lap behind it,
writes the events and resolves each of them by publishing or discarding it. A
consumer waits on a barrier over the cursor or over the sequences of upstream
consumers, asks the sequencer how far that range is resolved, hands the
published events to its handler and stores the end of the batch in its own
sequence, which in turn releases downstream consumers and producers.
Everything is shared memory: nearly every line is one atomic access, and every
decision is made on values that may have changed since they were loaded.

What is hard: stale cursors and gates, minima over positions read one by one,
the window between the swap of the cursor and `prepare`, gaps left by other
producers, repeated resolution, the order of the discard flag, marker and
cursor, replay after a handler failure, lost wake-ups of the two blocking waits,
Halt against a restarted Run, Close and Shutdown against claims in flight, and
gates registered at runtime; and in the load test, counters shared without a
lock and a deadline that may pass between any two steps. `PROJECT.json` lists each at its line with the
properties that would catch it going wrong.

What makes it correct: no claim laps a gate; a slot never has two users at a
time; a handler sees the event of its own lap; acknowledged means delivered;
discarded is never delivered; the first resolution of a sequence is final; and
everything claimed is acknowledged in the end. Nobody sleeps through a wake-up,
and Halt, Close, Shutdown and a cancelled context take effect.

## 2. Modules

| Module | Models |
|---|---|
| `BoundedBroadcast` | the abstract promise: claims in order within a lap of every gate, one resolution for each sequence, acknowledgement of resolved prefixes behind the upstream consumers; each operation is one step |
| `RingCore` | what both modes share: ring state, `SequenceBarrier.WaitFor` with a polling strategy, the loop of `BatchProcessor.Run` and `processBatch`, sealing and closing |
| `MultiProducer` | `multiProducerSequencer` with any number of producers, composed with `RingCore` |
| `SingleProducer` | `singleProducerSequencer`, composed with `RingCore` |
| `EventPoller` | `EventPoller.Poll`, composed with `MultiProducer`: one of the consumers is polled instead of run |
| `ProcessorLifecycle` | the states of `BatchProcessor`: Run against Halt, alerts, contexts and Close, with the blocking or a polling wait strategy |
| `GateRegistry` | `sequencerBase` at runtime: gates added and removed, signal lists, the blocking producer wait, Close and Shutdown |
| `LoadTest` | one repetition of `cmd/loadtest` over what the modules above promise |
| `MC...` | topologies and symmetry sets for TLC |
| `RingCoreProofs` | what a consumer's steps preserve, whichever sequencer answers |
| `MultiProducerProofs`, `MultiProducerRingProofs`, `SingleProducerProofs`, `EventPollerProofs`, `ProcessorLifecycleProofs`, `GateRegistryProofs`, `LoadTestProofs` | the theorems about each model |

`MultiProducer` and `SingleProducer` extend `RingCore`, and `EventPoller`
extends `MultiProducer`. All of them, and `ProcessorLifecycle`, implement
`BoundedBroadcast` (the property `BroadcastSpec`). `ProcessorLifecycle` and
`GateRegistry` put the two blocking waits and the life cycles under the
microscope that the ring modules leave out, and reduce the rest to what those
need; `LoadTest` uses the promises of all of them as atomic steps.

**Granularity.** One action is one access to shared memory together with the
local computation that follows it. A load whose result only makes the code loop
is a stuttering step.

**RingCore.** `con[c].pc` follows a `Run` call: `wait` (`waitFor`), `scan`
(`HighestPublished`, one word a step), `select` (batch cap and load of the
discarded flag), `last` (the backward loop for `endOfBatch`), `handle` (the
handler loop). `Acknowledge` is `sequence.Store(end)`. `FailHandler` is a
handler error or panic followed by the supervisor's restart: the batch is
replayed. A Run that ends in the wait and is started again changes nothing, so
it needs no action. `entries` keeps for each slot the sequence whose event was
last written to it, which is all that a stale or overwritten event means here.
`handled`, `outcome` and `untranslated` are history variables.

**MultiProducer.** `prod[p].pc` follows `Next`/`TryNext`: `sealed`, `cursor`,
`cache`, `gates` (one gate a step), `cas`, `prepare`, and then `owned` and
`resolve` for the owner of the claim, who translates in order and resolves
sub-ranges in any order. `ResolveAgain` repeats the resolution of any sequence
that is resolved already, at any later time.

**SingleProducer.** Claims are local until a gate has to be read. With
`ClaimAhead` the producer claims while earlier claims are unresolved. `Publish`
is one store of the cursor; `Discard` stores marker and cursor for each
sequence. The two loads of `IsDiscarded` are one step: a sequence in a batch is
at or below the cursor and within a lap of it from its selection to its
acknowledgement (`SlotsExclusive`, monotone cursor), so that the first load
decides nothing. This does not hold with `PublishAgain`, which only the
violation run uses; there the merged step is one of the code's behaviours.

**EventPoller.** `poll` is the local state of a `Poll` call: loads of the cursor
(`LoadProducer`), of the dependencies, of the publication words (`Scan` of
`RingCore`) and last of the closed flag (`ReportNothing`), then the shared
`processBatch`. `claimedAtStart` and `seenAtStart` remember what was true when
the call began. A poller is any member of `Pollers`, chosen at the start.

**ProcessorLifecycle.** `run[r].pc` follows a `Run` call of one goroutine: the
two swaps of the state around `ClearAlert`, the select on the context, the
barrier's load of the alert, the two loops of the wait strategy with `checkWait`
and the channel, the batch, and the deferred store of idle. `fired` says that
the channel this Run holds is closed; `Fire` is `signalAll`. `halt[h].pc` is the
load, the swap and the two steps of `Alert`. A publication is `Resolve` and, in
a step of its own, `Signal`. `processBatch` is one step.

**GateRegistry.** Producers follow the claim loop with `prepare` before the
gates are read and a select on the prepared channel; `owner[g]` is the consumer
that stores gate `g` and then signals who is on its list, two steps. An
administrator runs `AddGatingSequences`, `RemoveGatingSequence`, `Close` or
`Shutdown` one access at a time; `gatingMu` and `closeOnce` are the mutex and
the `sync.Once`. The list is a count for each gate, since a gate may be
registered more than once.

**LoadTest.** `main.pc` follows `runOnce` and what it calls: start, publish a
phase, await the terminal sequences, clear the counters, publish again, cancel,
halt, join, report, and the deferred stop on an error. Publishers and Run calls
are goroutines of their own, and a Run can be halted between its two swaps, in
its starting state. A payload is the byte the handlers add up, a
latency sample is counted rather than timed.

**Definitions called `Defect...`** stand before the definition they alter. No
specification uses them: each is a plausible bug that breaks a property,
which shows that the property depends on the code.

### Assumptions of the models

* The topology is assembled before the first publication, as the guides ask,
  and every consumer leads downstream to a gate (`TopologyAssumption`; "gate
  only the final stage", `docs/production.md`).
* A producer publishes what it has translated, or what its translator gave up
  on; it resolves only what it has claimed (or, repeated, has resolved).
* Single-producer claims are resolved in claim order by one goroutine.
* In the ring modules both waits poll. What the blocking ones add, a wake-up,
  cannot change which step is taken next, only when; that none is lost is
  checked in `ProcessorLifecycle` and `GateRegistry`.
* In `GateRegistry` what is claimed counts as published at once, a consumer is
  started after its gate was registered, and a gate is added by a call of its
  own (the code takes several in one call and stores the list once). In `ProcessorLifecycle` the upstream
  consumer goes on.

## 3. Runs

| Run | Instance | Properties | States |
|---|---|---|---|
| `mp_ring` | 2 producers, 2 slots, sequences 0..3, counts 1 and 2, fair | `TypeOK`, `GatesProtected`, `SlotsExclusive`, `BroadcastSpec`, `EventuallyAcknowledged`, `ClaimReturns` | 95 thousand |
| `mp_one_slot` | 2 producers, 1 slot, 0..2, TryNext, discards, repeated resolution, failing translators, Close | `ReadsOwnEvent`, `AcknowledgedWasHandled`, `BroadcastSpec` | 1.3 million |
| `poll_pipeline` | 1 producer, 2 slots, 0..2, two stages that may fail, either polled, discards, Close | `PollReportsTruth`, `AcknowledgedWasHandled`, `EndOfBatchIsLastDelivered`, `BroadcastSpec` | 620 thousand |
| `sp_pipeline` | 2 slots, 0..3, two stages, every call, failing c1 | `TypeOK`, `SlotsExclusive`, `AcknowledgedWasHandled`, `EndOfBatchIsLastDelivered`, `BroadcastSpec` | 270 thousand |
| `sp_gates` | 2 slots, 0..4, c1 and c2 before c3, gates c1 and c3, claims ahead, fair | `GatesProtected`, `BroadcastSpec`, `EventuallyAcknowledged` | 35 thousand |
| `processor_blocking` | 2 runners, 1 halter, 0..1, blocking strategy, upstream, failures, Cancel, Close, fair | `TypeOK`, `OneRunAtATime`, `NoLostWakeup`, `BroadcastSpec`, `HaltStopsRun`, `CancelEndsRun`, `CloseEndsDrainedRun` | 200 thousand |
| `gates_blocking` | 2 producers, 2 gates, 1 administrator, 1 slot, 0..2, Remove, Close, Shutdown | `TypeOK`, `RegisteredProtected`, `BlockedForAReason`, `ShutdownDrains` | 1.8 million |
| `gates_lifecycle` | 1 producer, 1 gate registered up to twice, 2 administrators, 1 slot, 0..1, every call, fair | `SignalsMatchGates`, `SleepersWake`, `ShutdownCloses` | 140 thousand |
| `loadtest_repetition` | 2 publishers, 2 consumers, broadcast and pipeline, 2 slots, 2 + 3 events, deadline, fair | `TalliesUnshared`, `ReportExact`, `EverythingJoined`, `PhaseEnds`, `ReportsInTheEnd` | 54 thousand |
| `sp_duplicate` | 2 slots, 0..2, a publication is repeated | `DuplicatesIgnored` is violated | |
| `processor_closed_gap` | 1 runner, sequence 0, polling strategy, Close | `CloseEndsRun` is violated | |
| `loadtest_timeout` | 1 publisher, 1 consumer, 1 event, deadline | `RunOnceReturns` is violated | |

**Bounds.** `MaxSequence` is where producers stop claiming; it gives at least
two laps of the one- and two-slot rings of the claim runs, and one wrap where a
poller is checked; the words, markers and caches only tell "this lap" from
"another lap". `WordLaps`, the laps a publication word tells apart, is 2 or 4
instead of 2^62, no more than the laps of a run need: a stale word, of the lap
before or from the start, is met in every run, a word that comes back after
`WordLaps` laps in none. That case is left to the theorems of
`MultiProducerRingProofs`, which hold for any number of laps. Two producers are enough for a lost
swap, a stale cache and a gap; two gates or upstream consumers for a minimum
that never existed at one instant; batches of two for the cap and for a batch
that ends in discards. In the life-cycle runs a one-slot ring makes every second
claim wait, and two sequences let a consumer sleep, be woken and sleep again.
`MaxCopies` is how often one gate is registered; two is the case in which its
signal must stay after one removal. The load test has fewer slots than events
in a phase, and both phases differ from a multiple of the sampling interval.
Producers, gates and administrators are symmetric in the safety runs; symmetry
is not used for liveness. Deadlock is not checked because the system may rest:
nobody has to claim, run, poll, halt or call, and a repetition ends.

**Fairness.** Weak fairness of each goroutine's own steps: Go's scheduler runs
what can run, and the polling loops never block. In the ring runs it includes
the owner of a claim, since "every successful raw claim must eventually be
resolved" (`docs/usage.md`); a claim left unresolved stops consumers by design.
`ProcessorLifecycle` assumes less: Run, Halt, Close and a resolution that has
begun go on and the upstream consumer advances, but nobody has to claim or
resolve. In `GateRegistry` producers and administrators go on with what they
began, consumers advance while the ring is open and may stop for good once it
is closed, and no context has to be cancelled; in `LoadTest` the deadline
need not pass. Nobody is obliged to start a claim, a Run, a Halt or a call. In
`sp_gates` the producer may claim ahead; when its own unresolved claims fill the
ring it waits for itself (`WaitsForItself`), which `EventuallyAcknowledged`
admits as the only other end. `ClaimReturns` is about waiting for capacity: a
producer that loses the swap again and again loses it to claims that succeed,
and of those a finite instance has finitely many. `HaltStopsRun`,
`CancelEndsRun` and `CloseEndsDrainedRun` hold although a handler may fail at
any time.

**What the violations show.**

* `sp_duplicate`: `docs/usage.md` says of both modes that duplicate resolution
  calls are ignored and the first one wins. That holds for the multi-producer
  ring (`mp_one_slot`) and for repeated discards of the single producer
  (`sp_pipeline`). A repeated *publication* of an earlier sequence in
  single-producer mode stores the cursor unconditionally and takes back the
  visibility of what was resolved after it.
* `processor_closed_gap`: Run is said to return when the ring is closed. With a
  claim that nobody resolves, `WaitFor` returns the sequence before the gap and
  no error, and Run spins. When every claim is resolved in the end Run does
  return (`CloseEndsDrainedRun`).
* `loadtest_timeout`: when the deadline passes after the drain and before the
  cancellation, `stopProcessors` reports it, `runOnce` returns an error with
  `stopped` unset, and the deferred function waits for the processors a second
  time on channels that are already empty. `PhaseEnds` shows that this is the
  only place where a repetition hangs.

**Known limits of the code that no run is about.**

* `Halt` alerts the barrier in a step after its swap. If the halted Run returns
  and another one starts in between, the second one ends with `ErrAlerted`.
* A gate that is *added* while producers claim may already be lapped when the
  new list is stored (`docs/usage.md` advises to assemble the graph first), so
  `RegisteredProtected` is checked with gates removed, and additions are
  checked for their signals.
* `AddGatingSequences` stores the cursor, as it loaded it before, into the new
  gate. If that gate's consumer already runs, the store may take its position
  back, and a producer that was woken by the advance sleeps again until the
  consumer acknowledges once more. `GateRegistry` therefore adds a gate only
  while its consumer is stopped.
* `Poll` loads the closed flag last: an event published after its first load
  may be followed by `ErrClosed`, although `docs/usage.md` says that `Poll`
  returns it "once no visible event remains"; a further `Poll` would process
  the event. `PollReportsTruth` is about what was visible when the call began.

## 4. Proofs

Every theorem holds for every value of the constants that the module's
assumptions admit: any sets of producers, consumers, gates, runners, halters and
administrators, any ring, batch and claim size, any topology. The hypotheses
that some of them have on top are listed with them.

| Theorem | Property | Under |
|---|---|---|
| `MultiProducerProofs.TypeCorrect`, `GatesAreProtected` | `TypeOK`, `GatesProtected` | |
| `MultiProducerRingProofs.SlotsNeverShared`, `EventsOwn`, `NothingSkipped`, `EndOfBatchExact`, `ImplementsBroadcast` | `SlotsExclusive`, `ReadsOwnEvent`, `AcknowledgedWasHandled`, `EndOfBatchIsLastDelivered`, `BroadcastSpec` | `Attached`, `WordsDistinct` |
| `EventPollerProofs.PollTellsTheTruth`, `PolledNothingSkipped`, `PolledEndOfBatchExact`, `PolledRingImplementsBroadcast` | `PollReportsTruth`, `AcknowledgedWasHandled`, `EndOfBatchIsLastDelivered`, `BroadcastSpec` | |
| `SingleProducerProofs.TypeCorrect`, `GatesNeverLapped` | `TypeOK`, `GatesProtected` | |
| `SingleProducerProofs.SlotsNeverShared`, `EventsOwn`, `NothingSkipped`, `EndOfBatchExact`, `RepeatedDiscardsIgnored`, `ImplementsBroadcast` | `SlotsExclusive`, `ReadsOwnEvent`, `AcknowledgedWasHandled`, `EndOfBatchIsLastDelivered`, `DuplicatesIgnored`, `BroadcastSpec` | no `PublishAgain` |
| `ProcessorLifecycleProofs.TypeCorrect`, `OneRunner`, `WakeupsArrive`, `ImplementsBroadcast` | `TypeOK`, `OneRunAtATime`, `NoLostWakeup`, `BroadcastSpec` | |
| `GateRegistryProofs.TypeCorrect`, `SignalsAgree`, `SleepersHaveAReason`, `SuccessMeansDrained` | `TypeOK`, `SignalsMatchGates`, `BlockedForAReason`, `ShutdownDrains` | |
| `GateRegistryProofs.RemovalsNeverLap` | `RegisteredProtected` | no `Add` |
| `LoadTestProofs.NothingLeftRunning`, `TalliesNeverShared`, `ReportsAreExact` | `EverythingJoined`, `TalliesUnshared`, `ReportExact` | |

**The hypotheses.**

* `Attached`: there is a consumer. A ring without gates never holds a producer
  back, and its producers do share slots.
* `WordsDistinct`: if the application repeats resolutions, the laps of the run
  fit a publication word. Without it a repeated call about a sequence exactly
  `WordLaps` laps back would be taken for one about the current lap. The code's
  words hold 62 bits of the lap and sequences are `int64`, so with two slots or
  more it always holds; without repeated calls it is not needed.
* No `PublishAgain`: a repeated publication in single-producer mode moves the
  cursor back, which is the finding of `sp_duplicate`. `RepeatedDiscardsIgnored`
  shows that nothing else breaks the documented rule.
* No `Add`: a gate added while producers claim may be lapped before it is on
  the list that they read (section 3, known limits).

**Consumers** (`RingCoreProofs`). `ConsumerInv` says that
the batch of a consumer does not end below its position; `ConsumerStepInv`
proves it for each step with arbitrary answers of the sequencer and concludes
that positions never move back. `DeliveryInv` describes a batch from the barrier
to the acknowledgement: what the group load has read stays a lower bound
(`Loading`), the grant is behind cursor and upstream (`Granted`), what the scan
passed is resolved (`Scanned`), a batch that began before the first discard holds
none (`NothingToSkip`), and the two loops of `processBatch` have done what they
passed (`Trailing`, `Handling`). It is preserved if the sequencer's answers are
true (`TrueAnswers`) and outcomes are final (`OutcomesFinal`); each sequencer's
module proves those two. `GatesBoundEveryone` carries the bound of the gates to
every consumer: positions trail their upstream, and by `TopologyAssumption` the
consumers behind a lap-old position would be a closed set without a gate.

**Multi-producer ring.** `TypeOK` is not inductive: a claim's end becomes the
cursor, and `ClaimBound` keeps it within the sequences. `GateInv` rests on
positions only growing: anything read of a gate stays a lower bound of it, so
the cached gate (`CacheBehind`), the minimum over the gates read so far
(`MinimumBehind`) and the wrap point of a claim about to be swapped
(`Admitted`) are safe, however old they are. `RingInv` adds that claims do not
overlap (`ClaimInv`), that what is held is unresolved (`OutcomeInv`), that the
word of every sequence of the last lap holds its outcome, or, between the swap
and `prepare`, a word of the lap before that nobody can mistake (`WordInv`),
and that a written slot keeps its event (`EntryInv`). The hard step is the swap:
it moves the window of the last lap, and the slots it takes over hold resolved
words because every consumer has passed them.

**Poller.** The polled consumer's steps are those of a running one, except that
Poll drops an empty batch where Run would acknowledge it. `SeenInv` says that
what was visible when the call began stays visible and that no load of the call
falls below it; `CursorInv` that the loaded cursor covers what was claimed then.

**Single producer.** `RingInv` of that module ties the local claim, the cursor,
the outcomes and the discard markers together: the cursor is the frontier of
what is resolved (`CursorInv`), a discard stores its marker before the cursor
(`DiscardInv`), and the markers and events of the last lap below the claims are
right (`MarkerInv`, `EntryInv`), which is all that a consumer can ask about.

**Processor.** `OneRunAtATime` is inductive with the types. What the barrier
granted stays behind cursor and upstream (`Granted`), and both positions cover
resolved sequences only (`Positioned`). A Run about to sleep took its channel
before its second look at cursor and alert: what that look missed has its signal
still to come (`SignalComes`, `AlertSignalComes`).

**Gate registry.** `RegistryInv` says who holds `gatingMu` and what the holder
has half done, in `AddGatingSequences`, `RemoveGatingSequence` and `Close`.
`WaitInv` says, for a producer at any point between `prepare` and the select,
why it may sleep: each reason is either still true or was ended by somebody who
has the signal still to send. `DrainInv` and `QuietInv` follow Shutdown's
snapshot and the claims that were under way when the ring was sealed.
`ProtectInv` is the argument of `GateInv` with lists and caches that may still
hold removed gates.

**Load test.** `LifeInv` says that publishers live in a phase only and that who
has sent its result, or was joined, has ended; `EverythingJoined` follows.
`TalliesUnshared` needs more, because `waitForSequences` looks at the terminal
sequences only, one after the other. `CountInv` counts: in either phase the
cursor is one less than the number of events before the phase and of indices of
the phase that publishers have claimed for (`Taken`; the publishers share the
indices by remainder, so no two claim for the same one), hence never beyond the
target. `AwaitInv` says which terminal
sequences were found at the target, and `PositionInv` that the earlier stages of
a pipeline are not behind the last and that a batch being handled ends behind
the cursor but beyond its processor's position. When all terminal sequences are
at the target no processor has such a batch.

`ReportExact` is about what every handler call read on the way. `WindowInv`
says that everything unacknowledged lies within a lap of the cursor, that what
is acknowledged or being handled is published and that each unpublished claim
has one owner. So no two live sequences share a slot, and `EntryInv` follows: a
published slot holds the payload of its own sequence until the next lap.
`SumInv` says that a checksum is the sum of the measured payloads up to the last
sequence handled (`Reached`), and `SampleInv` that the samples a consumer has
counted, together with those claimed or written that it has still to handle
(`Pending`), are as many as the sampled indices taken; nothing is sampled in the
warm-up, so a slot never carries a flag over. At the report nothing is pending,
every index is taken, and the last sequence handled is the last of the run.

The sum itself is a fold, of which a proof can use only the recursive equation.
`SumUnits` shows that it is the size of a set: one block of `s % 256` numbers for
each sequence `s`. Were it not, the library's well-founded ordering of finite
sets would have a least set where they differ, which the equation of the fold
excludes. The size does not depend on the order, so a handler call adds its
payload (`SumNext`). `SampledCount` is the closed form for the multiples of
`SampleEvery`.

**Only model-checked.** Liveness (`EventuallyAcknowledged`, `ClaimReturns`,
`HaltStopsRun`, `CancelEndsRun`, `CloseEndsDrainedRun`, `SleepersWake`,
`ShutdownCloses`, `PhaseEnds`, `ReportsInTheEnd`), which is outside the reach of
the prover. The properties of the violation runs have no theorem: they are false.

## 5. Plan

Every safety invariant, action property and refinement of a passing run has its
theorem. What is left is not for the prover: larger instances of the liveness
runs, and the addition of gates while producers claim, which the code leaves to
its caller (section 3, known limits).

## 6. Not modelled

* Error values and their texts; where an operation returns one is part of its
  guard or of its result.
* `Sequence.Add`, which the package never calls, a Sequence shared by several
  rings, and `Alert` called by the application on a shared barrier.
* `RemainingCapacity`, the waiter's statistics and the validation in the
  constructors, which change no shared state.
* Flags, validation, timing, percentiles, memory statistics and JSON of
  `cmd/loadtest`: sequential computation and formatting without shared state.
* `cmd/apicheck` (a build tool that compares texts) and the example.
* Padding and cache-line layout, which have no meaning in the model.
