---------------------------- MODULE LoadTestProofs ----------------------------
(***************************************************************************)
(* What a repetition of the load test promises, for every number of        *)
(* publishers, consumers and events and in both topologies, whenever its   *)
(* deadline passes: nobody touches the tallies while runOnce does, the     *)
(* reported checksums and sample counts are exact, and nothing is left     *)
(* running when it returns.                                                *)
(***************************************************************************)
EXTENDS LoadTest, FiniteSetTheorems, WellFoundedInduction, TLAPS

MainState ==
  [pc : {"start", "publish", "await", "clear", "cancel", "halt", "join", "report",
         "returned"},
   topology : Topologies, measured : BOOLEAN, at : Nat \ {0},
   first : {"none", "canceled", "deadline"}, failed : {"no", "phase", "stop"}]

PubState ==
  [pc : {"none", "claim", "write", "publish", "finished", "failed"},
   index : Nat, sequence : Int]

RunState ==
  [pc : {"none", "new", "starting", "check", "wait", "handle", "ended"},
   at : Int, end : Int, halted : BOOLEAN]

TypeInv ==
  /\ main \in MainState
  /\ ctx \in {"live", "canceled", "deadline"}
  /\ cursor \in Int
  /\ pub \in [Producers -> PubState]
  /\ run \in [Consumers -> RunState]
  /\ sequence \in [Consumers -> Int]
  /\ done \in [Consumers -> {"empty", "nil", "canceled", "deadline"}]

(* Publishers live in a phase only, and processors from start to end. *)
PublishersInv ==
  main.pc # "publish" =>
    \A p \in Producers : pub[p].pc \in {"none", "finished", "failed"}

(* Who has sent a result has ended, and so has who was joined. *)
JoinInv ==
  /\ main.pc = "start" => \A c \in Consumers : run[c].pc = "none"
  /\ \A c \in Consumers : done[c] # "empty" => run[c].pc = "ended"
  /\ main.pc = "join" => \A c \in Consumers : c < main.at => run[c].pc = "ended"
  /\ main.pc \in {"report", "returned"} => \A c \in Consumers : run[c].pc = "ended"

LifeInv == PublishersInv /\ JoinInv

(***************************************************************************)
(* Positions lie behind the cursor, a running batch ends beyond its        *)
(* processor's position, and the stages of a pipeline are in order.        *)
(***************************************************************************)
PositionInv ==
  /\ published \subseteq 0 .. cursor /\ -1 <= cursor
  /\ \A p \in Producers :
       pub[p].pc \in {"write", "publish"} => pub[p].sequence \in 0 .. cursor
  /\ \A c \in Consumers :
       /\ sequence[c] <= cursor /\ -1 <= sequence[c]
       /\ run[c].pc = "handle" => sequence[c] < run[c].end /\ run[c].end <= cursor
  /\ Pipeline => \A b, c \in Consumers : b < c =>
       /\ sequence[c] <= sequence[b]
       /\ run[c].pc = "handle" => run[c].end <= sequence[b]

(* The terminal sequences that waitForSequences has found at the target. *)
AwaitInv ==
  /\ main.pc = "start" => ~main.measured /\ cursor = -1
  /\ main.pc = "await" => \A c \in Terminal : c < main.at => Target <= sequence[c]
  /\ main.pc = "clear" =>
       ~main.measured /\ \A c \in Terminal : WarmupEvents - 1 <= sequence[c]
  /\ main.pc \in {"cancel", "halt", "join", "report"} /\ main.failed = "no" =>
       main.measured /\ \A c \in Terminal : Last <= sequence[c]
  /\ main.pc = "report" => main.failed = "no"

(***************************************************************************)
(* The indices of the phase that publishers have claimed a sequence for.   *)
(* A phase claims one sequence for each index, so no more than its events. *)
(***************************************************************************)
Taken ==
  {i \in 0 .. PhaseEvents - 1 :
     \/ i < pub[i % ProducerCount].index
     \/ /\ i = pub[i % ProducerCount].index
        /\ pub[i % ProducerCount].pc \in {"write", "publish"}}

(* The sequence that the phase begins with. *)
Base == IF main.measured THEN WarmupEvents ELSE 0

CountInv ==
  /\ \A p \in Producers :
       pub[p].pc \in {"claim", "write", "publish"} =>
         pub[p].index % ProducerCount = p
  /\ cursor + 1 = Base + Cardinality(Taken)

Inv == TypeInv /\ LifeInv /\ PositionInv /\ AwaitInv /\ CountInv

-----------------------------------------------------------------------------
LEMMA Config ==
  /\ ProducerCount \in Nat \ {0} /\ ConsumerCount \in Nat \ {0}
  /\ Events \in Nat \ {0} /\ WarmupEvents \in Nat /\ BatchSize \in Nat \ {0}
  /\ RingSize \in Nat \ {0} /\ Last \in Int
BY ConfigAssumption DEF Last

LEMMA TerminalEnds ==
  /\ Terminal \subseteq Consumers /\ ConsumerCount \in Terminal
  /\ Max(Terminal) = ConsumerCount /\ Min(Terminal) \in Consumers
  /\ \A c \in Terminal : Min(Terminal) <= c
<1>1. /\ Terminal \subseteq Consumers /\ ConsumerCount \in Terminal
      /\ Terminal = Consumers \/ Terminal = {ConsumerCount}
  BY Config DEF Terminal, Consumers
<1>2. Max(Terminal) = ConsumerCount
  <2>1. \A c \in Terminal : ConsumerCount >= c /\ c \in Int
    BY <1>1, Config DEF Consumers
  <2>2. \A c \in Terminal : (\A d \in Terminal : c >= d) => c = ConsumerCount
    BY <1>1, <2>1, Config
  <2> QED
    BY <1>1, <2>1, <2>2 DEF Max
<1>3. Min(Terminal) \in Terminal /\ \A c \in Terminal : Min(Terminal) <= c
  <2>1. \E c \in Terminal : \A d \in Terminal : c <= d
    BY <1>1, Config DEF Consumers
  <2> QED
    BY <2>1 DEF Min
<1> QED
  BY <1>1, <1>2, <1>3

LEMMA MainFields ==
  ASSUME TypeInv
  PROVE  /\ main.at \in Nat \ {0} /\ main.measured \in BOOLEAN
         /\ main.topology \in Topologies
BY DEF TypeInv, MainState

(* Processors. *)
LEMMA RunType ==
  ASSUME TypeInv, NEW c \in Consumers, NEW st \in RunState,
         run' = [run EXCEPT ![c] = st], sequence' \in [Consumers -> Int],
         done' \in [Consumers -> {"empty", "nil", "canceled", "deadline"}],
         UNCHANGED <<main, ctx, cursor, pub>>
  PROVE  TypeInv'
BY DEF TypeInv

(* Every set of integers with an upper bound has a greatest element. *)
LEMMA GreatestElement ==
  ASSUME NEW T \in SUBSET Int, T # {}, NEW n \in Int, \A x \in T : x <= n
  PROVE  \E x \in T : \A y \in T : x >= y
<1> DEFINE R == {pair \in Nat \X Nat : pair[1] < pair[2]}
           U == {n - x : x \in T}
<1>1. IsWellFoundedOn(R, Nat)
  BY NatLessThanWellFounded DEF OpToRel
<1>2. U \subseteq Nat /\ U # {}
  <2>1. \A x \in T : x \in Int /\ n - x \in Nat
    OBVIOUS
  <2>2. U \subseteq Nat
    BY <2>1
  <2>3. PICK x \in T : TRUE
    OBVIOUS
  <2>4. n - x \in U
    OBVIOUS
  <2> QED
    BY <2>2, <2>4
<1>3. PICK u \in U : \A v \in U : ~(<<v, u>> \in R)
  <2> HIDE DEF R, U
  <2> QED
    BY <1>1, <1>2, WFMin
<1>4. \A v \in U : ~(v < u)
  BY <1>2, <1>3
<1>5. PICK x \in T : u = n - x
  BY <1>3
<1>6. \A y \in T : n - y \in U
  OBVIOUS
<1>7. \A y \in T : x >= y
  <2> HIDE DEF U
  <2> QED
    BY <1>4, <1>5, <1>6
<1> QED
  BY <1>7

(***************************************************************************)
(* The batch that Run selects: not empty, published and passed by the      *)
(* stage before.                                                           *)
(***************************************************************************)
LEMMA BatchEnd ==
  ASSUME TypeInv, NEW c \in Consumers, Granted(c) # {}
  PROVE  LET end == Min({Max(Granted(c)), sequence[c] + BatchSize})
         IN  /\ end \in Int /\ sequence[c] < end
             /\ \E e \in Granted(c) : e \in Int /\ end <= e
<1> DEFINE m == Max(Granted(c))
           t == sequence[c] + BatchSize
<1>1. sequence[c] \in Int /\ Last \in Int /\ Desired(c) = sequence[c] + 1
      /\ BatchSize \in Nat \ {0}
  BY Config DEF TypeInv, Desired
<1>2. \A e \in Granted(c) : e \in Int /\ sequence[c] < e /\ e <= Last
  BY <1>1 DEF Granted
<1>3. m \in Granted(c)
  <2>1. \E x \in Granted(c) : \A y \in Granted(c) : x >= y
    <3>1. Granted(c) \in SUBSET Int
      BY <1>2
    <3> QED
      BY <1>1, <1>2, <3>1, GreatestElement
  <2> QED
    BY <2>1 DEF Max
<1>4. m \in Int /\ sequence[c] < m /\ t \in Int /\ sequence[c] < t
  BY <1>1, <1>2, <1>3
<1> HIDE DEF m, t
<1>5. Min({m, t}) \in {m, t} /\ Min({m, t}) <= m
  <2>1. \E x \in {m, t} : \A y \in {m, t} : x <= y
    BY <1>4
  <2> QED
    BY <2>1, <1>4 DEF Min
<1> QED
  BY <1>3, <1>4, <1>5 DEF m, t

-----------------------------------------------------------------------------
(* Types. *)
LEMMA TypeInit == Init => TypeInv
<1> SUFFICES ASSUME Init PROVE TypeInv
  OBVIOUS
<1>1. main \in MainState
  BY DEF Init, MainState
<1>2. cursor \in Int /\ sequence \in [Consumers -> Int]
      /\ pub \in [Producers -> PubState]
  BY DEF Init, PubState
<1>3. run \in [Consumers -> RunState]
  BY DEF Init, RunState
<1> QED
  BY <1>1, <1>2, <1>3 DEF Init, TypeInv

LEMMA RunStepType ==
  ASSUME TypeInv, NEW c \in Consumers, RunStep(c)
  PROVE  TypeInv'
<1>1. UNCHANGED <<main, ctx, cursor, pub>>
  BY DEF RunStep, ringVars
<1>2. /\ run[c] \in RunState /\ run[c].at \in Int /\ run[c].end \in Int
      /\ sequence[c] \in Int /\ Desired(c) \in Int
      /\ run \in [Consumers -> RunState] /\ sequence \in [Consumers -> Int]
      /\ done \in [Consumers -> {"empty", "nil", "canceled", "deadline"}]
      /\ ctx \in {"live", "canceled", "deadline"}
  BY DEF TypeInv, RunState, Desired
<1>3. ASSUME NEW pc \in {"none", "new", "starting", "check", "wait", "handle", "ended"},
             run' = [run EXCEPT ![c].pc = pc], sequence' \in [Consumers -> Int],
             done' \in [Consumers -> {"empty", "nil", "canceled", "deadline"}]
      PROVE  TypeInv'
  <2>1. [run[c] EXCEPT !.pc = pc] \in RunState
    BY <1>2 DEF RunState
  <2> QED
    BY <1>1, <1>2, <1>3, <2>1, RunType
<1>4. CASE StartRun(c)
  BY <1>2, <1>3, <1>4 DEF StartRun
<1>5. CASE CheckContext(c)
  BY <1>2, <1>3, <1>5 DEF CheckContext
<1>6. CASE SelectBatch(c)
  <2> DEFINE end == Min({Max(Granted(c)), sequence[c] + BatchSize})
             st == [run[c] EXCEPT !.pc = "handle", !.at = Desired(c), !.end = end]
  <2>1. end \in Int
    BY <1>6, BatchEnd DEF SelectBatch
  <2>2. run' = [run EXCEPT ![c] = st] /\ UNCHANGED <<sequence, done>>
    BY <1>6 DEF SelectBatch
  <2> HIDE DEF end
  <2>3. st \in RunState
    BY <1>2, <2>1 DEF RunState
  <2> QED
    BY <1>1, <1>2, <2>2, <2>3, RunType
<1>7. CASE Handle(c)
  <2> DEFINE st == [run[c] EXCEPT !.at = run[c].at + 1]
  <2>1. run' = [run EXCEPT ![c] = st] /\ UNCHANGED <<sequence, done>>
    BY <1>7 DEF Handle
  <2>2. st \in RunState
    BY <1>2 DEF RunState
  <2> QED
    BY <1>1, <1>2, <2>1, <2>2, RunType
<1>8. CASE Acknowledge(c)
  BY <1>2, <1>3, <1>8 DEF Acknowledge
<1>9. CASE EndRun(c)
  BY <1>2, <1>3, <1>9 DEF EndRun
<1> QED
  BY <1>4, <1>5, <1>6, <1>7, <1>8, <1>9 DEF RunStep

LEMMA PublisherStepType ==
  ASSUME TypeInv, NEW p \in Producers, PublisherStep(p)
  PROVE  TypeInv'
<1>1. UNCHANGED <<main, ctx, run, sequence, done>>
  BY DEF PublisherStep, mainVars, runVars
<1>2. /\ pub[p] \in PubState /\ pub[p].index \in Nat /\ pub[p].sequence \in Int
      /\ pub \in [Producers -> PubState] /\ cursor \in Int
      /\ pub[p].index + ProducerCount \in Nat
  BY Config DEF TypeInv, PubState
<1>3. ASSUME cursor' \in Int, NEW st \in PubState, pub' = [pub EXCEPT ![p] = st]
      PROVE  TypeInv'
  BY <1>1, <1>2, <1>3 DEF TypeInv
<1>4. ASSUME NEW pc \in {"none", "claim", "write", "publish", "finished", "failed"},
             pub' = [pub EXCEPT ![p].pc = pc], UNCHANGED cursor
      PROVE  TypeInv'
  <2>1. [pub[p] EXCEPT !.pc = pc] \in PubState
    BY <1>2 DEF PubState
  <2> QED
    BY <1>2, <1>3, <1>4, <2>1
<1>5. CASE Claim(p)
  <2>1. cursor + 1 \in Int
    BY <1>2
  <2>2. [pub[p] EXCEPT !.pc = "write", !.sequence = cursor + 1] \in PubState
    BY <1>2, <2>1 DEF PubState
  <2> QED
    BY <1>3, <1>5, <2>1, <2>2 DEF Claim
<1>6. CASE Write(p)
  BY <1>4, <1>6 DEF Write
<1>7. CASE Publish(p)
  <2>1. [pub[p] EXCEPT !.pc = "claim", !.index = pub[p].index + ProducerCount]
          \in PubState
    BY <1>2 DEF PubState
  <2> QED
    BY <1>2, <1>3, <1>7, <2>1 DEF Publish
<1>8. CASE EndPublisher(p)
  BY <1>4, <1>8 DEF EndPublisher, ringVars
<1> QED
  BY <1>5, <1>6, <1>7, <1>8 DEF PublisherStep

LEMMA SpawnedType == Spawned \in [Producers -> PubState]
<1>1. \A p \in Producers : p \in Nat
  BY Config DEF Producers
<1> QED
  BY <1>1 DEF Spawned, PubState

LEMMA MainStepType ==
  ASSUME TypeInv, MainStep
  PROVE  TypeInv'
<1>1. /\ main \in MainState /\ main.at \in Nat \ {0} /\ main.at + 1 \in Nat \ {0}
      /\ main.measured \in BOOLEAN /\ cursor \in Int
      /\ pub \in [Producers -> PubState] /\ run \in [Consumers -> RunState]
      /\ sequence \in [Consumers -> Int]
      /\ done \in [Consumers -> {"empty", "nil", "canceled", "deadline"}]
      /\ ctx \in {"live", "canceled", "deadline"}
      /\ main.first \in {"none", "canceled", "deadline"}
      /\ main.topology \in Topologies /\ main.failed \in {"no", "phase", "stop"}
  BY DEF TypeInv, MainState
<1>0. 1 \in Nat \ {0}
  OBVIOUS
<1>2. UNCHANGED <<cursor, sequence>>
  BY DEF MainStep, StartProcessors, JoinPublishers, AwaitSequence, AwaitFails,
         ClearChecksums, Cancel, HaltProcessor, JoinProcessor, EndStop, Report,
         ringVars, runVars
<1>3. ASSUME main' \in MainState, UNCHANGED <<ctx, pub, run, done>>
      PROVE  TypeInv'
  BY <1>1, <1>2, <1>3 DEF TypeInv
<1>4. CASE StartProcessors
  <2>1. main' \in MainState
    BY <1>1, <1>4 DEF StartProcessors, MainState
  <2>2. pub' \in [Producers -> PubState]
    BY <1>1, <1>4, SpawnedType DEF StartProcessors
  <2>3. \A c \in Consumers : [run[c] EXCEPT !.pc = "new"] \in RunState
    BY <1>1 DEF RunState
  <2>4. run' \in [Consumers -> RunState]
    BY <1>4, <2>3 DEF StartProcessors
  <2> QED
    BY <1>1, <1>2, <1>4, <2>1, <2>2, <2>4 DEF StartProcessors, TypeInv
<1>5. CASE JoinPublishers
  <2>1. Min(Terminal) \in Nat \ {0}
    BY TerminalEnds, Config DEF Consumers
  <2> DEFINE m == Min(Terminal)
  <2>2. \/ main' = [main EXCEPT !.pc = "cancel", !.failed = "phase"]
        \/ main' = [main EXCEPT !.pc = "await", !.at = m]
    BY <1>5 DEF JoinPublishers
  <2> HIDE DEF m
  <2>3. main' \in MainState
    BY <1>1, <2>1, <2>2 DEF MainState, m
  <2> QED
    BY <1>3, <1>5, <2>3 DEF JoinPublishers, runVars
<1>6. CASE AwaitSequence
  <2>1. main' \in MainState
    <3>1. \E at \in Nat \ {0} : \/ main' = [main EXCEPT !.pc = "cancel", !.at = at]
                                \/ main' = [main EXCEPT !.pc = "clear", !.at = at]
                                \/ main' = [main EXCEPT !.at = at]
      <4>1. CASE main' = Awaited
        <5>1. \/ Awaited = [main EXCEPT !.pc = "cancel", !.at = 1]
              \/ Awaited = [main EXCEPT !.pc = "clear", !.at = 1]
          BY DEF Awaited
        <5> QED
          BY <1>0, <4>1, <5>1, Zenon
      <4>2. CASE main' = [main EXCEPT !.at = @ + 1]
        BY <1>1, <4>2, Zenon
      <4> QED
        BY <1>6, <4>1, <4>2 DEF AwaitSequence
    <3> QED
      BY <1>1, <3>1 DEF MainState
  <2> QED
    BY <1>3, <1>6, <2>1 DEF AwaitSequence, runVars
<1>7. CASE AwaitFails
  <2>1. main' \in MainState
    BY <1>1, <1>7 DEF AwaitFails, MainState
  <2> QED
    BY <1>3, <1>7, <2>1 DEF AwaitFails, runVars
<1>8. CASE ClearChecksums
  <2>1. main' \in MainState
    BY <1>1, <1>8 DEF ClearChecksums, MainState
  <2> QED
    BY <1>1, <1>2, <1>8, <2>1, SpawnedType DEF ClearChecksums, TypeInv
<1>9. CASE Cancel
  <2>1. PICK at \in Nat \ {0} :
          main' = [main EXCEPT !.pc = "halt", !.at = at, !.first = "none"]
    BY <1>0, <1>9, Zenon DEF Cancel
  <2>3. main' \in MainState
    BY <1>1, <2>1 DEF MainState
  <2>2. ctx' \in {"live", "canceled", "deadline"}
    BY <1>1, <1>9 DEF Cancel
  <2> QED
    BY <1>1, <1>2, <1>9, <2>2, <2>3 DEF Cancel, runVars, TypeInv
<1>10. CASE HaltProcessor
  <2>1. \E at \in Nat \ {0} : \/ main' = [main EXCEPT !.pc = "join", !.at = at]
                              \/ main' = [main EXCEPT !.at = at]
    BY <1>0, <1>1, <1>10, Zenon DEF HaltProcessor
  <2>2. main' \in MainState
    BY <1>1, <2>1 DEF MainState
  <2>3. run' = run \/ run' = [run EXCEPT ![main.at].halted = TRUE]
    BY <1>10 DEF HaltProcessor
  <2>4. run' \in [Consumers -> RunState]
    <3>1. \A c \in Consumers : [run[c] EXCEPT !.halted = TRUE] \in RunState
      BY <1>1 DEF RunState
    <3> QED
      BY <1>1, <2>3, <3>1
  <2> QED
    BY <1>1, <1>2, <1>10, <2>2, <2>4 DEF HaltProcessor, TypeInv
<1>11. CASE JoinProcessor
  <2>1. main.at \in Consumers /\ done[main.at] # "empty"
    BY <1>1, <1>11, Config DEF JoinProcessor, Consumers
  <2>2. PICK first \in {"none", "canceled", "deadline"}, at \in Nat \ {0} :
          main' = [main EXCEPT !.at = at, !.first = first]
    <3>1. PICK first \in {"none", "canceled", "deadline"} :
            main' = [main EXCEPT !.at = main.at + 1, !.first = first]
      BY <1>1, <1>11, <2>1 DEF JoinProcessor
    <3> QED
      BY <1>1, <3>1
  <2>3. main' \in MainState
    BY <1>1, <2>2 DEF MainState
  <2>4. done' \in [Consumers -> {"empty", "nil", "canceled", "deadline"}]
    BY <1>1, <1>11 DEF JoinProcessor
  <2> QED
    BY <1>1, <1>2, <1>11, <2>3, <2>4 DEF JoinProcessor, runVars, TypeInv
<1>12. CASE EndStop \/ Report
  <2>1. \/ main' = [main EXCEPT !.pc = "returned"]
        \/ main' = [main EXCEPT !.pc = "cancel", !.failed = "stop"]
        \/ main' = [main EXCEPT !.pc = "report"]
    BY <1>12 DEF EndStop, Report
  <2>2. main' \in MainState
    BY <1>1, <2>1 DEF MainState
  <2> QED
    BY <1>3, <1>12, <2>2 DEF EndStop, Report, runVars
<1> QED
  BY <1>4, <1>5, <1>6, <1>7, <1>8, <1>9, <1>10, <1>11, <1>12 DEF MainStep

LEMMA TypeStep ==
  ASSUME TypeInv, [Next]_vars
  PROVE  TypeInv'
<1>1. CASE TimeOut
  BY <1>1 DEF TimeOut, mainVars, ringVars, runVars, TypeInv
<1>2. CASE UNCHANGED vars
  BY <1>2 DEF vars, TypeInv
<1> QED
  BY <1>1, <1>2, MainStepType, PublisherStepType, RunStepType DEF Next

-----------------------------------------------------------------------------
(* Who is running. *)
LEMMA LifeInit == Init => LifeInv
BY DEF Init, LifeInv, PublishersInv, JoinInv

LEMMA PublisherStepLife ==
  ASSUME TypeInv, LifeInv, NEW p \in Producers, PublisherStep(p)
  PROVE  LifeInv' /\ main.pc = "publish"
<1>1. UNCHANGED <<main, run, done>>
  BY DEF PublisherStep, mainVars, runVars
<1>2. pub[p].pc \in {"claim", "write", "publish"}
  BY DEF PublisherStep, Claim, Write, Publish, EndPublisher
<1>3. main.pc = "publish"
  BY <1>2 DEF LifeInv, PublishersInv
<1> QED
  BY <1>1, <1>3 DEF LifeInv, PublishersInv, JoinInv

LEMMA RunStepLife ==
  ASSUME TypeInv, LifeInv, NEW c \in Consumers, RunStep(c)
  PROVE  LifeInv'
<1>1. UNCHANGED <<main, pub>>
  BY DEF RunStep
<1>2. \A d \in Consumers : run[d].pc = "ended" => run'[d].pc = "ended"
  BY DEF RunStep, StartRun, CheckContext, SelectBatch, Handle, Acknowledge, EndRun,
         TypeInv, RunState
<1>3. \A d \in Consumers :
        done'[d] # "empty" => done[d] # "empty" \/ run'[d].pc = "ended"
  BY DEF RunStep, StartRun, CheckContext, SelectBatch, Handle, Acknowledge, EndRun,
         TypeInv, RunState
<1>4. run[c].pc # "none"
  BY DEF RunStep, StartRun, CheckContext, SelectBatch, Handle, Acknowledge, EndRun
<1> QED
  BY <1>1, <1>2, <1>3, <1>4 DEF LifeInv, PublishersInv, JoinInv

LEMMA MainStepLife ==
  ASSUME TypeInv, LifeInv, MainStep
  PROVE  LifeInv'
<1>1. /\ main \in MainState /\ main.at \in Nat \ {0}
      /\ run \in [Consumers -> RunState]
      /\ done \in [Consumers -> {"empty", "nil", "canceled", "deadline"}]
      /\ \A c \in Consumers : c \in Nat \ {0} /\ c <= ConsumerCount
  BY Config DEF TypeInv, MainState, Consumers
<1>2. CASE StartProcessors
  <2>1. /\ main'.pc \in {"publish", "clear"} /\ UNCHANGED done
        /\ main'.pc # "publish" => UNCHANGED pub
    BY <1>1, <1>2 DEF StartProcessors, MainState
  <2>2. \A c \in Consumers : done[c] = "empty"
    BY <1>2 DEF StartProcessors, LifeInv, JoinInv
  <2> QED
    BY <1>2, <2>1, <2>2 DEF StartProcessors, LifeInv, PublishersInv, JoinInv
<1>3. CASE JoinPublishers
  BY <1>1, <1>3
  DEF JoinPublishers, runVars, LifeInv, PublishersInv, JoinInv, MainState
<1>4. CASE AwaitSequence \/ AwaitFails
  <2>1. main.pc = "await" /\ UNCHANGED <<run, pub, done>>
    BY <1>4 DEF AwaitSequence, AwaitFails, runVars
  <2>2. main'.pc \in {"await", "cancel", "clear"}
    BY <1>1, <1>4 DEF AwaitSequence, AwaitFails, Awaited, MainState
  <2> QED
    BY <2>1, <2>2 DEF LifeInv, PublishersInv, JoinInv
<1>5. CASE ClearChecksums
  BY <1>1, <1>5 DEF ClearChecksums, LifeInv, PublishersInv, JoinInv, MainState
<1>6. CASE Cancel
  BY <1>1, <1>6 DEF Cancel, runVars, LifeInv, PublishersInv, JoinInv, MainState
<1>7. CASE HaltProcessor
  <2>1. \/ main'.pc = "halt"
        \/ main'.pc = "join" /\ main'.at = 1
    BY <1>1, <1>7 DEF HaltProcessor, MainState
  <2>2. /\ \A c \in Consumers : run'[c].pc = run[c].pc
        /\ UNCHANGED <<done, pub>> /\ main.pc = "halt"
    BY <1>1, <1>7 DEF HaltProcessor, RunState
  <2> QED
    BY <1>1, <2>1, <2>2 DEF LifeInv, PublishersInv, JoinInv
<1>8. CASE JoinProcessor
  <2>1. /\ main.pc = "join" /\ main'.pc = "join" /\ main'.at = main.at + 1
        /\ main.at \in Consumers /\ done[main.at] # "empty"
        /\ done' = [done EXCEPT ![main.at] = "empty"] /\ UNCHANGED <<run, pub>>
    BY <1>1, <1>8, Config DEF JoinProcessor, runVars, MainState, Consumers
  <2>2. run[main.at].pc = "ended"
    BY <2>1 DEF LifeInv, JoinInv
  <2>3. \A c \in Consumers : c < main'.at => run[c].pc = "ended"
    <3>1. \A c \in Consumers : c < main.at + 1 => c < main.at \/ c = main.at
      BY <1>1
    <3> QED
      BY <2>1, <2>2, <3>1 DEF LifeInv, JoinInv
  <2> QED
    BY <1>1, <2>1, <2>3 DEF LifeInv, PublishersInv, JoinInv
<1>9. CASE EndStop
  <2>1. /\ main.pc = "join" /\ main'.pc \in {"returned", "cancel", "report"}
        /\ UNCHANGED <<run, pub, done>>
    BY <1>1, <1>9 DEF EndStop, runVars, MainState
  <2>2. \A c \in Consumers : run[c].pc = "ended"
    <3>1. \A c \in Consumers : c < main.at
      BY <1>1, <1>9, Config DEF EndStop
    <3> QED
      BY <2>1, <3>1 DEF LifeInv, JoinInv
  <2> QED
    BY <2>1, <2>2 DEF LifeInv, PublishersInv, JoinInv
<1>10. CASE Report
  BY <1>1, <1>10 DEF Report, runVars, LifeInv, PublishersInv, JoinInv, MainState
<1> QED
  BY <1>2, <1>3, <1>4, <1>5, <1>6, <1>7, <1>8, <1>9, <1>10 DEF MainStep

LEMMA LifeStep ==
  ASSUME TypeInv, LifeInv, [Next]_vars
  PROVE  LifeInv'
<1>1. CASE TimeOut
  BY <1>1 DEF TimeOut, mainVars, runVars, LifeInv, PublishersInv, JoinInv
<1>2. CASE UNCHANGED vars
  BY <1>2 DEF vars, LifeInv, PublishersInv, JoinInv
<1> QED
  BY <1>1, <1>2, MainStepLife, PublisherStepLife, RunStepLife DEF Next

(***************************************************************************)
(* When runOnce returns, by whatever path and whenever the deadline        *)
(* passed, every publisher was joined and every Run call has sent its      *)
(* result: no goroutine of a repetition outlives it.                       *)
(***************************************************************************)
THEOREM NothingLeftRunning == Spec => []EverythingJoined
<1>1. Init => TypeInv /\ LifeInv
  BY TypeInit, LifeInit
<1>2. TypeInv /\ LifeInv /\ [Next]_vars => (TypeInv /\ LifeInv)'
  BY TypeStep, LifeStep
<1>3. LifeInv => EverythingJoined
  BY DEF LifeInv, PublishersInv, JoinInv, EverythingJoined
<1> QED
  BY <1>1, <1>2, <1>3, PTL DEF Spec

-----------------------------------------------------------------------------
(* Where the processors are. *)
LEMMA PositionInit == Init => PositionInv
<1> SUFFICES ASSUME Init PROVE PositionInv
  OBVIOUS
<1>1. /\ cursor = -1 /\ published = {}
      /\ \A p \in Producers : pub[p].pc = "none"
      /\ \A c \in Consumers : sequence[c] = -1 /\ run[c].pc = "none"
  BY DEF Init
<1> QED
  BY <1>1 DEF PositionInv

LEMMA PublisherStepPosition ==
  ASSUME TypeInv, PositionInv, NEW p \in Producers, PublisherStep(p)
  PROVE  PositionInv'
<1>1. UNCHANGED <<main, run, sequence>> /\ (Pipeline' <=> Pipeline)
  BY DEF PublisherStep, mainVars, runVars, Pipeline
<1>2. /\ cursor \in Int /\ pub \in [Producers -> PubState]
      /\ \A c \in Consumers : sequence[c] \in Int /\ run[c].end \in Int
      /\ \A q \in Producers : pub[q].sequence \in Int
  BY DEF TypeInv, PubState, RunState
<1>3. ASSUME cursor' \in {cursor, cursor + 1}, published' \subseteq 0 .. cursor',
             \A q \in Producers : pub'[q].pc \in {"write", "publish"} =>
                                    pub'[q].sequence \in 0 .. cursor'
      PROVE  PositionInv'
  <2>1. cursor <= cursor' /\ cursor' \in Int
    BY <1>2, <1>3
  <2>2. -1 <= cursor'
    BY <1>2, <2>1 DEF PositionInv
  <2>3. \A c \in Consumers :
          /\ sequence[c] <= cursor' /\ -1 <= sequence[c]
          /\ run[c].pc = "handle" => sequence[c] < run[c].end /\ run[c].end <= cursor'
    BY <1>2, <2>1 DEF PositionInv
  <2> QED
    BY <1>1, <1>3, <2>2, <2>3 DEF PositionInv
<1>4. CASE Claim(p)
  <2>1. /\ cursor' = cursor + 1 /\ published' = published
        /\ pub' = [pub EXCEPT ![p].pc = "write", ![p].sequence = cursor + 1]
    BY <1>4 DEF Claim
  <2>2. published' \subseteq 0 .. cursor'
    BY <1>2, <2>1 DEF PositionInv
  <2>3. ASSUME NEW q \in Producers, pub'[q].pc \in {"write", "publish"}
        PROVE  pub'[q].sequence \in 0 .. cursor'
    <3>1. CASE q = p
      BY <1>2, <2>1, <3>1 DEF PubState, PositionInv
    <3>2. CASE q # p
      BY <1>2, <2>1, <2>3, <3>2 DEF PubState, PositionInv
    <3> QED
      BY <3>1, <3>2
  <2> QED
    BY <1>3, <2>1, <2>2, <2>3
<1>5. CASE Write(p)
  BY <1>2, <1>3, <1>5 DEF Write, PositionInv, PubState
<1>6. CASE Publish(p)
  BY <1>2, <1>3, <1>6 DEF Publish, PositionInv, PubState
<1>7. CASE EndPublisher(p)
  BY <1>2, <1>3, <1>7 DEF EndPublisher, ringVars, PositionInv, PubState
<1> QED
  BY <1>4, <1>5, <1>6, <1>7 DEF PublisherStep

LEMMA RunStepPosition ==
  ASSUME TypeInv, PositionInv, NEW c \in Consumers, RunStep(c)
  PROVE  PositionInv' /\ \A d \in Consumers : sequence[d] <= sequence'[d]
<1>1. UNCHANGED <<main, pub, cursor, published>> /\ (Pipeline' <=> Pipeline)
  BY DEF RunStep, ringVars, Pipeline
<1>2. /\ cursor \in Int /\ run \in [Consumers -> RunState]
      /\ sequence \in [Consumers -> Int] /\ Consumers \subseteq Int
      /\ \A d \in Consumers : sequence[d] \in Int /\ run[d].end \in Int
  BY Config DEF TypeInv, RunState, Consumers
<1>3. CASE /\ UNCHANGED sequence
           /\ \A d \in Consumers : run'[d].pc = "handle" =>
                run[d].pc = "handle" /\ run'[d].end = run[d].end
  BY <1>1, <1>2, <1>3 DEF PositionInv
<1>4. CASE SelectBatch(c)
  <2> DEFINE end == Min({Max(Granted(c)), sequence[c] + BatchSize})
  <2>1. PICK e \in Granted(c) :
          end \in Int /\ sequence[c] < end /\ e \in Int /\ end <= e
    BY <1>4, BatchEnd DEF SelectBatch
  <2>2. /\ run' = [run EXCEPT ![c].pc = "handle", ![c].at = Desired(c), ![c].end = end]
        /\ UNCHANGED sequence
    BY <1>4 DEF SelectBatch
  <2> HIDE DEF end
  <2>3. /\ \A d \in Consumers : d # c => run'[d] = run[d]
        /\ run'[c].end = end
    BY <1>2, <2>2 DEF RunState
  <2>4. e <= cursor
    <3>1. Desired(c) \in Int /\ Desired(c) <= e
      BY <1>2, <2>1 DEF Granted, Desired
    <3>2. e \in published
      BY <2>1, <3>1 DEF Granted
    <3> QED
      BY <1>2, <3>2 DEF PositionInv
  <2>5. ASSUME Pipeline, NEW b \in Consumers, b < c
        PROVE  end <= sequence[b]
    <3>1. c > 1 /\ c - 1 \in Consumers /\ (b = c - 1 \/ b < c - 1)
      BY <2>5, Config DEF Consumers
    <3>2. e <= sequence[c - 1]
      BY <2>5, <3>1 DEF Granted
    <3>3. sequence[c - 1] <= sequence[b]
      BY <1>2, <2>5, <3>1 DEF PositionInv
    <3> QED
      BY <1>2, <2>1, <3>1, <3>2, <3>3
  <2>6. end <= cursor
    BY <1>2, <2>1, <2>4
  <2>7. \A d \in Consumers :
          /\ sequence'[d] <= cursor' /\ -1 <= sequence'[d]
          /\ run'[d].pc = "handle" => sequence'[d] < run'[d].end /\ run'[d].end <= cursor'
    BY <1>1, <1>2, <2>1, <2>2, <2>3, <2>6 DEF PositionInv
  <2>8. Pipeline => \A b, d \in Consumers : b < d =>
          /\ sequence'[d] <= sequence'[b]
          /\ run'[d].pc = "handle" => run'[d].end <= sequence'[b]
    BY <2>2, <2>3, <2>5 DEF PositionInv
  <2> QED
    BY <1>1, <1>2, <2>2, <2>7, <2>8 DEF PositionInv
<1>5. CASE Acknowledge(c)
  <2> DEFINE end == run[c].end
  <2>1. /\ sequence' = [sequence EXCEPT ![c] = end] /\ run[c].pc = "handle"
        /\ run' = [run EXCEPT ![c].pc = "check"]
    BY <1>5 DEF Acknowledge
  <2>2. /\ \A d \in Consumers : d # c => run'[d] = run[d] /\ sequence'[d] = sequence[d]
        /\ run'[c].pc = "check" /\ sequence'[c] = end
    BY <1>2, <2>1 DEF RunState
  <2>3. end \in Int /\ sequence[c] < end /\ end <= cursor /\ -1 <= sequence[c]
    BY <1>2, <2>1 DEF PositionInv
  <2>4. \A d \in Consumers :
          /\ sequence'[d] <= cursor' /\ -1 <= sequence'[d]
          /\ run'[d].pc = "handle" => sequence'[d] < run'[d].end /\ run'[d].end <= cursor'
    BY <1>1, <1>2, <2>2, <2>3 DEF PositionInv
  <2>5. ASSUME Pipeline, NEW b \in Consumers, NEW d \in Consumers, b < d
        PROVE  /\ sequence'[d] <= sequence'[b]
               /\ run'[d].pc = "handle" => run'[d].end <= sequence'[b]
    <3>1. /\ sequence[d] <= sequence[b]
          /\ run[d].pc = "handle" => run[d].end <= sequence[b]
      BY <2>5 DEF PositionInv
    <3>2. CASE d = c
      <4>1. b # c
        BY <1>2, <2>5, <3>2
      <4> QED
        BY <2>1, <2>2, <3>1, <3>2, <4>1
    <3>3. CASE d # c /\ b = c
      BY <1>2, <2>2, <2>3, <3>1, <3>3
    <3>4. CASE d # c /\ b # c
      BY <2>2, <3>1, <3>4
    <3> QED
      BY <3>2, <3>3, <3>4
  <2>6. ASSUME NEW d \in Consumers PROVE sequence[d] <= sequence'[d]
    <3>1. CASE d = c
      BY <1>2, <2>2, <2>3, <3>1
    <3>2. CASE d # c
      BY <1>2, <2>2, <3>2
    <3> QED
      BY <3>1, <3>2
  <2> QED
    BY <1>1, <2>4, <2>5, <2>6 DEF PositionInv
<1>6. CASE StartRun(c) \/ CheckContext(c) \/ Handle(c) \/ EndRun(c)
  BY <1>2, <1>3, <1>6 DEF StartRun, CheckContext, Handle, EndRun, RunState
<1> QED
  BY <1>4, <1>5, <1>6 DEF RunStep

(***************************************************************************)
(* What runOnce leaves alone: it moves no sequence, publishes nothing, and *)
(* starts processors before they handle anything.                          *)
(***************************************************************************)
LEMMA MainStepFrame ==
  ASSUME TypeInv, MainStep
  PROVE  /\ UNCHANGED <<cursor, published, sequence>>
         /\ main'.topology = main.topology
         /\ pub' = pub \/ pub' = Spawned
         /\ \A c \in Consumers : run'[c].pc = "handle" =>
              /\ run[c].pc = "handle" /\ run'[c].end = run[c].end
              /\ run'[c].at = run[c].at
<1>1. /\ main \in MainState /\ run \in [Consumers -> RunState]
  BY DEF TypeInv
<1>2. UNCHANGED <<cursor, published, sequence>> /\ (pub' = pub \/ pub' = Spawned)
  BY DEF MainStep, StartProcessors, JoinPublishers, AwaitSequence, AwaitFails,
         ClearChecksums, Cancel, HaltProcessor, JoinProcessor, EndStop, Report,
         ringVars, runVars
<1>3. main'.topology = main.topology
  BY <1>1 DEF MainStep, StartProcessors, JoinPublishers, AwaitSequence, AwaitFails,
         ClearChecksums, Cancel, HaltProcessor, JoinProcessor, EndStop, Report,
         Awaited, MainState
<1>4. CASE StartProcessors
  BY <1>1, <1>2, <1>3, <1>4 DEF StartProcessors, RunState
<1>5. CASE HaltProcessor
  BY <1>1, <1>2, <1>3, <1>5 DEF HaltProcessor, RunState
<1>6. CASE UNCHANGED run
  BY <1>2, <1>3, <1>6
<1> QED
  BY <1>4, <1>5, <1>6
  DEF MainStep, JoinPublishers, AwaitSequence, AwaitFails, ClearChecksums, Cancel,
      JoinProcessor, EndStop, Report, runVars

LEMMA MainStepPosition ==
  ASSUME TypeInv, PositionInv, MainStep
  PROVE  PositionInv'
<1>1. Pipeline' <=> Pipeline
  BY MainStepFrame DEF Pipeline
<1>2. \A p \in Producers :
        pub'[p].pc \in {"write", "publish"} => pub'[p].sequence \in 0 .. cursor
  <2>1. CASE pub' = pub
    BY <2>1 DEF PositionInv
  <2>2. CASE pub' = Spawned
    BY <2>2 DEF Spawned
  <2> QED
    BY <2>1, <2>2, MainStepFrame
<1> QED
  BY <1>1, <1>2, MainStepFrame DEF PositionInv

LEMMA PositionStep ==
  ASSUME TypeInv, PositionInv, [Next]_vars
  PROVE  PositionInv'
<1>1. CASE TimeOut
  BY <1>1 DEF TimeOut, mainVars, ringVars, runVars, PositionInv, Pipeline
<1>2. CASE UNCHANGED vars
  BY <1>2 DEF vars, PositionInv, Pipeline
<1> QED
  BY <1>1, <1>2, MainStepPosition, PublisherStepPosition, RunStepPosition DEF Next

-----------------------------------------------------------------------------
(* What waitForSequences has seen. *)
LEMMA AwaitInit == Init => AwaitInv
BY DEF Init, AwaitInv

LEMMA AwaitFrame ==
  ASSUME TypeInv, AwaitInv, main' = main,
         main.pc = "start" => UNCHANGED cursor,
         \A c \in Consumers : sequence[c] <= sequence'[c],
         sequence' \in [Consumers -> Int]
  PROVE  AwaitInv'
<1>1. Terminal' = Terminal /\ Target' = Target /\ Terminal \subseteq Consumers
  BY TerminalEnds DEF Terminal, Pipeline, Target
<1>2. /\ Target \in Int /\ WarmupEvents - 1 \in Int /\ Last \in Int
      /\ \A c \in Consumers : sequence[c] \in Int /\ sequence'[c] \in Int
  BY Config DEF TypeInv, Target
<1>3. \A c \in Terminal : Target <= sequence[c] => Target <= sequence'[c]
  BY <1>1, <1>2
<1>4. \A c \in Terminal :
        WarmupEvents - 1 <= sequence[c] => WarmupEvents - 1 <= sequence'[c]
  BY <1>1, <1>2
<1>5. \A c \in Terminal : Last <= sequence[c] => Last <= sequence'[c]
  BY <1>1, <1>2
<1> QED
  BY <1>1, <1>3, <1>4, <1>5 DEF AwaitInv

LEMMA MainStepAwait ==
  ASSUME TypeInv, PositionInv, AwaitInv, MainStep
  PROVE  AwaitInv'
<1>1. /\ main \in MainState /\ main.at \in Nat \ {0} /\ main.measured \in BOOLEAN
      /\ \A c \in Consumers : sequence[c] \in Int /\ -1 <= sequence[c]
      /\ \A c \in Consumers : c \in Int /\ c <= ConsumerCount
      /\ Target \in Int
  BY Config DEF TypeInv, MainState, Target, PositionInv, Consumers
<1>2. /\ Terminal' = Terminal /\ Terminal \subseteq Consumers
      /\ UNCHANGED <<cursor, sequence>>
  BY MainStepFrame, TerminalEnds DEF Terminal, Pipeline
<1>3. CASE StartProcessors
  <2>1. /\ main'.pc \in {"publish", "clear"} /\ main'.measured = main.measured
        /\ main'.pc = "clear" => ~(WarmupEvents > 0)
        /\ ~main.measured
    BY <1>1, <1>3 DEF StartProcessors, MainState, AwaitInv
  <2>2. ~(WarmupEvents > 0) => WarmupEvents - 1 = -1
    BY Config
  <2> QED
    BY <1>1, <1>2, <2>1, <2>2 DEF AwaitInv
<1>4. CASE JoinPublishers
  <2>1. \/ main'.pc = "cancel" /\ main'.failed = "phase"
        \/ main'.pc = "await" /\ main'.at = Min(Terminal)
    BY <1>1, <1>4 DEF JoinPublishers, MainState
  <2>2. \A c \in Terminal : ~(c < Min(Terminal))
    BY <1>1, <1>2, TerminalEnds
  <2> QED
    BY <1>2, <2>1, <2>2 DEF AwaitInv
<1>5. CASE AwaitSequence
  <2>1. main.pc = "await" /\ sequence[main.at] >= Target
    BY <1>5 DEF AwaitSequence
  <2>2. \A c \in Terminal : c <= main.at => Target <= sequence[c]
    <3>1. \A c \in Terminal : c <= main.at => c < main.at \/ c = main.at
      BY <1>1, <1>2
    <3>2. \A c \in Terminal : c = main.at => Target <= sequence[c]
      BY <1>1, <1>2, <2>1
    <3> QED
      BY <2>1, <3>1, <3>2 DEF AwaitInv
  <2>3. CASE main.at = Max(Terminal)
    <3>1. \A c \in Terminal : Target <= sequence[c]
      BY <1>1, <1>2, <2>2, <2>3, TerminalEnds
    <3>2. /\ main'.pc \in {"cancel", "clear"} /\ main'.measured = main.measured
          /\ main'.pc = "clear" => ~main.measured
          /\ main'.pc = "cancel" => main.measured
      BY <1>1, <1>5, <2>3 DEF AwaitSequence, Awaited, MainState
    <3>3. /\ ~main.measured => Target = WarmupEvents - 1
          /\ main.measured => Target = Last
      BY DEF Target
    <3> QED
      BY <1>2, <3>1, <3>2, <3>3 DEF AwaitInv
  <2>4. CASE main.at # Max(Terminal)
    <3>1. main'.pc = "await" /\ main'.at = main.at + 1 /\ Target' = Target
      BY <1>1, <1>5, <2>1, <2>4 DEF AwaitSequence, MainState, Target
    <3>2. \A c \in Terminal : c < main.at + 1 => c <= main.at
      BY <1>1, <1>2
    <3> QED
      BY <1>2, <2>2, <3>1, <3>2 DEF AwaitInv
  <2> QED
    BY <2>3, <2>4
<1>6. CASE AwaitFails \/ ClearChecksums
  <2>1. \/ main'.pc = "cancel" /\ main'.failed = "phase"
        \/ main'.pc = "publish"
    BY <1>1, <1>6 DEF AwaitFails, ClearChecksums, MainState
  <2> QED
    BY <2>1 DEF AwaitInv
<1>7. CASE Cancel \/ HaltProcessor \/ JoinProcessor \/ EndStop \/ Report
  <2>1. \/ main'.pc \in {"returned"}
        \/ main'.pc = "cancel" /\ main'.failed = "stop"
        \/ /\ main.pc \in {"cancel", "halt", "join"}
           /\ main'.pc \in {"halt", "join", "report"}
           /\ main'.pc = "report" => main.failed = "no"
           /\ main'.failed = main.failed /\ main'.measured = main.measured
    BY <1>1, <1>7 DEF Cancel, HaltProcessor, JoinProcessor, EndStop, Report, MainState
  <2> QED
    BY <1>2, <2>1 DEF AwaitInv
<1> QED
  BY <1>3, <1>4, <1>5, <1>6, <1>7 DEF MainStep

LEMMA AwaitStep ==
  ASSUME TypeInv, LifeInv, PositionInv, AwaitInv, [Next]_vars
  PROVE  AwaitInv'
<1>1. sequence' \in [Consumers -> Int]
      /\ \A c \in Consumers : sequence[c] \in Int /\ sequence[c] <= sequence[c]
  BY TypeStep DEF TypeInv
<1>2. ASSUME NEW p \in Producers, PublisherStep(p) PROVE AwaitInv'
  <2>1. UNCHANGED <<main, sequence>> /\ main.pc # "start"
    BY <1>2, PublisherStepLife DEF PublisherStep, mainVars, runVars
  <2> QED
    BY <1>1, <2>1, AwaitFrame
<1>3. ASSUME NEW c \in Consumers, RunStep(c) PROVE AwaitInv'
  <2>1. UNCHANGED <<main, cursor>>
    BY <1>3 DEF RunStep, ringVars
  <2> QED
    BY <1>1, <1>3, <2>1, RunStepPosition, AwaitFrame
<1>4. CASE TimeOut \/ UNCHANGED vars
  <2>1. UNCHANGED <<main, cursor, sequence>>
    BY <1>4 DEF TimeOut, mainVars, ringVars, runVars, vars
  <2> QED
    BY <1>1, <2>1, AwaitFrame
<1> QED
  BY <1>2, <1>3, <1>4, MainStepAwait DEF Next

-----------------------------------------------------------------------------
(* The publishers share out the indices of a phase by remainder. *)
LEMMA Remainder ==
  ASSUME NEW n \in Nat \ {0}, NEW a \in Nat
  PROVE  /\ a \div n \in Nat /\ a % n \in 0 .. n - 1 /\ a % n <= a
         /\ a = n * (a \div n) + (a % n)
OBVIOUS

LEMMA Multiples ==
  ASSUME NEW n \in Nat \ {0}, NEW x \in Int, NEW y \in Int, x < y
  PROVE  n * x + n <= n * y /\ n * x \in Int /\ n * y \in Int
OBVIOUS

(* Indices with one remainder are a round of the publishers apart. *)
LEMMA SameRemainder ==
  ASSUME NEW n \in Nat \ {0}, NEW a \in Nat, NEW b \in Nat, a % n = b % n, a < b
  PROVE  a + n <= b
<1> DEFINE x == a \div n
           y == b \div n
           r == a % n
<1>1. /\ x \in Int /\ y \in Int /\ r \in Int /\ n * x \in Int /\ n * y \in Int
      /\ a = n * x + r /\ b = n * y + r
  BY Remainder
<1> HIDE DEF x, y, r
<1>2. ~(y < x) /\ x # y
  BY <1>1, Multiples
<1>3. x < y
  BY <1>1, <1>2
<1>4. n * x + n <= n * y
  BY <1>1, <1>3, Multiples
<1> QED
  BY <1>1, <1>4

(* The next index of a publisher has its remainder. *)
LEMMA NextRemainder ==
  ASSUME NEW n \in Nat \ {0}, NEW a \in Nat
  PROVE  (a + n) % n = a % n
<1> DEFINE x == a \div n
           y == (a + n) \div n
           r == a % n
           t == (a + n) % n
<1>1. x \in Int /\ r \in 0 .. n - 1 /\ a = n * x + r
  BY Remainder
<1>2. y \in Int /\ t \in 0 .. n - 1 /\ a + n = n * y + t
  <2> DEFINE s == a + n
  <2>1. s \in Nat
    OBVIOUS
  <2> HIDE DEF s
  <2>2. /\ s \div n \in Int /\ s % n \in 0 .. n - 1
        /\ s = n * (s \div n) + (s % n)
    BY <2>1, Remainder
  <2> QED
    BY <2>2 DEF s
<1> HIDE DEF x, y, r, t
<1>3. n * (x + 1) = n * x + n /\ n * x \in Int /\ n * y \in Int /\ x + 1 \in Int
  BY <1>1, <1>2
<1>4. ~(x + 1 < y)
  BY <1>1, <1>2, <1>3, Multiples
<1>5. ~(y < x + 1)
  BY <1>1, <1>2, <1>3, Multiples
<1>6. x + 1 = y
  BY <1>1, <1>2, <1>4, <1>5
<1>7. r = t
  BY <1>1, <1>2, <1>3, <1>6
<1> QED
  BY <1>7 DEF r, t

LEMMA SmallRemainder ==
  ASSUME NEW p \in Producers
  PROVE  p \in Nat /\ p % ProducerCount = p
BY Config DEF Producers

LEMMA PhaseType ==
  /\ PhaseEvents \in Nat /\ Base \in Nat
  /\ \A i \in 0 .. PhaseEvents - 1 : i \in Nat /\ i % ProducerCount \in Producers
<1>1. PhaseEvents \in Nat /\ Base \in Nat
  BY Config DEF PhaseEvents, Base
<1>2. \A i \in 0 .. PhaseEvents - 1 : i \in Nat
  BY <1>1
<1> QED
  BY <1>1, <1>2, Config, Remainder DEF Producers

LEMMA TakenFinite ==
  /\ IsFiniteSet(Taken) /\ Cardinality(Taken) \in Nat
  /\ Cardinality(Taken) <= PhaseEvents
  /\ Cardinality(Taken) = PhaseEvents => Taken = 0 .. PhaseEvents - 1
<1>1. /\ IsFiniteSet(0 .. PhaseEvents - 1)
      /\ Cardinality(0 .. PhaseEvents - 1) = PhaseEvents
  <2>1. PhaseEvents \in Nat /\ PhaseEvents - 1 \in Int /\ 0 \in Int
    BY PhaseType
  <2> QED
    BY <2>1, FS_Interval
<1>2. Taken \subseteq 0 .. PhaseEvents - 1
  BY DEF Taken
<1> QED
  BY <1>1, <1>2, FS_Subset, FS_CardinalityType

LEMMA CountInit == Init => CountInv
<1> SUFFICES ASSUME Init PROVE CountInv
  OBVIOUS
<1>1. /\ \A p \in Producers : pub[p].pc = "none" /\ pub[p].index = 0
      /\ cursor = -1
  BY DEF Init
<1>2. Taken = {}
  BY <1>1, PhaseType DEF Taken
<1>3. Base = 0
  BY DEF Init, Base
<1>4. cursor + 1 = Base + Cardinality(Taken)
  BY <1>1, <1>2, <1>3, FS_EmptySet
<1> QED
  BY <1>1, <1>4 DEF CountInv

LEMMA PublisherStepCount ==
  ASSUME TypeInv, CountInv, NEW p \in Producers, PublisherStep(p)
  PROVE  /\ CountInv'
         /\ \/ /\ Claim(p) /\ pub[p].index \notin Taken
               /\ Taken' = Taken \cup {pub[p].index}
            \/ cursor' = cursor /\ Taken' = Taken
<1>1. UNCHANGED main /\ PhaseEvents' = PhaseEvents /\ Base' = Base
  BY DEF PublisherStep, mainVars, PhaseEvents, Base
<1>2. /\ cursor \in Int /\ pub \in [Producers -> PubState] /\ pub[p].index \in Nat
      /\ main.measured \in BOOLEAN /\ ProducerCount \in Nat \ {0}
  BY Config, MainFields DEF TypeInv, PubState
<1>3. /\ PhaseEvents \in Nat /\ Base \in Nat
      /\ \A i \in 0 .. PhaseEvents - 1 : i \in Nat /\ i % ProducerCount \in Producers
  BY PhaseType
<1>4. pub[p].pc \in {"claim", "write", "publish"} /\ pub[p].index % ProducerCount = p
  BY DEF PublisherStep, Claim, Write, Publish, EndPublisher, CountInv
<1>5. ASSUME UNCHANGED cursor, \A q \in Producers : q # p => pub'[q] = pub[q],
             pub'[p].pc \in {"claim", "write", "publish"} =>
               pub'[p].index % ProducerCount = p,
             \A i \in 0 .. PhaseEvents - 1 : i % ProducerCount = p =>
               (i \in Taken <=> i \in Taken')
      PROVE  CountInv' /\ cursor' = cursor /\ Taken' = Taken
  <2>1. \A i \in 0 .. PhaseEvents - 1 : i % ProducerCount # p =>
          (i \in Taken <=> i \in Taken')
    BY <1>1, <1>3, <1>5 DEF Taken
  <2>2. Taken' = Taken
    <3>1. Taken \subseteq 0 .. PhaseEvents - 1 /\ Taken' \subseteq 0 .. PhaseEvents - 1
      BY <1>1 DEF Taken
    <3> QED
      BY <1>5, <2>1, <3>1
  <2> QED
    BY <1>1, <1>5, <2>2 DEF CountInv
<1>6. CASE Claim(p)
  <2> DEFINE i == pub[p].index
  <2>1. /\ pub' = [pub EXCEPT ![p].pc = "write", ![p].sequence = cursor + 1]
        /\ cursor' = cursor + 1 /\ pub[p].pc = "claim" /\ i < PhaseEvents
    BY <1>6 DEF Claim
  <2>2. /\ \A q \in Producers : q # p => pub'[q] = pub[q]
        /\ pub'[p].pc = "write" /\ pub'[p].index = i
    BY <1>2, <2>1 DEF PubState
  <2>3. /\ cursor' + 1 = Base' + Cardinality(Taken')
        /\ i \notin Taken /\ Taken' = Taken \cup {i}
    <3>1. i \in 0 .. PhaseEvents - 1
      BY <1>2, <1>3, <2>1
    <3>2. i \notin Taken
      BY <1>2, <1>4, <2>1 DEF Taken
    <3>3. \A j \in 0 .. PhaseEvents - 1 : j \in Taken' <=> j \in Taken \/ j = i
      <4>1. ASSUME NEW j \in 0 .. PhaseEvents - 1, j % ProducerCount = p
            PROVE  j \in Taken' <=> j \in Taken \/ j = i
        BY <1>1, <2>1, <2>2, <4>1 DEF Taken
      <4>2. ASSUME NEW j \in 0 .. PhaseEvents - 1, j % ProducerCount # p
            PROVE  j \in Taken' <=> j \in Taken \/ j = i
        BY <1>1, <1>3, <1>4, <2>2, <4>2 DEF Taken
      <4> QED
        BY <4>1, <4>2
    <3>4. Taken' = Taken \cup {i}
      <4>1. Taken \subseteq 0 .. PhaseEvents - 1 /\ Taken' \subseteq 0 .. PhaseEvents - 1
        BY <1>1 DEF Taken
      <4> QED
        BY <3>1, <3>3, <4>1
    <3>5. Cardinality(Taken') = Cardinality(Taken) + 1
      BY <3>2, <3>4, TakenFinite, FS_AddElement
    <3>6. cursor + 1 = Base + Cardinality(Taken)
      BY DEF CountInv
    <3>7. cursor' + 1 = Base' + Cardinality(Taken')
      BY <1>1, <1>2, <1>3, <2>1, <3>5, <3>6, TakenFinite
    <3> QED
      BY <3>2, <3>4, <3>7
  <2>4. \A q \in Producers : pub'[q].pc \in {"claim", "write", "publish"} =>
          pub'[q].index % ProducerCount = q
    BY <1>4, <2>2 DEF CountInv
  <2> QED
    BY <1>1, <1>6, <2>3, <2>4 DEF CountInv
<1>7. CASE Write(p)
  BY <1>1, <1>2, <1>4, <1>5, <1>7 DEF Write, PubState, Taken
<1>8. CASE Publish(p)
  <2> DEFINE i == pub[p].index
  <2>1. /\ pub[p].pc = "publish" /\ UNCHANGED cursor
        /\ pub'[p].pc = "claim" /\ pub'[p].index = i + ProducerCount
        /\ \A q \in Producers : q # p => pub'[q] = pub[q]
    BY <1>2, <1>8 DEF Publish, PubState
  <2>2. (i + ProducerCount) % ProducerCount = p
    BY <1>2, <1>4, NextRemainder
  <2>3. ASSUME NEW j \in 0 .. PhaseEvents - 1, j % ProducerCount = p
        PROVE  j \in Taken <=> j \in Taken'
    <3>1. j \in Nat /\ i \in Nat /\ ~(i < j /\ j < i + ProducerCount)
      BY <1>2, <1>4, <2>3, SameRemainder
    <3>2. j < i + ProducerCount <=> (j < i \/ j = i)
      BY <1>2, <3>1
    <3>3. j \in Taken <=> (j < i \/ j = i)
      BY <2>1, <2>3 DEF Taken
    <3>4. j \in Taken' <=> j < i + ProducerCount
      BY <1>1, <2>1, <2>3 DEF Taken
    <3> QED
      BY <3>2, <3>3, <3>4
  <2> QED
    BY <1>5, <2>1, <2>2, <2>3
<1>9. CASE EndPublisher(p)
  BY <1>1, <1>2, <1>4, <1>5, <1>9 DEF EndPublisher, ringVars, PubState, Taken
<1> QED
  BY <1>6, <1>7, <1>8, <1>9 DEF PublisherStep

LEMMA SpawnedCount ==
  ASSUME pub' = Spawned
  PROVE  /\ Taken' = {}
         /\ \A p \in Producers : pub'[p].index % ProducerCount = p
<1>1. \A p \in Producers : pub'[p].pc = "claim" /\ pub'[p].index = p
  BY DEF Spawned
<1>2. ASSUME NEW i \in Nat
      PROVE  i % ProducerCount \in Producers /\ ~(i < i % ProducerCount)
  <2> DEFINE r == i % ProducerCount
  <2>1. r \in 0 .. ProducerCount - 1 /\ r <= i
    BY Config, Remainder
  <2> HIDE DEF r
  <2>2. ~(i < r)
    BY <2>1, Config
  <2> QED
    BY <2>1, <2>2 DEF Producers, r
<1>3. Taken' = {}
  <2>1. \A i \in 0 .. PhaseEvents' - 1 : i \in Nat
    BY Config DEF PhaseEvents
  <2> QED
    BY <1>1, <1>2, <2>1 DEF Taken
<1> QED
  BY <1>1, <1>3, SmallRemainder

(* A phase claims no more sequences than it has events. *)
LEMMA CursorBound ==
  ASSUME TypeInv, CountInv
  PROVE  cursor <= Base + PhaseEvents - 1
<1>1. cursor \in Int /\ cursor + 1 = Base + Cardinality(Taken)
  BY DEF TypeInv, CountInv
<1> QED
  BY <1>1, TakenFinite, PhaseType

(***************************************************************************)
(* What the terminal sequences have passed every processor has passed,     *)
(* also the stages of a pipeline that runOnce does not wait for.           *)
(***************************************************************************)
LEMMA EveryonePasses ==
  ASSUME TypeInv, PositionInv, NEW n \in Int,
         \A d \in Terminal : n <= sequence[d], NEW c \in Consumers
  PROVE  n <= sequence[c]
<1>1. /\ sequence[c] \in Int /\ sequence[ConsumerCount] \in Int
      /\ ConsumerCount \in Consumers /\ n <= sequence[ConsumerCount]
  BY TerminalEnds DEF TypeInv
<1>2. CASE c \notin Terminal
  <2>1. Pipeline /\ c < ConsumerCount
    BY <1>2, Config DEF Terminal, Consumers
  <2>2. sequence[ConsumerCount] <= sequence[c]
    BY <1>1, <2>1 DEF PositionInv
  <2> QED
    BY <1>1, <2>2
<1> QED
  BY <1>2

(***************************************************************************)
(* When runOnce has waited for a phase, everything the phase claimed has   *)
(* been acknowledged by everybody: nothing is left to handle.              *)
(***************************************************************************)
LEMMA Drained ==
  ASSUME TypeInv, PositionInv, CountInv, NEW n \in Int, n = Base + PhaseEvents - 1,
         \A d \in Terminal : n <= sequence[d]
  PROVE  /\ cursor = n
         /\ \A c \in Consumers : sequence[c] = n /\ run[c].pc # "handle"
<1>1. cursor \in Int /\ cursor <= n
  BY CursorBound DEF TypeInv
<1>2. ASSUME NEW c \in Consumers
      PROVE  cursor = n /\ sequence[c] = n /\ run[c].pc # "handle"
  <2>1. n <= sequence[c] /\ sequence[c] <= cursor
    BY EveryonePasses DEF PositionInv
  <2>2. sequence[c] \in Int /\ run[c].end \in Int
    BY DEF TypeInv, RunState
  <2>3. cursor = n /\ sequence[c] = n
    BY <1>1, <2>1, <2>2
  <2>4. run[c].pc = "handle" => sequence[c] < run[c].end /\ run[c].end <= cursor
    BY DEF PositionInv
  <2> QED
    BY <1>1, <2>2, <2>3, <2>4
<1> QED
  BY <1>2, TerminalEnds

LEMMA WarmupDrained ==
  ASSUME TypeInv, PositionInv, AwaitInv, CountInv, main.pc = "clear"
  PROVE  /\ cursor = WarmupEvents - 1
         /\ \A c \in Consumers : sequence[c] = cursor /\ run[c].pc # "handle"
<1>1. /\ \A d \in Terminal : WarmupEvents - 1 <= sequence[d]
      /\ ~main.measured
  BY DEF AwaitInv
<1>2. WarmupEvents - 1 \in Int /\ WarmupEvents - 1 = Base + PhaseEvents - 1
  BY <1>1, Config DEF Base, PhaseEvents
<1> QED
  BY <1>1, <1>2, Drained

LEMMA MainStepCount ==
  ASSUME TypeInv, PositionInv, AwaitInv, CountInv, MainStep
  PROVE  CountInv'
<1>1. main \in MainState
  BY DEF TypeInv
<1>2. CASE UNCHANGED pub /\ main'.measured = main.measured
  <2>1. Taken' = Taken /\ Base' = Base /\ cursor' = cursor
    BY <1>2, MainStepFrame DEF Taken, Base, PhaseEvents
  <2>2. cursor' + 1 = Base' + Cardinality(Taken')
    BY <2>1, Zenon DEF CountInv
  <2> QED
    BY <1>2, <2>2, Zenon DEF CountInv
<1>3. CASE pub' = Spawned /\ cursor' + 1 = Base'
  <2>1. Base' \in Int
    BY Config DEF Base
  <2>2. cursor' + 1 = Base' + 0
    BY <1>3, <2>1
  <2>3. cursor' + 1 = Base' + Cardinality(Taken')
    BY <1>3, <2>2, SpawnedCount, FS_EmptySet, Zenon
  <2> QED
    BY <1>3, <2>3, SpawnedCount, Zenon DEF CountInv
<1>4. CASE StartProcessors
  <2>1. main'.measured = main.measured /\ cursor' = -1 /\ ~main'.measured
    BY <1>1, <1>4 DEF StartProcessors, MainState, AwaitInv, ringVars
  <2>2. cursor' + 1 = Base'
    BY <2>1 DEF Base
  <2> QED
    BY <1>2, <1>3, <1>4, <2>1, <2>2 DEF StartProcessors
<1>5. CASE ClearChecksums
  <2>1. main'.measured /\ pub' = Spawned /\ cursor' = cursor
    BY <1>1, <1>5 DEF ClearChecksums, MainState, ringVars
  <2>2. cursor = WarmupEvents - 1
    BY <1>5, WarmupDrained DEF ClearChecksums
  <2>3. cursor' + 1 = Base'
    BY <2>1, <2>2, Config DEF Base
  <2> QED
    BY <1>3, <2>1, <2>3
<1> QED
  BY <1>1, <1>2, <1>4, <1>5
  DEF MainStep, JoinPublishers, AwaitSequence, AwaitFails, Cancel, HaltProcessor,
      JoinProcessor, EndStop, Report, Awaited, MainState

LEMMA CountStep ==
  ASSUME TypeInv, PositionInv, AwaitInv, CountInv, [Next]_vars
  PROVE  CountInv'
<1>1. CASE UNCHANGED <<main, pub, cursor>>
  <2>1. Taken' = Taken /\ Base' = Base /\ cursor' = cursor
    BY <1>1 DEF Taken, Base, PhaseEvents
  <2> QED
    BY <1>1, <2>1, Zenon DEF CountInv
<1>2. ASSUME NEW c \in Consumers, RunStep(c) PROVE CountInv'
  BY <1>1, <1>2 DEF RunStep, ringVars
<1>3. CASE TimeOut \/ UNCHANGED vars
  BY <1>1, <1>3 DEF TimeOut, mainVars, ringVars, vars
<1> QED
  BY <1>2, <1>3, MainStepCount, PublisherStepCount DEF Next

-----------------------------------------------------------------------------
LEMMA InvInit == Init => Inv
BY TypeInit, LifeInit, PositionInit, AwaitInit, CountInit DEF Inv

LEMMA InvStep == Inv /\ [Next]_vars => Inv'
BY TypeStep, LifeStep, PositionStep, AwaitStep, CountStep DEF Inv

(***************************************************************************)
(* runOnce clears the handlers' checksums between the phases and sums them *)
(* for the report without a lock; in both topologies, and although         *)
(* waitForSequences reads the terminal sequences one after the other, no   *)
(* handler is running then.                                                *)
(***************************************************************************)
THEOREM TalliesNeverShared == Spec => []TalliesUnshared
<1>1. Inv => TalliesUnshared
  <2> SUFFICES ASSUME Inv, main.pc \in {"clear", "report"}, NEW c \in Consumers
               PROVE  run[c].pc # "handle"
    BY DEF TalliesUnshared
  <2>1. CASE main.pc = "report"
    BY <2>1 DEF Inv, LifeInv, JoinInv
  <2>2. CASE main.pc = "clear"
    BY <2>2, WarmupDrained DEF Inv
  <2> QED
    BY <2>1, <2>2
<1> QED
  BY <1>1, InvInit, InvStep, PTL DEF Spec

-----------------------------------------------------------------------------
(* What a report is made of. *)

(* The last sequence that a processor's handler has been called for. *)
Reached(c) == IF run[c].pc = "handle" THEN run[c].at - 1 ELSE sequence[c]

(* A publisher between its claim and its publication. *)
Held(p) == pub[p].pc \in {"write", "publish"}

DataInv ==
  /\ entries \in [Slots -> [payload : Int, sampled : BOOLEAN]]
  /\ checksums \in [Consumers -> Int] /\ latencies \in [Consumers -> Int]

(***************************************************************************)
(* Everything unacknowledged lies within a lap of the cursor, everything   *)
(* acknowledged or being handled is published, and each unpublished claim  *)
(* belongs to one publisher.                                               *)
(***************************************************************************)
WindowInv ==
  /\ \A c \in Consumers :
       /\ cursor - RingSize <= sequence[c] /\ 0 .. sequence[c] \subseteq published
       /\ run[c].pc = "handle" =>
            /\ 0 .. run[c].end \subseteq published
            /\ sequence[c] < run[c].at /\ run[c].at <= run[c].end + 1
  /\ \A p \in Producers : Held(p) => pub[p].sequence \notin published
  /\ \A p, q \in Producers :
       Held(p) /\ Held(q) /\ p # q => pub[p].sequence # pub[q].sequence

(* The slot of a sequence holds its payload from Write until the next lap. *)
EntryInv ==
  /\ \A s \in published :
       cursor - RingSize < s => entries[s % RingSize].payload = s % 256
  /\ \A p \in Producers :
       pub[p].pc = "publish" =>
         entries[pub[p].sequence % RingSize].payload = pub[p].sequence % 256

(* A checksum is the sum of the measured payloads handled so far. *)
Sum(S) == MapThenSumSet(LAMBDA s : s % 256, S)

SumInv ==
  main.measured =>
    \A c \in Consumers :
      WarmupEvents - 1 <= Reached(c) /\ checksums[c] = Sum(WarmupEvents .. Reached(c))

(***************************************************************************)
(* Whether the event of a claimed sequence is, or will be written as, a    *)
(* sample; those a consumer has still to count; and the sampled indices    *)
(* that were claimed for.                                                  *)
(***************************************************************************)
Writing(p, s) == pub[p].pc = "write" /\ pub[p].sequence = s

Flag(s) ==
  IF \E p \in Producers : Writing(p, s)
  THEN \E p \in Producers : Writing(p, s) /\ pub[p].index % SampleEvery = 0
  ELSE entries[s % RingSize].sampled

Pending(c) == {s \in Reached(c) + 1 .. cursor : Flag(s)}

Sampled == {i \in Taken : i % SampleEvery = 0}

SampleInv ==
  /\ ~main.measured => \A i \in Slots : ~entries[i].sampled
  /\ \A c \in Consumers : ~main.measured \/ ~Records(c) => latencies[c] = 0
  /\ main.measured =>
       \A c \in Consumers : Records(c) =>
         latencies[c] + Cardinality(Pending(c)) = Cardinality(Sampled)

ReportInv == Inv /\ DataInv /\ WindowInv /\ EntryInv /\ SumInv /\ SampleInv

-----------------------------------------------------------------------------
Pick(s) == CHOOSE x \in s : TRUE

IsFold(g, S) ==
  g = [s \in SUBSET S |-> IF s = {} THEN 0 ELSE (Pick(s) % 256) + g[s \ {Pick(s)}]]

(* A number's own interval, as long as its payload, and those of a set. *)
Units(x) == 256 * x .. 256 * x + (x % 256) - 1
AllUnits(S) == UNION {Units(x) : x \in S}

LEMMA SumUnfold ==
  ASSUME NEW S
  PROVE  Sum(S) = (CHOOSE g : IsFold(g, S))[S]
BY DEF Sum, MapThenSumSet, MapThenFoldSet, IsFold, Pick

LEMMA UnitsCount ==
  ASSUME NEW x \in Nat
  PROVE  /\ x % 256 \in 0 .. 255
         /\ IsFiniteSet(Units(x)) /\ Cardinality(Units(x)) = x % 256
         /\ \A n \in Units(x) : n \in Nat /\ 256 * x <= n /\ n < 256 * x + 256
<1> DEFINE r == x % 256
<1>1. r \in 0 .. 255
  OBVIOUS
<1> HIDE DEF r
<1>2. 256 * x \in Int /\ 256 * x + r - 1 \in Int
  BY <1>1
<1>3. /\ IsFiniteSet(256 * x .. 256 * x + r - 1)
      /\ Cardinality(256 * x .. 256 * x + r - 1) =
           IF 256 * x > 256 * x + r - 1 THEN 0 ELSE (256 * x + r - 1) - 256 * x + 1
  BY <1>2, FS_Interval
<1>4. Cardinality(256 * x .. 256 * x + r - 1) = r
  BY <1>1, <1>3
<1>5. \A n \in 256 * x .. 256 * x + r - 1 : n \in Nat /\ 256 * x <= n /\ n < 256 * x + 256
  BY <1>1
<1> QED
  BY <1>1, <1>3, <1>4, <1>5 DEF Units, r

LEMMA UnitsFinite ==
  ASSUME NEW m \in Nat, NEW S \in SUBSET (0 .. m)
  PROVE  IsFiniteSet(AllUnits(S)) /\ Cardinality(AllUnits(S)) \in Nat
<1>1. 256 * m + 255 \in Nat
  OBVIOUS
<1>2. ASSUME NEW x \in S, NEW n \in Units(x)
      PROVE  n \in Nat /\ n <= 256 * m + 255
  <2>1. x \in Nat /\ x <= m
    OBVIOUS
  <2>2. n \in Nat /\ n < 256 * x + 256
    BY <1>2, <2>1, UnitsCount
  <2> QED
    BY <2>1, <2>2
<1>3. AllUnits(S) \in SUBSET Nat /\ \A n \in AllUnits(S) : n <= 256 * m + 255
  BY <1>2 DEF AllUnits
<1> QED
  BY <1>1, <1>3, FS_BoundedSetOfNaturals, FS_CardinalityType

(* One element more adds its payload, in whatever order. *)
LEMMA UnitsRemove ==
  ASSUME NEW m \in Nat, NEW S \in SUBSET (0 .. m), NEW x \in S
  PROVE  Cardinality(AllUnits(S)) = (x % 256) + Cardinality(AllUnits(S \ {x}))
<1> DEFINE T == S \ {x}
<1>1. T \in SUBSET (0 .. m) /\ x \in Nat
  OBVIOUS
<1>2. /\ IsFiniteSet(AllUnits(T)) /\ Cardinality(AllUnits(T)) \in Nat
      /\ IsFiniteSet(Units(x)) /\ Cardinality(Units(x)) = x % 256
      /\ x % 256 \in 0 .. 255
  BY <1>1, UnitsFinite, UnitsCount
<1>3. AllUnits(S) = Units(x) \cup AllUnits(T)
  BY DEF AllUnits
<1>4. Units(x) \cap AllUnits(T) = {}
  <2> SUFFICES ASSUME NEW y \in T, NEW n \in Units(x), n \in Units(y) PROVE FALSE
    BY DEF AllUnits
  <2>1. y \in Nat /\ y # x
    OBVIOUS
  <2>2. n \in Nat /\ 256 * x <= n /\ n < 256 * x + 256 /\ 256 * y <= n /\ n < 256 * y + 256
    BY <1>1, <2>1, UnitsCount
  <2> QED
    BY <1>1, <2>1, <2>2
<1>5. Cardinality(AllUnits(S)) =
        Cardinality(Units(x)) + Cardinality(AllUnits(T)) - Cardinality({})
  <2> DEFINE A == Units(x)
             B == AllUnits(T)
  <2> HIDE DEF A, B, T
  <2>1. IsFiniteSet(A) /\ IsFiniteSet(B) /\ A \cap B = {}
    BY <1>2, <1>4 DEF A, B
  <2>2. Cardinality(A \cup B) = Cardinality(A) + Cardinality(B) - Cardinality(A \cap B)
    BY <2>1, FS_Union, Zenon
  <2> QED
    BY <1>3, <2>1, <2>2, Zenon DEF A, B
<1>6. Cardinality({}) = 0
  BY FS_EmptySet
<1> QED
  BY <1>2, <1>5, <1>6

LEMMA SumUnits ==
  ASSUME NEW m \in Nat, NEW S \in SUBSET (0 .. m)
  PROVE  Sum(S) = Cardinality(AllUnits(S))
<1> DEFINE h == [s \in SUBSET S |-> Cardinality(AllUnits(s))]
<1>1. ASSUME NEW s \in SUBSET S, s # {}
      PROVE  /\ Pick(s) \in s /\ s \ {Pick(s)} \in SUBSET S
             /\ Cardinality(AllUnits(s)) =
                  (Pick(s) % 256) + Cardinality(AllUnits(s \ {Pick(s)}))
  <2>1. Pick(s) \in s
    BY <1>1 DEF Pick
  <2> QED
    BY <2>1, UnitsRemove
<1>2. Cardinality(AllUnits({})) = 0
  BY FS_EmptySet DEF AllUnits
<1>3. IsFold(h, S)
  <2> SUFFICES ASSUME NEW s \in SUBSET S
               PROVE  h[s] = IF s = {} THEN 0 ELSE (Pick(s) % 256) + h[s \ {Pick(s)}]
    BY DEF IsFold
  <2>1. CASE s = {}
    BY <1>2, <2>1
  <2>2. CASE s # {}
    BY <1>1, <2>2
  <2> QED
    BY <2>1, <2>2
<1> DEFINE g == CHOOSE f : IsFold(f, S)
<1>4. IsFold(g, S)
  BY <1>3
<1> HIDE DEF g, h
<1>5. \A s \in SUBSET S :
        g[s] = IF s = {} THEN 0 ELSE (Pick(s) % 256) + g[s \ {Pick(s)}]
  BY <1>4 DEF IsFold
<1> DEFINE Bad == {s \in SUBSET S : g[s] # Cardinality(AllUnits(s))}
           R == StrictSubsetOrdering(S)
<1>6. ASSUME Bad # {} PROVE FALSE
  <2>1. IsFiniteSet(S)
    <3>1. IsFiniteSet(0 .. m)
      BY FS_Interval
    <3> QED
      BY <3>1, FS_Subset
  <2>2. Bad \subseteq FiniteSubsetsOf(S)
    BY <2>1, FS_Subset DEF FiniteSubsetsOf
  <2>3. PICK s \in Bad : \A t \in Bad : ~(<<t, s>> \in R)
    <3> HIDE DEF Bad, R
    <3>1. IsWellFoundedOn(R, FiniteSubsetsOf(S))
      BY FS_StrictSubsetOrderingWellFounded DEF R
    <3> QED
      BY <1>6, <2>2, <3>1, WFMin
  <2>4. s # {}
    BY <1>2, <1>5
  <2> DEFINE t == s \ {Pick(s)}
  <2>5. t \in SUBSET S /\ t # s /\ t \subseteq s
    BY <1>1, <2>4
  <2>6. t \notin Bad
    BY <2>3, <2>5 DEF StrictSubsetOrdering
  <2>7. g[t] = Cardinality(AllUnits(t))
    BY <2>5, <2>6
  <2>8. g[s] = Cardinality(AllUnits(s))
    BY <1>1, <1>5, <2>4, <2>7
  <2> QED
    BY <2>8
<1>7. g[S] = Cardinality(AllUnits(S))
  BY <1>6
<1> QED
  BY <1>7, SumUnfold DEF g

LEMMA SumNext ==
  ASSUME NEW a \in Nat, NEW n \in Int, a - 1 <= n
  PROVE  Sum(a .. n + 1) = Sum(a .. n) + ((n + 1) % 256) /\ Sum(a .. n) \in Int
<1>1. /\ n + 1 \in Nat /\ a .. n + 1 \in SUBSET (0 .. n + 1)
      /\ a .. n \in SUBSET (0 .. n + 1)
      /\ n + 1 \in a .. n + 1 /\ (a .. n + 1) \ {n + 1} = a .. n
  OBVIOUS
<1>2. Sum(a .. n + 1) = Cardinality(AllUnits(a .. n + 1))
      /\ Sum(a .. n) = Cardinality(AllUnits(a .. n))
  BY <1>1, SumUnits
<1>3. Cardinality(AllUnits(a .. n + 1)) =
        ((n + 1) % 256) + Cardinality(AllUnits(a .. n))
  <2> DEFINE k == n + 1
             S == a .. n + 1
  <2>1. k \in Nat /\ S \in SUBSET (0 .. k) /\ k \in S
    BY <1>1
  <2> HIDE DEF k, S
  <2>2. Cardinality(AllUnits(S)) = (k % 256) + Cardinality(AllUnits(S \ {k}))
    BY <2>1, UnitsRemove
  <2> QED
    BY <1>1, <2>2 DEF k, S
<1>4. Cardinality(AllUnits(a .. n)) \in Nat
  BY <1>1, UnitsFinite
<1>5. (n + 1) % 256 \in Int
  BY <1>1
<1> QED
  BY <1>2, <1>3, <1>4, <1>5

LEMMA SumNone ==
  ASSUME NEW a \in Nat
  PROVE  Sum(a .. a - 1) = 0
<1>1. a .. a - 1 = {} /\ {} \in SUBSET (0 .. a)
  OBVIOUS
<1>2. Sum({}) = Cardinality(AllUnits({}))
  BY <1>1, SumUnits
<1> QED
  BY <1>1, <1>2, FS_EmptySet DEF AllUnits

-----------------------------------------------------------------------------
(* One sample for each started block of n indices. *)
LEMMA SampledCount ==
  ASSUME NEW n \in Nat \ {0}, NEW e \in Nat
  PROVE  Cardinality({i \in 0 .. e - 1 : i % n = 0}) = (e + n - 1) \div n
<1> DEFINE T == {i \in 0 .. e - 1 : i % n = 0}
           k == (e + n - 1) \div n
           r == (e + n - 1) % n
           f == [j \in 0 .. k - 1 |-> n * j]
<1>1. k \in Nat /\ r \in 0 .. n - 1 /\ e + n - 1 = n * k + r
  <2> DEFINE s == e + n - 1
  <2>1. s \in Nat
    OBVIOUS
  <2> HIDE DEF s
  <2>2. s \div n \in Nat /\ s % n \in 0 .. n - 1 /\ s = n * (s \div n) + (s % n)
    BY <2>1, Remainder
  <2> QED
    BY <2>2 DEF s
<1> HIDE DEF k, r
<1>0. n * k \in Int
  BY <1>1
<1>2. ASSUME NEW j \in 0 .. k - 1
      PROVE  n * j \in Nat /\ n * j <= e - 1 /\ (n * j) % n = 0
  <2>1. j \in Nat /\ j < k
    BY <1>1
  <2>2. n * j + n <= n * k /\ n * j \in Nat
    BY <1>1, <2>1, Multiples
  <2>3. (n * j) % n = 0
    <3> DEFINE a == n * j
    <3>1. a \in Nat /\ a = n * j
      BY <2>2
    <3> HIDE DEF a
    <3>2. /\ a \div n \in Nat /\ a % n \in 0 .. n - 1
          /\ a = n * (a \div n) + (a % n)
      BY <3>1, Remainder
    <3> DEFINE x == a \div n
               t == a % n
    <3> HIDE DEF x, t
    <3>3. x \in Nat /\ t \in 0 .. n - 1 /\ n * j = n * x + t /\ n * x \in Int
      BY <3>1, <3>2 DEF x, t
    <3>4. ~(x < j)
      BY <2>1, <3>3, Multiples
    <3>5. ~(j < x)
      BY <2>1, <2>2, <3>3, Multiples
    <3>6. x = j
      BY <2>1, <3>3, <3>4, <3>5
    <3>7. t = 0
      BY <2>2, <3>3, <3>6
    <3> QED
      BY <3>7 DEF t, a
  <2>4. n * j <= e - 1
    BY <1>0, <1>1, <2>2
  <2> QED
    BY <2>2, <2>3, <2>4
<1>3. ASSUME NEW i \in T
      PROVE  \E j \in 0 .. k - 1 : i = n * j
  <2>1. i \in Nat /\ i <= e - 1 /\ i % n = 0
    OBVIOUS
  <2> DEFINE x == i \div n
  <2>2. x \in Nat /\ i = n * x + (i % n)
    BY <2>1, Remainder
  <2> HIDE DEF x, T
  <2>3. i = n * x /\ n * x \in Int
    BY <2>1, <2>2
  <2>4. ~(k < x)
    BY <1>0, <1>1, <2>1, <2>2, <2>3, Multiples
  <2>5. x # k
    BY <1>0, <1>1, <2>1, <2>3
  <2>6. x \in 0 .. k - 1
    BY <1>1, <2>2, <2>4, <2>5
  <2> QED
    BY <2>3, <2>6
<1>4. \A i, j \in 0 .. k - 1 : n * i = n * j => i = j
  <2> SUFFICES ASSUME NEW i \in 0 .. k - 1, NEW j \in 0 .. k - 1, n * i = n * j
               PROVE  i = j
    OBVIOUS
  <2>1. i \in Int /\ j \in Int /\ n * i \in Int /\ n * j \in Int
    BY <1>1
  <2>2. ~(i < j) /\ ~(j < i)
    BY <2>1, Multiples
  <2> QED
    BY <2>1, <2>2
<1>5. f \in Bijection(0 .. k - 1, T)
  <2>1. \A j \in 0 .. k - 1 : f[j] \in T
    <3>1. \A j \in 0 .. k - 1 : n * j \in 0 .. e - 1
      BY <1>2
    <3> QED
      BY <1>2, <3>1
  <2> HIDE DEF T
  <2>2. f \in Injection(0 .. k - 1, T)
    BY <1>4, <2>1 DEF Injection, IsInjective
  <2>3. f \in Surjection(0 .. k - 1, T)
    BY <1>3, <2>1 DEF Surjection
  <2> QED
    BY <2>2, <2>3 DEF Bijection
<1>6. IsFiniteSet(0 .. k - 1) /\ Cardinality(0 .. k - 1) = k
  <2>1. k - 1 \in Int /\ 0 \in Int
    BY <1>1
  <2>2. IsFiniteSet(0 .. k - 1)
        /\ Cardinality(0 .. k - 1) = IF 0 > k - 1 THEN 0 ELSE k - 1 - 0 + 1
    BY <2>1, FS_Interval
  <2> QED
    BY <1>1, <2>2
<1>7. Cardinality(T) = k
  <2> HIDE DEF T, f
  <2>1. ExistsBijection(0 .. k - 1, T)
    BY <1>5 DEF ExistsBijection
  <2> QED
    BY <1>6, <2>1, FS_Bijection
<1> QED
  BY <1>7 DEF k

-----------------------------------------------------------------------------
(* Types of the data. *)
LEMMA SlotType ==
  ASSUME NEW s \in Nat
  PROVE  s % RingSize \in Slots /\ s % 256 \in Int
BY Config, Remainder DEF Slots

LEMMA DataInit == Init => DataInv
BY DEF Init, DataInv

LEMMA DataStep ==
  ASSUME Inv, WindowInv, DataInv, [Next]_vars
  PROVE  DataInv'
<1>1. ASSUME NEW p \in Producers, PublisherStep(p) PROVE DataInv'
  <2>1. UNCHANGED tallies
    BY <1>1 DEF PublisherStep, runVars
  <2>2. CASE UNCHANGED entries
    BY <2>1, <2>2 DEF DataInv, tallies
  <2>3. CASE Write(p)
    <3> DEFINE s == pub[p].sequence
               m == main.measured /\ Latency /\ pub[p].index % SampleEvery = 0
    <3>1. s \in Nat
      BY <2>3, <1>1 DEF Write, Inv, PositionInv
    <3>2. entries' = [entries EXCEPT ![s % RingSize] = [payload |-> s % 256, sampled |-> m]]
      BY <2>3 DEF Write
    <3>3. m \in BOOLEAN
      OBVIOUS
    <3> HIDE DEF m, s
    <3>4. s % 256 \in Int
      BY <3>1, SlotType
    <3>5. [payload |-> s % 256, sampled |-> m] \in [payload : Int, sampled : BOOLEAN]
      BY <3>3, <3>4
    <3> QED
      BY <2>1, <3>2, <3>5 DEF DataInv, tallies
  <2> QED
    BY <1>1, <2>2, <2>3 DEF PublisherStep, Claim, Publish, EndPublisher, ringVars
<1>2. ASSUME NEW c \in Consumers, RunStep(c) PROVE DataInv'
  <2>1. UNCHANGED entries
    BY <1>2 DEF RunStep, ringVars
  <2>2. CASE UNCHANGED tallies
    BY <2>1, <2>2 DEF DataInv, tallies
  <2>3. CASE Handle(c)
    <3> DEFINE e == entries[run[c].at % RingSize]
    <3>1. run[c].at \in Nat
      BY <2>3 DEF Handle, WindowInv, Inv, PositionInv, TypeInv, RunState
    <3>2. e.payload \in Int
      BY <3>1, SlotType DEF DataInv
    <3>3. /\ checksums' = [checksums EXCEPT ![c] = @ + e.payload]
          /\ latencies' = [latencies EXCEPT ![c] = IF Records(c) /\ e.sampled THEN @ + 1 ELSE @]
      BY <2>3 DEF Handle
    <3>4. /\ checksums[c] \in Int /\ latencies[c] \in Int
          /\ checksums \in [Consumers -> Int] /\ latencies \in [Consumers -> Int]
      BY DEF DataInv
    <3> HIDE DEF e
    <3>5. checksums' \in [Consumers -> Int]
      BY <3>2, <3>3, <3>4
    <3>6. latencies' \in [Consumers -> Int]
      <4>1. PICK n \in Int : latencies' = [latencies EXCEPT ![c] = n]
        <5>1. latencies[c] + 1 \in Int
          BY <3>4
        <5>2. CASE Records(c) /\ e.sampled
          BY <3>3, <5>1, <5>2
        <5>3. CASE ~(Records(c) /\ e.sampled)
          BY <3>3, <3>4, <5>3
        <5> QED
          BY <5>2, <5>3
      <4> QED
        BY <3>4, <4>1
    <3> QED
      BY <2>1, <3>5, <3>6 DEF DataInv
  <2> QED
    BY <1>2, <2>2, <2>3
    DEF RunStep, StartRun, CheckContext, SelectBatch, Acknowledge, EndRun
<1>3. CASE ClearChecksums
  BY <1>3 DEF ClearChecksums, ringVars, DataInv
<1>4. CASE UNCHANGED <<entries, tallies>>
  BY <1>4 DEF DataInv, tallies
<1> QED
  BY <1>1, <1>2, <1>3, <1>4
  DEF Next, MainStep, StartProcessors, JoinPublishers, AwaitSequence, AwaitFails, Cancel,
      HaltProcessor, JoinProcessor, EndStop, Report, TimeOut, ringVars, runVars, vars,
      tallies

-----------------------------------------------------------------------------
(* The window of the ring. *)
LEMMA WindowInit == Init => WindowInv
<1> SUFFICES ASSUME Init PROVE WindowInv
  OBVIOUS
<1>1. /\ cursor = -1 /\ \A c \in Consumers : sequence[c] = -1 /\ run[c].pc = "none"
      /\ \A p \in Producers : ~Held(p)
  BY DEF Init, Held
<1>2. -1 - RingSize <= -1 /\ 0 .. -1 = {}
  BY Config
<1> QED
  BY <1>1, <1>2 DEF WindowInv

(* An unpublished claim lies within a lap of the cursor, ahead of all. *)
LEMMA HeldInWindow ==
  ASSUME TypeInv, PositionInv, WindowInv, NEW p \in Producers, Held(p)
  PROVE  /\ pub[p].sequence \in Nat /\ pub[p].sequence <= cursor
         /\ cursor - RingSize < pub[p].sequence
         /\ pub[p].sequence \notin published
<1> DEFINE s == pub[p].sequence
           g == ConsumerCount
<1>1. s \in Nat /\ s <= cursor /\ s \notin published
  BY DEF PositionInv, WindowInv, Held, TypeInv
<1>2. /\ g \in Consumers /\ sequence[g] \in Int /\ cursor \in Int
      /\ cursor - RingSize <= sequence[g] /\ 0 .. sequence[g] \subseteq published
  BY TerminalEnds DEF WindowInv, TypeInv
<1>3. ~(s <= sequence[g])
  BY <1>1, <1>2
<1> QED
  BY <1>1, <1>2, <1>3, Config

(* Different sequences within a lap have different slots. *)
LEMMA SlotsDiffer ==
  ASSUME TypeInv, NEW a \in Nat, NEW b \in Nat, a # b,
         cursor - RingSize < a, a <= cursor, cursor - RingSize < b, b <= cursor
  PROVE  a % RingSize # b % RingSize
<1>1. cursor \in Int /\ RingSize \in Nat \ {0}
  BY Config DEF TypeInv
<1>2. ~(a < b /\ a + RingSize <= b) /\ ~(b < a /\ b + RingSize <= a)
  BY <1>1
<1>3. a < b \/ b < a
  OBVIOUS
<1> QED
  BY <1>1, <1>2, <1>3, SameRemainder

LEMMA PublisherStepWindow ==
  ASSUME Inv, WindowInv, NEW p \in Producers, PublisherStep(p)
  PROVE  WindowInv'
<1>1. UNCHANGED <<run, sequence>>
  BY DEF PublisherStep, runVars
<1>2. /\ cursor \in Int /\ pub \in [Producers -> PubState] /\ TypeInv /\ PositionInv
      /\ RingSize \in Nat \ {0} /\ pub[p].sequence \in Int
      /\ \A c \in Consumers : sequence[c] \in Int
  BY Config DEF Inv, TypeInv, PubState
<1>3. ASSUME UNCHANGED cursor, published \subseteq published',
             \A q \in Producers : (Held(q))' =>
               /\ Held(q) /\ pub'[q].sequence = pub[q].sequence
               /\ pub[q].sequence \notin published'
      PROVE  WindowInv'
  BY <1>1, <1>3 DEF WindowInv
<1>4. CASE Claim(p)
  <2>1. /\ cursor' = cursor + 1 /\ published' = published
        /\ pub' = [pub EXCEPT ![p].pc = "write", ![p].sequence = cursor + 1]
        /\ \A g \in Terminal : cursor + 1 - RingSize <= sequence[g]
    BY <1>4 DEF Claim, HasCapacity
  <2>2. ASSUME NEW c \in Consumers PROVE cursor' - RingSize <= sequence[c]
    <3>1. cursor + 1 - RingSize \in Int
      BY <1>2
    <3> QED
      BY <1>2, <2>1, <3>1, EveryonePasses
  <2>3. /\ pub'[p].sequence = cursor + 1
        /\ \A q \in Producers : q # p => pub'[q] = pub[q]
    BY <1>2, <2>1 DEF PubState
  <2>4. \A q \in Producers : q # p => ((Held(q))' <=> Held(q))
    BY <2>3 DEF Held
  <2>5. cursor + 1 \notin published
    BY <1>2 DEF PositionInv
  <2>6. \A q \in Producers : Held(q) => pub[q].sequence # cursor + 1
    BY <1>2 DEF PositionInv, Held
  <2>7. ASSUME NEW q \in Producers, (Held(q))' PROVE pub'[q].sequence \notin published'
    <3>1. CASE q = p
      <4>1. pub'[q].sequence = cursor + 1 /\ published' = published
        BY <2>1, <2>3, <3>1
      <4> QED
        BY <2>5, <4>1, Zenon
    <3>2. CASE q # p
      <4>1. Held(q) /\ pub'[q] = pub[q] /\ published' = published
        BY <2>1, <2>3, <2>4, <2>7, <3>2
      <4>2. pub[q].sequence \notin published
        BY <4>1 DEF WindowInv
      <4> QED
        BY <4>1, <4>2
    <3> QED
      BY <3>1, <3>2
  <2>8. ASSUME NEW q \in Producers, NEW r \in Producers, (Held(q))', (Held(r))', q # r
        PROVE  pub'[q].sequence # pub'[r].sequence
    <3>1. CASE q = p
      BY <2>3, <2>4, <2>6, <2>8, <3>1
    <3>2. CASE r = p
      BY <2>3, <2>4, <2>6, <2>8, <3>2
    <3>3. CASE q # p /\ r # p
      BY <2>3, <2>4, <2>8, <3>3 DEF WindowInv
    <3> QED
      BY <3>1, <3>2, <3>3
  <2> QED
    BY <1>1, <2>1, <2>2, <2>7, <2>8 DEF WindowInv
<1>5. CASE Write(p)
  <2>1. pub' = [pub EXCEPT ![p].pc = "publish"] /\ UNCHANGED <<cursor, published>>
        /\ pub[p].pc = "write"
    BY <1>5 DEF Write
  <2>2. \A q \in Producers : (Held(q))' => Held(q) /\ pub'[q].sequence = pub[q].sequence
    BY <1>2, <2>1 DEF Held, PubState
  <2> QED
    BY <1>3, <2>1, <2>2 DEF WindowInv
<1>6. CASE Publish(p)
  <2>1. /\ published' = published \cup {pub[p].sequence} /\ UNCHANGED cursor
        /\ pub[p].pc = "publish" /\ pub'[p].pc = "claim"
        /\ \A q \in Producers : q # p => pub'[q] = pub[q]
    BY <1>2, <1>6 DEF Publish, PubState
  <2>2. ASSUME NEW q \in Producers, (Held(q))'
        PROVE  /\ Held(q) /\ pub'[q].sequence = pub[q].sequence
               /\ pub[q].sequence \notin published'
    <3>1. q # p
      BY <2>1, <2>2 DEF Held
    <3>2. Held(q) /\ Held(p) /\ pub'[q] = pub[q]
      BY <2>1, <2>2, <3>1 DEF Held
    <3> QED
      BY <2>1, <3>1, <3>2 DEF WindowInv
  <2> QED
    BY <1>3, <2>1, <2>2
<1>7. CASE EndPublisher(p)
  <2>1. UNCHANGED <<cursor, published>>
    BY <1>7 DEF EndPublisher, ringVars
  <2>2. \A q \in Producers : (Held(q))' => Held(q) /\ pub'[q].sequence = pub[q].sequence
    BY <1>2, <1>7 DEF EndPublisher, Held, PubState
  <2> QED
    BY <1>3, <2>1, <2>2 DEF WindowInv
<1> QED
  BY <1>4, <1>5, <1>6, <1>7 DEF PublisherStep

LEMMA RunStepWindow ==
  ASSUME Inv, WindowInv, NEW c \in Consumers, RunStep(c)
  PROVE  WindowInv'
<1>1. UNCHANGED <<pub, cursor, published>> /\ \A p \in Producers : (Held(p))' <=> Held(p)
  BY DEF RunStep, ringVars, Held
<1>2. /\ cursor \in Int /\ RingSize \in Nat \ {0} /\ TypeInv
      /\ run \in [Consumers -> RunState] /\ sequence \in [Consumers -> Int]
      /\ run[c].at \in Int /\ run[c].end \in Int /\ sequence[c] \in Int
      /\ cursor - RingSize <= sequence[c] /\ 0 .. sequence[c] \subseteq published
      /\ -1 <= sequence[c]
  BY Config DEF Inv, TypeInv, RunState, WindowInv, PositionInv
<1>3. ASSUME \A d \in Consumers : d # c => run'[d] = run[d] /\ sequence'[d] = sequence[d],
             cursor - RingSize <= sequence'[c], 0 .. sequence'[c] \subseteq published,
             run'[c].pc = "handle" =>
               /\ 0 .. run'[c].end \subseteq published
               /\ sequence'[c] < run'[c].at /\ run'[c].at <= run'[c].end + 1
      PROVE  WindowInv'
  <2>1. ASSUME NEW d \in Consumers
        PROVE  /\ cursor - RingSize <= sequence'[d] /\ 0 .. sequence'[d] \subseteq published
               /\ run'[d].pc = "handle" =>
                    /\ 0 .. run'[d].end \subseteq published
                    /\ sequence'[d] < run'[d].at /\ run'[d].at <= run'[d].end + 1
    <3>1. CASE d = c
      BY <1>3, <3>1
    <3>2. CASE d # c
      BY <1>3, <3>2 DEF WindowInv
    <3> QED
      BY <3>1, <3>2
  <2> QED
    BY <1>1, <2>1 DEF WindowInv
<1>4. CASE SelectBatch(c)
  <2> DEFINE end == Min({Max(Granted(c)), sequence[c] + BatchSize})
  <2>1. PICK e \in Granted(c) :
          end \in Int /\ sequence[c] < end /\ e \in Int /\ end <= e
    BY <1>2, <1>4, BatchEnd DEF SelectBatch
  <2>2. /\ run' = [run EXCEPT ![c].pc = "handle", ![c].at = Desired(c), ![c].end = end]
        /\ UNCHANGED sequence
    BY <1>4 DEF SelectBatch
  <2> HIDE DEF end
  <2>3. /\ \A d \in Consumers : d # c => run'[d] = run[d]
        /\ run'[c].end = end /\ run'[c].at = sequence[c] + 1
    BY <1>2, <2>2 DEF RunState, Desired
  <2>4. sequence[c] + 1 .. e \subseteq published
    BY <2>1 DEF Granted, Desired
  <2>5. ASSUME NEW s \in 0 .. end PROVE s \in published
    <3>1. s \in 0 .. sequence[c] \/ s \in sequence[c] + 1 .. e
      BY <1>2, <2>1
    <3> QED
      BY <1>2, <2>4, <3>1
  <2>6. sequence[c] < sequence[c] + 1 /\ sequence[c] + 1 <= end + 1
    BY <1>2, <2>1
  <2>7. 0 .. end \subseteq published
    BY <2>5
  <2> QED
    BY <1>2, <1>3, <2>2, <2>3, <2>6, <2>7
<1>5. CASE Handle(c)
  <2>1. /\ run[c].pc = "handle" /\ run[c].at <= run[c].end /\ UNCHANGED sequence
        /\ run' = [run EXCEPT ![c].at = run[c].at + 1]
    BY <1>5 DEF Handle
  <2>2. /\ \A d \in Consumers : d # c => run'[d] = run[d]
        /\ run'[c].end = run[c].end /\ run'[c].at = run[c].at + 1
    BY <1>2, <2>1 DEF RunState
  <2>3. 0 .. run[c].end \subseteq published /\ sequence[c] < run[c].at
    BY <2>1 DEF WindowInv
  <2>4. sequence[c] < run[c].at + 1 /\ run[c].at + 1 <= run[c].end + 1
    BY <1>2, <2>1, <2>3
  <2> QED
    BY <1>2, <1>3, <2>1, <2>2, <2>3, <2>4
<1>6. CASE Acknowledge(c)
  <2>1. /\ run[c].pc = "handle" /\ sequence' = [sequence EXCEPT ![c] = run[c].end]
        /\ run' = [run EXCEPT ![c].pc = "check"]
    BY <1>6 DEF Acknowledge
  <2>2. /\ \A d \in Consumers : d # c => run'[d] = run[d] /\ sequence'[d] = sequence[d]
        /\ run'[c].pc = "check" /\ sequence'[c] = run[c].end
    BY <1>2, <2>1 DEF RunState
  <2>3. 0 .. run[c].end \subseteq published /\ sequence[c] < run[c].end
    BY <2>1 DEF WindowInv, Inv, PositionInv
  <2>4. cursor - RingSize <= run[c].end
    BY <1>2, <2>3
  <2> QED
    BY <1>3, <2>2, <2>3, <2>4
<1>7. CASE StartRun(c) \/ CheckContext(c) \/ EndRun(c)
  <2>1. UNCHANGED sequence /\ run'[c].pc # "handle"
        /\ \A d \in Consumers : d # c => run'[d] = run[d]
    BY <1>2, <1>7 DEF StartRun, CheckContext, EndRun, RunState
  <2> QED
    BY <1>2, <1>3, <2>1
<1> QED
  BY <1>4, <1>5, <1>6, <1>7 DEF RunStep

LEMMA WindowStep ==
  ASSUME Inv, WindowInv, [Next]_vars
  PROVE  WindowInv'
<1>1. CASE MainStep
  <2>1. TypeInv
    BY DEF Inv
  <2>2. \A p \in Producers : (Held(p))' => Held(p) /\ pub'[p] = pub[p]
    <3>1. CASE pub' = pub
      BY <3>1 DEF Held
    <3>2. CASE pub' = Spawned
      BY <3>2 DEF Spawned, Held
    <3> QED
      BY <1>1, <2>1, <3>1, <3>2, MainStepFrame
  <2> QED
    BY <1>1, <2>1, <2>2, MainStepFrame DEF WindowInv
<1>2. CASE TimeOut \/ UNCHANGED vars
  <2>1. UNCHANGED <<pub, run, sequence, cursor, published>>
    BY <1>2 DEF TimeOut, mainVars, ringVars, runVars, vars
  <2> QED
    BY <2>1 DEF WindowInv, Held
<1> QED
  BY <1>1, <1>2, PublisherStepWindow, RunStepWindow DEF Next

-----------------------------------------------------------------------------
(* What the slots hold. *)
LEMMA EntryInit == Init => EntryInv
BY DEF Init, EntryInv

(* Write touches no other slot within a lap. *)
LEMMA WriteFrame ==
  ASSUME Inv, WindowInv, DataInv, NEW p \in Producers, Write(p)
  PROVE  /\ \A a \in Nat : a # pub[p].sequence /\ cursor - RingSize < a /\ a <= cursor =>
              entries'[a % RingSize] = entries[a % RingSize]
         /\ entries'[pub[p].sequence % RingSize].payload = pub[p].sequence % 256
         /\ entries'[pub[p].sequence % RingSize].sampled =
              (main.measured /\ Latency /\ pub[p].index % SampleEvery = 0)
<1> DEFINE s == pub[p].sequence
           n == pub[p].sequence % 256
           m == main.measured /\ Latency /\ pub[p].index % SampleEvery = 0
           v == [payload |-> n, sampled |-> m]
<1>1. TypeInv /\ PositionInv /\ Held(p)
  BY DEF Inv, Write, Held
<1>2. s \in Nat /\ s <= cursor /\ cursor - RingSize < s
  BY <1>1, HeldInWindow
<1>3. entries' = [entries EXCEPT ![s % RingSize] = v]
  BY DEF Write
<1> HIDE DEF m, n, v, s
<1>4. /\ s % RingSize \in Slots /\ DOMAIN entries = Slots
      /\ \A a \in Nat : a % RingSize \in Slots
  BY <1>2, SlotType DEF DataInv
<1>5. \A a \in Nat : a # s /\ cursor - RingSize < a /\ a <= cursor =>
        entries'[a % RingSize] = entries[a % RingSize]
  BY <1>1, <1>2, <1>3, <1>4, SlotsDiffer
<1>6. entries'[s % RingSize] = v
  BY <1>3, <1>4
<1>7. entries'[s % RingSize].payload = n /\ entries'[s % RingSize].sampled = m
  BY <1>6 DEF v
<1> QED
  BY <1>5, <1>7 DEF m, n, s

LEMMA EntryStep ==
  ASSUME Inv, WindowInv, DataInv, EntryInv, [Next]_vars
  PROVE  EntryInv'
<1>1. /\ TypeInv /\ PositionInv /\ cursor \in Int /\ RingSize \in Nat \ {0}
      /\ pub \in [Producers -> PubState] /\ published \subseteq 0 .. cursor
  BY Config DEF Inv, TypeInv, PositionInv
<1>2. ASSUME UNCHANGED <<cursor, published, entries>>,
             \A p \in Producers : pub'[p].pc = "publish" => pub'[p] = pub[p]
      PROVE  EntryInv'
  BY <1>2 DEF EntryInv
<1>3. ASSUME NEW p \in Producers, Claim(p) PROVE EntryInv'
  <2>1. /\ cursor' = cursor + 1 /\ UNCHANGED <<published, entries>>
        /\ pub' = [pub EXCEPT ![p].pc = "write", ![p].sequence = cursor + 1]
    BY <1>3 DEF Claim
  <2>2. \A q \in Producers : pub'[q].pc = "publish" => pub'[q] = pub[q]
    BY <1>1, <2>1 DEF PubState
  <2>3. \A s \in published : cursor' - RingSize < s => cursor - RingSize < s
    BY <1>1, <2>1
  <2> QED
    BY <2>1, <2>2, <2>3 DEF EntryInv
<1>4. ASSUME NEW p \in Producers, Write(p) PROVE EntryInv'
  <2>1. /\ UNCHANGED <<published, cursor>> /\ pub[p].pc = "write"
        /\ pub' = [pub EXCEPT ![p].pc = "publish"]
    BY <1>4 DEF Write
  <2>2. /\ Held(p) /\ pub'[p].sequence = pub[p].sequence
        /\ \A q \in Producers : q # p => pub'[q] = pub[q]
    BY <1>1, <2>1 DEF PubState, Held
  <2>3. ASSUME NEW s \in published, cursor - RingSize < s
        PROVE  entries'[s % RingSize].payload = s % 256
    <3>1. s \in Nat /\ s <= cursor /\ s # pub[p].sequence
      BY <1>1, <2>2, HeldInWindow
    <3>2. entries'[s % RingSize] = entries[s % RingSize]
      BY <1>4, <2>3, <3>1, WriteFrame
    <3> QED
      BY <2>3, <3>2 DEF EntryInv
  <2>4. ASSUME NEW q \in Producers, pub'[q].pc = "publish"
        PROVE  entries'[pub'[q].sequence % RingSize].payload = pub'[q].sequence % 256
    <3>1. CASE q = p
      <4>1. entries'[pub[p].sequence % RingSize].payload = pub[p].sequence % 256
        BY <1>4, WriteFrame
      <4> QED
        BY <2>2, <3>1, <4>1
    <3>2. CASE q # p
      <4>1. pub'[q] = pub[q] /\ Held(q) /\ pub[q].sequence # pub[p].sequence
        BY <2>2, <2>4, <3>2 DEF WindowInv, Held
      <4>2. /\ pub[q].sequence \in Nat /\ pub[q].sequence <= cursor
            /\ cursor - RingSize < pub[q].sequence
        BY <1>1, <4>1, HeldInWindow
      <4>3. entries'[pub[q].sequence % RingSize] = entries[pub[q].sequence % RingSize]
        BY <1>4, <4>1, <4>2, WriteFrame
      <4> QED
        BY <2>4, <4>1, <4>3 DEF EntryInv
    <3> QED
      BY <3>1, <3>2
  <2> QED
    BY <2>1, <2>3, <2>4 DEF EntryInv
<1>5. ASSUME NEW p \in Producers, Publish(p) PROVE EntryInv'
  <2>1. /\ published' = published \cup {pub[p].sequence} /\ UNCHANGED <<cursor, entries>>
        /\ pub[p].pc = "publish" /\ pub'[p].pc = "claim"
        /\ \A q \in Producers : q # p => pub'[q] = pub[q]
    BY <1>1, <1>5 DEF Publish, PubState
  <2> QED
    BY <2>1 DEF EntryInv
<1>6. ASSUME NEW p \in Producers, EndPublisher(p) PROVE EntryInv'
  BY <1>1, <1>2, <1>6 DEF EndPublisher, ringVars, PubState
<1>7. ASSUME NEW c \in Consumers, RunStep(c) PROVE EntryInv'
  BY <1>2, <1>7 DEF RunStep, ringVars
<1>8. CASE MainStep
  <2>1. UNCHANGED entries
    BY <1>8
    DEF MainStep, StartProcessors, JoinPublishers, AwaitSequence, AwaitFails,
        ClearChecksums, Cancel, HaltProcessor, JoinProcessor, EndStop, Report, ringVars
  <2>2. \A p \in Producers : pub'[p].pc = "publish" => pub'[p] = pub[p]
    BY <1>1, <1>8, MainStepFrame DEF Spawned
  <2> QED
    BY <1>1, <1>2, <1>8, <2>1, <2>2, MainStepFrame
<1>9. CASE TimeOut \/ UNCHANGED vars
  BY <1>2, <1>9 DEF TimeOut, ringVars, vars
<1> QED
  BY <1>3, <1>4, <1>5, <1>6, <1>7, <1>8, <1>9 DEF Next, PublisherStep

-----------------------------------------------------------------------------
(* How far the handlers are. *)
LEMMA ReachedType ==
  ASSUME TypeInv, PositionInv, WindowInv, NEW c \in Consumers
  PROVE  /\ Reached(c) \in Int /\ sequence[c] <= Reached(c) /\ Reached(c) <= cursor
         /\ -1 <= Reached(c) /\ cursor - RingSize <= Reached(c)
<1>1. /\ sequence[c] \in Int /\ run[c].at \in Int /\ run[c].end \in Int
      /\ cursor \in Int /\ RingSize \in Nat
      /\ sequence[c] <= cursor /\ -1 <= sequence[c] /\ cursor - RingSize <= sequence[c]
  BY Config DEF TypeInv, RunState, PositionInv, WindowInv
<1>2. CASE run[c].pc = "handle"
  <2>1. /\ sequence[c] < run[c].at /\ run[c].at <= run[c].end + 1 /\ run[c].end <= cursor
        /\ Reached(c) = run[c].at - 1
    BY <1>2 DEF WindowInv, PositionInv, Reached
  <2> QED
    BY <1>1, <2>1
<1>3. CASE run[c].pc # "handle"
  BY <1>1, <1>3 DEF Reached
<1> QED
  BY <1>2, <1>3

(* A handler call is about the next sequence, which is published. *)
LEMMA HandleNext ==
  ASSUME TypeInv, PositionInv, WindowInv, NEW c \in Consumers, Handle(c)
  PROVE  /\ run[c].at = Reached(c) + 1 /\ run[c].at \in published /\ run[c].at \in Nat
         /\ cursor - RingSize < run[c].at /\ run[c].at <= cursor
<1>1. /\ sequence[c] \in Int /\ run[c].at \in Int /\ run[c].end \in Int
      /\ cursor \in Int /\ RingSize \in Nat
      /\ -1 <= sequence[c] /\ cursor - RingSize <= sequence[c]
  BY Config DEF TypeInv, RunState, PositionInv, WindowInv
<1>2. /\ run[c].pc = "handle" /\ run[c].at <= run[c].end /\ sequence[c] < run[c].at
      /\ run[c].end <= cursor /\ 0 .. run[c].end \subseteq published
  BY DEF Handle, WindowInv, PositionInv
<1>3. run[c].at \in 0 .. run[c].end
  BY <1>1, <1>2
<1>4. Reached(c) = run[c].at - 1
  BY <1>2 DEF Reached
<1> QED
  BY <1>1, <1>2, <1>3, <1>4

LEMMA RunStepReached ==
  ASSUME Inv, WindowInv, NEW c \in Consumers, RunStep(c)
  PROVE  /\ \A d \in Consumers : d # c => (Reached(d))' = Reached(d)
         /\ \/ Handle(c) /\ (Reached(c))' = Reached(c) + 1
            \/ UNCHANGED tallies /\ (Reached(c))' = Reached(c)
<1>1. /\ run \in [Consumers -> RunState] /\ sequence \in [Consumers -> Int]
      /\ run[c].at \in Int /\ run[c].end \in Int /\ sequence[c] \in Int
  BY DEF Inv, TypeInv, RunState
<1>2. ASSUME NEW d \in Consumers, d # c PROVE (Reached(d))' = Reached(d)
  <2>1. run'[d] = run[d] /\ sequence'[d] = sequence[d]
    BY <1>1, <1>2
    DEF RunStep, StartRun, CheckContext, SelectBatch, Handle, Acknowledge, EndRun
  <2> QED
    BY <2>1 DEF Reached
<1>3. CASE StartRun(c) \/ CheckContext(c) \/ EndRun(c)
  <2>1. /\ run[c].pc # "handle" /\ run'[c].pc # "handle" /\ UNCHANGED <<sequence, tallies>>
    BY <1>1, <1>3 DEF StartRun, CheckContext, EndRun, RunState
  <2> QED
    BY <1>2, <2>1 DEF Reached
<1>4. CASE SelectBatch(c)
  <2> DEFINE end == Min({Max(Granted(c)), sequence[c] + BatchSize})
  <2>1. /\ run' = [run EXCEPT ![c].pc = "handle", ![c].at = Desired(c), ![c].end = end]
        /\ UNCHANGED <<sequence, tallies>> /\ run[c].pc = "wait"
    BY <1>4 DEF SelectBatch
  <2> HIDE DEF end
  <2>2. run'[c].pc = "handle" /\ run'[c].at = sequence[c] + 1
    BY <1>1, <2>1 DEF RunState, Desired
  <2>3. (Reached(c))' = Reached(c)
    BY <1>1, <2>1, <2>2 DEF Reached
  <2> QED
    BY <1>2, <2>1, <2>3
<1>5. CASE Handle(c)
  <2>1. /\ run[c].pc = "handle" /\ run'[c].pc = "handle" /\ run'[c].at = run[c].at + 1
    BY <1>1, <1>5 DEF Handle, RunState
  <2>2. (Reached(c))' = Reached(c) + 1
    BY <1>1, <2>1 DEF Reached
  <2> QED
    BY <1>2, <1>5, <2>2
<1>6. CASE Acknowledge(c)
  <2>1. /\ run[c].pc = "handle" /\ run'[c].pc = "check" /\ sequence'[c] = run[c].end
        /\ run[c].at > run[c].end /\ UNCHANGED tallies
    BY <1>1, <1>6 DEF Acknowledge, RunState
  <2>2. run[c].at <= run[c].end + 1
    BY <2>1 DEF WindowInv
  <2>3. run[c].at - 1 = run[c].end
    BY <1>1, <2>1, <2>2
  <2>4. (Reached(c))' = Reached(c)
    BY <2>1, <2>3 DEF Reached
  <2> QED
    BY <1>2, <2>1, <2>4
<1> QED
  BY <1>3, <1>4, <1>5, <1>6 DEF RunStep

LEMMA MainStepReached ==
  ASSUME Inv, MainStep, NEW c \in Consumers
  PROVE  (Reached(c))' = Reached(c)
<1>1. TypeInv /\ run \in [Consumers -> RunState] /\ sequence' = sequence
  BY MainStepFrame DEF Inv, TypeInv
<1>2. CASE StartProcessors
  <2>1. run[c].pc # "handle" /\ run'[c].pc = "new"
    BY <1>1, <1>2 DEF StartProcessors, Inv, LifeInv, JoinInv, RunState
  <2> QED
    BY <1>1, <2>1 DEF Reached
<1>3. CASE HaltProcessor
  <2>1. run'[c].pc = run[c].pc /\ run'[c].at = run[c].at
    BY <1>1, <1>3 DEF HaltProcessor, RunState
  <2> QED
    BY <1>1, <2>1 DEF Reached
<1>4. CASE UNCHANGED run
  BY <1>1, <1>4 DEF Reached
<1> QED
  BY <1>2, <1>3, <1>4
  DEF MainStep, JoinPublishers, AwaitSequence, AwaitFails, ClearChecksums, Cancel,
      JoinProcessor, EndStop, Report, runVars

(* The phase changes only where runOnce clears the checksums. *)
LEMMA MainStepPhase ==
  ASSUME Inv, MainStep
  PROVE  \/ ClearChecksums
         \/ /\ main'.measured = main.measured /\ UNCHANGED <<entries, tallies>>
            /\ main.measured => UNCHANGED pub
<1>1. main \in MainState
  BY DEF Inv, TypeInv
<1>2. CASE StartProcessors
  BY <1>1, <1>2 DEF StartProcessors, MainState, Inv, AwaitInv, ringVars
<1>3. CASE JoinPublishers \/ AwaitSequence \/ AwaitFails
  BY <1>1, <1>3
  DEF JoinPublishers, AwaitSequence, AwaitFails, Awaited, MainState, ringVars, runVars
<1>4. CASE Cancel \/ HaltProcessor \/ JoinProcessor \/ EndStop \/ Report
  BY <1>1, <1>4
  DEF Cancel, HaltProcessor, JoinProcessor, EndStop, Report, MainState, ringVars, runVars
<1> QED
  BY <1>2, <1>3, <1>4 DEF MainStep

-----------------------------------------------------------------------------
(* The checksums. *)
LEMMA SumInit == Init => SumInv
BY DEF Init, SumInv

LEMMA SumStep ==
  ASSUME Inv, DataInv, WindowInv, EntryInv, SumInv, [Next]_vars
  PROVE  SumInv'
<1>1. TypeInv /\ PositionInv /\ AwaitInv /\ CountInv /\ WarmupEvents \in Nat
  BY Config DEF Inv
<1>2. ASSUME main'.measured = main.measured, UNCHANGED checksums,
             \A c \in Consumers : (Reached(c))' = Reached(c)
      PROVE  SumInv'
  BY <1>2, Zenon DEF SumInv
<1>3. ASSUME NEW c \in Consumers, RunStep(c) PROVE SumInv'
  <2>1. main' = main
    BY <1>3 DEF RunStep
  <2>2. CASE Handle(c) /\ (Reached(c))' = Reached(c) + 1
    <3> SUFFICES ASSUME main.measured, NEW d \in Consumers
                 PROVE  /\ WarmupEvents - 1 <= (Reached(d))'
                        /\ checksums'[d] = Sum(WarmupEvents .. (Reached(d))')
      BY <2>1 DEF SumInv
    <3>1. WarmupEvents - 1 <= Reached(d) /\ checksums[d] = Sum(WarmupEvents .. Reached(d))
      BY DEF SumInv
    <3>2. /\ run[c].at = Reached(c) + 1 /\ Reached(c) \in Int
          /\ run[c].at \in published /\ cursor - RingSize < run[c].at
      BY <1>1, <2>2, HandleNext, ReachedType
    <3>3. /\ checksums' = [checksums EXCEPT ![c] =
               checksums[c] + entries[run[c].at % RingSize].payload]
          /\ checksums \in [Consumers -> Int]
      BY <2>2 DEF Handle, DataInv
    <3>4. CASE d # c
      <4>1. (Reached(d))' = Reached(d) /\ checksums'[d] = checksums[d]
        BY <1>3, <3>3, <3>4, RunStepReached
      <4> QED
        BY <3>1, <4>1
    <3>5. CASE d = c
      <4>1. checksums'[c] = checksums[c] + (run[c].at % 256)
        BY <3>2, <3>3 DEF EntryInv
      <4> DEFINE n == Reached(c)
      <4>2. n \in Int /\ WarmupEvents - 1 <= n /\ checksums[c] = Sum(WarmupEvents .. n)
            /\ run[c].at = n + 1
        BY <3>1, <3>2, <3>5
      <4> HIDE DEF n
      <4>3. Sum(WarmupEvents .. n + 1) = Sum(WarmupEvents .. n) + ((n + 1) % 256)
        BY <1>1, <4>2, SumNext
      <4>4. checksums'[c] = Sum(WarmupEvents .. n + 1)
        BY <4>1, <4>2, <4>3
      <4>5. WarmupEvents - 1 <= n + 1
        BY <1>1, <4>2
      <4> QED
        BY <2>2, <3>5, <4>4, <4>5 DEF n
    <3> QED
      BY <3>4, <3>5
  <2>3. CASE UNCHANGED tallies /\ (Reached(c))' = Reached(c)
    <3>1. \A d \in Consumers : (Reached(d))' = Reached(d)
      BY <1>3, <2>3, RunStepReached
    <3> QED
      BY <1>2, <2>1, <2>3, <3>1 DEF tallies
  <2> QED
    BY <1>3, <2>2, <2>3, RunStepReached
<1>4. CASE MainStep
  <2>1. \A c \in Consumers : (Reached(c))' = Reached(c)
    BY <1>4, MainStepReached
  <2>2. CASE ClearChecksums
    <3>1. ASSUME NEW c \in Consumers
          PROVE  /\ WarmupEvents - 1 <= (Reached(c))'
                 /\ checksums'[c] = Sum(WarmupEvents .. (Reached(c))')
      <4>1. Reached(c) = WarmupEvents - 1
        BY <1>1, <2>2, WarmupDrained DEF ClearChecksums, Reached
      <4>2. checksums'[c] = 0
        BY <2>2 DEF ClearChecksums
      <4>3. Sum(WarmupEvents .. WarmupEvents - 1) = 0
            /\ WarmupEvents - 1 <= WarmupEvents - 1
        BY <1>1, SumNone
      <4>4. (Reached(c))' = WarmupEvents - 1
        BY <2>1, <4>1
      <4> QED
        BY <4>2, <4>3, <4>4
    <3> QED
      BY <3>1 DEF SumInv
  <2>3. CASE main'.measured = main.measured /\ UNCHANGED tallies
    BY <1>2, <2>1, <2>3 DEF tallies
  <2> QED
    BY <1>4, <2>2, <2>3, MainStepPhase
<1>5. ASSUME UNCHANGED <<main, run, sequence, checksums>> PROVE SumInv'
  <2>1. \A c \in Consumers : (Reached(c))' = Reached(c)
    BY <1>5 DEF Reached
  <2> QED
    BY <1>2, <1>5, <2>1
<1>6. CASE TimeOut \/ UNCHANGED vars
  BY <1>5, <1>6 DEF TimeOut, mainVars, runVars, tallies, vars
<1>7. ASSUME NEW p \in Producers, PublisherStep(p) PROVE SumInv'
  BY <1>5, <1>7 DEF PublisherStep, mainVars, runVars, tallies
<1> QED
  BY <1>3, <1>4, <1>6, <1>7 DEF Next

-----------------------------------------------------------------------------
(* The samples. *)
LEMMA SampleInit == Init => SampleInv
BY DEF Init, SampleInv, Slots

LEMMA PendingFinite ==
  ASSUME TypeInv, PositionInv, WindowInv, NEW c \in Consumers
  PROVE  IsFiniteSet(Pending(c)) /\ Cardinality(Pending(c)) \in Nat
<1>1. Reached(c) + 1 \in Int /\ cursor \in Int
  BY ReachedType DEF TypeInv
<1>2. IsFiniteSet(Reached(c) + 1 .. cursor)
  BY <1>1, FS_Interval
<1>3. Pending(c) \subseteq Reached(c) + 1 .. cursor
  BY DEF Pending
<1> QED
  BY <1>2, <1>3, FS_Subset, FS_CardinalityType

LEMMA SampledFinite == IsFiniteSet(Sampled) /\ Cardinality(Sampled) \in Nat
<1>1. Sampled \subseteq Taken
  BY DEF Sampled
<1> QED
  BY <1>1, TakenFinite, FS_Subset, FS_CardinalityType

(* A pending sequence is claimed and lies within a lap of the cursor. *)
LEMMA PendingInWindow ==
  ASSUME TypeInv, PositionInv, WindowInv, NEW c \in Consumers,
         NEW s \in Reached(c) + 1 .. cursor
  PROVE  s \in Nat /\ cursor - RingSize < s /\ s <= cursor
<1>1. /\ Reached(c) \in Int /\ -1 <= Reached(c) /\ cursor - RingSize <= Reached(c)
      /\ cursor \in Int /\ RingSize \in Nat
  BY ReachedType, Config DEF TypeInv
<1> QED
  BY <1>1

(* A claim adds its sequence, as a sample if its index is one. *)
LEMMA ClaimSamples ==
  ASSUME Inv, WindowInv, SampleInv, NEW p \in Producers, PublisherStep(p), Claim(p),
         NEW c \in Consumers
  PROVE  \E n \in {0, 1} :
           /\ Cardinality((Pending(c))') = Cardinality(Pending(c)) + n
           /\ Cardinality(Sampled') = Cardinality(Sampled) + n
<1> DEFINE i == pub[p].index
<1>1. /\ TypeInv /\ PositionInv /\ CountInv /\ cursor \in Int
      /\ pub \in [Producers -> PubState]
  BY DEF Inv, TypeInv
<1>2. /\ cursor' = cursor + 1 /\ UNCHANGED <<entries, run, sequence>>
      /\ pub[p].pc = "claim"
      /\ pub' = [pub EXCEPT ![p].pc = "write", ![p].sequence = cursor + 1]
  BY DEF Claim, PublisherStep, runVars
<1>3. /\ pub'[p].pc = "write" /\ pub'[p].sequence = cursor + 1 /\ pub'[p].index = i
      /\ \A q \in Producers : q # p => pub'[q] = pub[q]
  BY <1>1, <1>2 DEF PubState
<1>4. i \notin Taken /\ Taken' = Taken \cup {i}
  <2>1. cursor' # cursor
    BY <1>1, <1>2
  <2> QED
    BY <1>1, <2>1, PublisherStepCount
<1>5. /\ (Reached(c))' = Reached(c) /\ Reached(c) \in Int /\ Reached(c) <= cursor
  BY <1>1, <1>2, ReachedType DEF Reached
<1>6. PICK k \in Int : k = cursor + 1
  BY <1>1
<1>7. PICK r \in Int : r = Reached(c) + 1
  BY <1>5
<1>8. ASSUME NEW s \in Int, s # k PROVE (Flag(s))' <=> Flag(s)
  <2>1. \A q \in Producers : (Writing(q, s))' <=> Writing(q, s)
    BY <1>2, <1>3, <1>6, <1>8 DEF Writing
  <2>2. \A q \in Producers : (Writing(q, s))' => pub'[q].index = pub[q].index
    BY <1>3, <1>6, <1>8 DEF Writing
  <2> QED
    BY <1>2, <2>1, <2>2 DEF Flag
<1>9. (Flag(k))' <=> i % SampleEvery = 0
  <2>1. \A q \in Producers : (Writing(q, k))' <=> q = p
    <3>1. \A q \in Producers : pub[q].pc = "write" => pub[q].sequence # k
      BY <1>1, <1>6 DEF PositionInv, TypeInv, PubState
    <3> QED
      BY <1>3, <1>6, <3>1 DEF Writing
  <2> QED
    BY <1>3, <2>1 DEF Flag
<1>10. /\ \A s : s \in (Pending(c))' <=> s \in Int /\ r <= s /\ s <= k /\ (Flag(s))'
       /\ \A s : s \in Pending(c) <=> s \in Int /\ r <= s /\ s < k /\ Flag(s)
       /\ r <= k
  <2>1. (Pending(c))' = {s \in r .. k : (Flag(s))'}
    BY <1>2, <1>5, <1>6, <1>7 DEF Pending
  <2>2. Pending(c) = {s \in r .. cursor : Flag(s)}
    BY <1>7 DEF Pending
  <2>3. \A s \in Int : s <= cursor <=> s < k
    BY <1>1, <1>6
  <2>4. r <= k
    BY <1>1, <1>5, <1>6, <1>7
  <2> QED
    BY <1>1, <2>1, <2>2, <2>3, <2>4
<1>11. ASSUME i % SampleEvery = 0
       PROVE  /\ (Pending(c))' = Pending(c) \cup {k} /\ k \notin Pending(c)
              /\ Sampled' = Sampled \cup {i} /\ i \notin Sampled
  <2> DEFINE after == (Pending(c))'
             before == Pending(c)
  <2>1. \A s : s \in after <=> s \in before \/ s = k
    <3>1. ASSUME NEW s \in Int, s # k PROVE s \in after <=> s \in before
      <4>1. s <= k <=> s < k
        BY <3>1
      <4> QED
        BY <1>8, <1>10, <3>1, <4>1
    <3>2. k \in after
      BY <1>9, <1>10, <1>11
    <3>3. \A s : s \in after \/ s \in before => s \in Int
      BY <1>10
    <3> HIDE DEF after, before
    <3> QED
      BY <3>1, <3>2, <3>3
  <2>2. k \notin before
    BY <1>10
  <2> HIDE DEF after, before
  <2>3. after = before \cup {k}
    BY <2>1
  <2>4. Sampled' = Sampled \cup {i} /\ i \notin Sampled
    BY <1>3, <1>4, <1>11 DEF Sampled
  <2> QED
    BY <2>2, <2>3, <2>4 DEF after, before
<1>12. ASSUME i % SampleEvery # 0
       PROVE  (Pending(c))' = Pending(c) /\ Sampled' = Sampled
  <2> DEFINE after == (Pending(c))'
             before == Pending(c)
  <2>1. \A s : s \in after <=> s \in before
    <3>1. ASSUME NEW s \in Int, s # k PROVE s \in after <=> s \in before
      <4>1. s <= k <=> s < k
        BY <3>1
      <4> QED
        BY <1>8, <1>10, <3>1, <4>1
    <3>2. k \notin after /\ k \notin before
      BY <1>9, <1>10, <1>12
    <3>3. \A s : s \in after \/ s \in before => s \in Int
      BY <1>10
    <3> HIDE DEF after, before
    <3> QED
      BY <3>1, <3>2, <3>3
  <2> HIDE DEF after, before
  <2>2. after = before
    BY <2>1
  <2>3. Sampled' = Sampled
    BY <1>4, <1>12 DEF Sampled
  <2> QED
    BY <2>2, <2>3 DEF after, before
<1>13. /\ IsFiniteSet(Pending(c)) /\ Cardinality(Pending(c)) \in Nat
       /\ IsFiniteSet(Sampled) /\ Cardinality(Sampled) \in Nat
  BY <1>1, PendingFinite, SampledFinite
<1>14. CASE i % SampleEvery = 0
  <2> DEFINE after == (Pending(c))'
             before == Pending(c)
             new == Sampled'
             old == Sampled
  <2>1. /\ after = before \cup {k} /\ k \notin before /\ new = old \cup {i} /\ i \notin old
        /\ IsFiniteSet(before) /\ IsFiniteSet(old)
        /\ Cardinality(before) \in Nat /\ Cardinality(old) \in Nat
    BY <1>13, <1>14, <1>11
  <2> HIDE DEF after, before, new, old, i
  <2>2. Cardinality(after) = Cardinality(before) + 1 /\ Cardinality(new) = Cardinality(old) + 1
    BY <2>1, FS_AddElement
  <2> QED
    BY <2>2 DEF after, before, new, old
<1>15. CASE i % SampleEvery # 0
  BY <1>13, <1>15, <1>12
<1> QED
  BY <1>14, <1>15

(* Writing the event settles what the claim promised. *)
LEMMA WriteKeepsFlag ==
  ASSUME Inv, DataInv, WindowInv, NEW p \in Producers, Write(p), main.measured, Latency,
         NEW s \in Nat, cursor - RingSize < s, s <= cursor
  PROVE  (Flag(s))' <=> Flag(s)
<1>1. /\ TypeInv /\ PositionInv /\ pub \in [Producers -> PubState]
  BY DEF Inv, TypeInv
<1>2. /\ pub[p].pc = "write" /\ pub' = [pub EXCEPT ![p].pc = "publish"]
  BY DEF Write
<1>3. /\ pub'[p].pc = "publish" /\ \A q \in Producers : q # p => pub'[q] = pub[q]
      /\ Held(p)
  BY <1>1, <1>2 DEF PubState, Held
<1>4. CASE s # pub[p].sequence
  <2>1. entries'[s % RingSize] = entries[s % RingSize]
    BY <1>4, WriteFrame
  <2>2. \A q \in Producers : (Writing(q, s))' <=> Writing(q, s)
    BY <1>3, <1>4 DEF Writing
  <2>3. \A q \in Producers : (Writing(q, s))' => pub'[q].index = pub[q].index
    BY <1>3 DEF Writing
  <2> QED
    BY <2>1, <2>2, <2>3 DEF Flag
<1>5. CASE s = pub[p].sequence
  <2>1. \A q \in Producers : Writing(q, s) <=> q = p
    BY <1>2, <1>3, <1>5 DEF Writing, WindowInv, Held
  <2>2. \A q \in Producers : ~(Writing(q, s))'
    BY <1>3, <2>1 DEF Writing
  <2>3. entries'[s % RingSize].sampled = (pub[p].index % SampleEvery = 0)
    BY <1>5, WriteFrame
  <2> QED
    BY <2>1, <2>2, <2>3 DEF Flag
<1> QED
  BY <1>4, <1>5

(* A handler call counts the sample it takes from what is pending. *)
LEMMA HandleSamples ==
  ASSUME Inv, DataInv, WindowInv, SampleInv, NEW c \in Consumers, RunStep(c), Handle(c),
         main.measured, Records(c)
  PROVE  latencies'[c] + Cardinality((Pending(c))') = latencies[c] + Cardinality(Pending(c))
<1> DEFINE n == run[c].at
<1>1. /\ TypeInv /\ PositionInv /\ cursor \in Int
  BY DEF Inv, TypeInv
<1>2. /\ n = Reached(c) + 1 /\ n \in published /\ n \in Nat /\ n <= cursor
      /\ Reached(c) \in Int
  BY <1>1, HandleNext, ReachedType
<1>3. UNCHANGED <<cursor, pub, entries>> /\ (Reached(c))' = n
  <2>1. run[c].pc = "handle" /\ run'[c].pc = "handle" /\ run'[c].at = n + 1
    BY <1>1 DEF Handle, TypeInv, RunState
  <2>2. (Reached(c))' = run'[c].at - 1
    BY <2>1 DEF Reached
  <2> QED
    BY <1>2, <2>1, <2>2 DEF RunStep, ringVars
<1>4. \A s : (Flag(s))' = Flag(s)
  BY <1>3 DEF Flag, Writing
<1>5. Flag(n) = entries[n % RingSize].sampled
  <2>1. \A q \in Producers : ~Writing(q, n)
    BY <1>2 DEF Writing, WindowInv, Held
  <2> QED
    BY <2>1 DEF Flag
<1>6. /\ latencies' = [latencies EXCEPT ![c] =
           IF Records(c) /\ entries[n % RingSize].sampled THEN latencies[c] + 1 ELSE latencies[c]]
      /\ latencies \in [Consumers -> Int]
  BY DEF Handle, DataInv
<1>7. (Pending(c))' = {s \in n + 1 .. cursor : Flag(s)}
  BY <1>3, <1>4 DEF Pending
<1>8. Pending(c) = {s \in n .. cursor : Flag(s)}
  BY <1>2 DEF Pending
<1>9. IsFiniteSet(Pending(c)) /\ Cardinality(Pending(c)) \in Nat
  BY <1>1, PendingFinite
<1>10. CASE Flag(n)
  <2>1. n \in Pending(c) /\ (Pending(c))' = Pending(c) \ {n}
    BY <1>1, <1>2, <1>7, <1>8, <1>10
  <2>2. Cardinality((Pending(c))') = Cardinality(Pending(c)) - 1
    <3> DEFINE before == Pending(c)
    <3>1. IsFiniteSet(before) /\ n \in before /\ (Pending(c))' = before \ {n}
      BY <1>9, <2>1
    <3> HIDE DEF before, n
    <3>2. Cardinality(before \ {n}) = Cardinality(before) - 1
      BY <3>1, FS_RemoveElement
    <3> QED
      BY <3>1, <3>2 DEF before
  <2>3. latencies'[c] = latencies[c] + 1 /\ latencies[c] \in Int
    BY <1>5, <1>6, <1>10
  <2> QED
    BY <1>9, <2>2, <2>3
<1>11. CASE ~Flag(n)
  <2>1. (Pending(c))' = Pending(c)
    BY <1>1, <1>2, <1>7, <1>8, <1>11
  <2>2. latencies'[c] = latencies[c]
    BY <1>5, <1>6, <1>11
  <2> QED
    BY <2>1, <2>2
<1> QED
  BY <1>10, <1>11

LEMMA RecordsKept ==
  ASSUME main'.topology = main.topology
  PROVE  \A c : (Records(c))' = Records(c)
BY DEF Records, Terminal, Pipeline

(* A step that moves no sample. *)
LEMMA SampleFrame ==
  ASSUME SampleInv, main'.measured = main.measured, main'.topology = main.topology,
         UNCHANGED <<entries, latencies>>,
         main.measured => Sampled' = Sampled /\ \A c \in Consumers : (Pending(c))' = Pending(c)
  PROVE  SampleInv'
<1>1. \A c : (Records(c))' = Records(c)
  BY RecordsKept
<1>2. (~main.measured => \A i \in Slots : ~entries[i].sampled)'
  BY DEF SampleInv
<1>3. (\A c \in Consumers : ~main.measured \/ ~Records(c) => latencies[c] = 0)'
  BY <1>1 DEF SampleInv
<1>4. ASSUME main'.measured, NEW c \in Consumers, (Records(c))'
      PROVE  latencies'[c] + Cardinality((Pending(c))') = Cardinality(Sampled')
  <2>1. latencies[c] + Cardinality(Pending(c)) = Cardinality(Sampled)
    BY <1>1, <1>4 DEF SampleInv
  <2>2. Sampled' = Sampled /\ (Pending(c))' = Pending(c) /\ latencies' = latencies
    BY <1>4
  <2> QED
    BY <2>1, <2>2
<1> QED
  BY <1>2, <1>3, <1>4 DEF SampleInv

LEMMA PendingFrame ==
  ASSUME UNCHANGED <<cursor, entries, pub>>, NEW c \in Consumers, (Reached(c))' = Reached(c)
  PROVE  (Pending(c))' = Pending(c)
<1>1. \A s : (Flag(s))' = Flag(s)
  BY DEF Flag, Writing
<1> QED
  BY <1>1 DEF Pending

LEMMA PublisherStepSample ==
  ASSUME Inv, DataInv, WindowInv, SampleInv, NEW p \in Producers, PublisherStep(p)
  PROVE  SampleInv'
<1>1. /\ TypeInv /\ PositionInv /\ CountInv /\ UNCHANGED <<main, run, sequence, latencies>>
      /\ cursor \in Int /\ pub \in [Producers -> PubState]
  BY DEF Inv, TypeInv, PublisherStep, mainVars, runVars, tallies
<1>2. \A c : (Records(c))' = Records(c)
  BY <1>1, RecordsKept
<1>3. \A c \in Consumers : (Reached(c))' = Reached(c)
  BY <1>1 DEF Reached
<1>4. CASE Claim(p)
  <2>1. UNCHANGED entries
    BY <1>4 DEF Claim
  <2>2. (~main.measured => \A i \in Slots : ~entries[i].sampled)'
    BY <1>1, <2>1 DEF SampleInv
  <2>3. (\A c \in Consumers : ~main.measured \/ ~Records(c) => latencies[c] = 0)'
    BY <1>1, <1>2 DEF SampleInv
  <2>4. ASSUME main'.measured, NEW c \in Consumers, (Records(c))'
        PROVE  latencies'[c] + Cardinality((Pending(c))') = Cardinality(Sampled')
    <3> DEFINE a == Cardinality((Pending(c))')
               b == Cardinality(Pending(c))
               d == Cardinality(Sampled')
               e == Cardinality(Sampled)
               l == latencies[c]
    <3>1. PICK n \in {0, 1} : a = b + n /\ d = e + n
      BY <1>4, ClaimSamples
    <3>2. l + b = e
      BY <1>1, <1>2, <2>4 DEF SampleInv
    <3>3. b \in Nat /\ e \in Nat /\ l \in Int
      BY <1>1, PendingFinite, SampledFinite DEF DataInv
    <3> HIDE DEF a, b, d, e, l
    <3>4. l + a = d
      BY <3>1, <3>2, <3>3
    <3> QED
      BY <1>1, <3>4 DEF a, d, l
  <2> QED
    BY <2>2, <2>3, <2>4 DEF SampleInv
<1>5. ASSUME ~Claim(p)
      PROVE  cursor' = cursor /\ Taken' = Taken /\ Sampled' = Sampled
  <2>1. cursor' = cursor /\ Taken' = Taken
    BY <1>1, <1>5, PublisherStepCount
  <2> QED
    BY <2>1 DEF Sampled
<1>6. CASE Write(p)
  <2>1. pub[p].pc = "write" /\ ~Claim(p)
    BY <1>6 DEF Write, Claim
  <2>2. ASSUME ~main.measured PROVE \A i \in Slots : ~entries'[i].sampled
    <3> DEFINE t == pub[p].sequence % RingSize
               v == pub[p].sequence % 256
    <3>1. entries' = [entries EXCEPT ![t] = [payload |-> v, sampled |-> FALSE]]
      BY <1>6, <2>2 DEF Write
    <3>2. \A i \in Slots : ~entries[i].sampled
      BY <2>2 DEF SampleInv
    <3>3. entries \in [Slots -> [payload : Int, sampled : BOOLEAN]]
      BY DEF DataInv
    <3> HIDE DEF t, v
    <3>4. ASSUME NEW i \in Slots PROVE ~entries'[i].sampled
      <4>1. CASE i = t
        BY <3>1, <3>3, <4>1
      <4>2. CASE i # t
        BY <3>1, <3>2, <3>3, <4>2
      <4> QED
        BY <4>1, <4>2
    <3> QED
      BY <3>4
  <2>3. (\A c \in Consumers : ~main.measured \/ ~Records(c) => latencies[c] = 0)'
    BY <1>1, <1>2 DEF SampleInv
  <2>4. ASSUME main'.measured, NEW c \in Consumers, (Records(c))'
        PROVE  latencies'[c] + Cardinality((Pending(c))') = Cardinality(Sampled')
    <3>1. Latency /\ main.measured /\ Records(c)
      BY <1>1, <1>2, <2>4 DEF Records
    <3>2. ASSUME NEW s \in Reached(c) + 1 .. cursor PROVE (Flag(s))' <=> Flag(s)
      <4>1. s \in Nat /\ cursor - RingSize < s /\ s <= cursor
        BY <1>1, PendingInWindow
      <4> QED
        BY <1>6, <3>1, <4>1, WriteKeepsFlag
    <3>3. (Pending(c))' = {s \in Reached(c) + 1 .. cursor : (Flag(s))'}
      BY <1>3, <1>5, <2>1 DEF Pending
    <3>4. (Pending(c))' = Pending(c)
      BY <3>2, <3>3 DEF Pending
    <3>5. Sampled' = Sampled
      BY <1>5, <2>1
    <3> QED
      BY <1>1, <3>1, <3>4, <3>5 DEF SampleInv
  <2> QED
    BY <1>1, <2>2, <2>3, <2>4 DEF SampleInv
<1>7. CASE Publish(p) \/ EndPublisher(p)
  <2>1. UNCHANGED <<cursor, entries>>
    BY <1>7 DEF Publish, EndPublisher, ringVars
  <2>2. pub'[p].pc # "write" /\ pub[p].pc # "write"
        /\ \A q \in Producers : q # p => pub'[q] = pub[q]
    BY <1>1, <1>7 DEF Publish, EndPublisher, PubState
  <2>3. \A s : (Flag(s))' = Flag(s)
    <3>1. \A s : \A q \in Producers : (Writing(q, s))' <=> Writing(q, s)
      BY <2>2 DEF Writing
    <3>2. \A s : \A q \in Producers : Writing(q, s) => pub'[q].index = pub[q].index
      BY <2>2 DEF Writing
    <3> QED
      BY <2>1, <3>1, <3>2 DEF Flag
  <2>4. \A c \in Consumers : (Pending(c))' = Pending(c)
    BY <1>3, <2>1, <2>3 DEF Pending
  <2>5. Sampled' = Sampled
    <3>1. cursor' # cursor + 1
      BY <1>1, <2>1
    <3> QED
      BY <1>5, <3>1 DEF Claim
  <2> QED
    BY <1>1, <2>1, <2>4, <2>5, SampleFrame
<1> QED
  BY <1>4, <1>6, <1>7 DEF PublisherStep

LEMMA RunStepSample ==
  ASSUME Inv, DataInv, WindowInv, SampleInv, NEW c \in Consumers, RunStep(c)
  PROVE  SampleInv'
<1>1. /\ TypeInv /\ PositionInv /\ UNCHANGED <<main, cursor, entries, pub>>
  BY DEF Inv, RunStep, ringVars
<1>2. \A d : (Records(d))' = Records(d)
  BY <1>1, RecordsKept
<1>3. Sampled' = Sampled
  BY <1>1 DEF Sampled, Taken, PhaseEvents
<1>4. \A d \in Consumers : d # c => (Pending(d))' = Pending(d)
  BY <1>1, RunStepReached, PendingFrame
<1>5. CASE UNCHANGED tallies /\ (Reached(c))' = Reached(c)
  <2>1. (Pending(c))' = Pending(c)
    BY <1>1, <1>5, PendingFrame
  <2> QED
    BY <1>1, <1>3, <1>4, <1>5, <2>1, SampleFrame DEF tallies
<1>6. CASE Handle(c)
  <2> DEFINE n == run[c].at % RingSize
  <2>1. /\ latencies' = [latencies EXCEPT ![c] =
             IF Records(c) /\ entries[n].sampled THEN latencies[c] + 1 ELSE latencies[c]]
        /\ latencies \in [Consumers -> Int]
    BY <1>6 DEF Handle, DataInv
  <2>2. n \in Slots
    BY <1>1, <1>6, HandleNext, SlotType
  <2> HIDE DEF n
  <2>3. \A d \in Consumers : d # c => latencies'[d] = latencies[d]
    BY <2>1
  <2>4. ASSUME ~main.measured \/ ~Records(c) PROVE latencies'[c] = latencies[c]
    <3>1. ~(Records(c) /\ entries[n].sampled)
      BY <2>2, <2>4 DEF SampleInv
    <3> QED
      BY <2>1, <3>1
  <2>5. (~main.measured => \A i \in Slots : ~entries[i].sampled)'
    BY <1>1 DEF SampleInv
  <2>6. (\A d \in Consumers : ~main.measured \/ ~Records(d) => latencies[d] = 0)'
    BY <1>1, <1>2, <2>3, <2>4 DEF SampleInv
  <2>7. ASSUME main'.measured, NEW d \in Consumers, (Records(d))'
        PROVE  latencies'[d] + Cardinality((Pending(d))') = Cardinality(Sampled')
    <3>1. /\ main.measured /\ Records(d)
          /\ latencies[d] + Cardinality(Pending(d)) = Cardinality(Sampled)
      BY <1>1, <1>2, <2>7 DEF SampleInv
    <3>2. CASE d = c
      <4>1. latencies'[c] + Cardinality((Pending(c))') = latencies[c] + Cardinality(Pending(c))
        BY <1>6, <3>1, <3>2, HandleSamples
      <4> QED
        BY <1>3, <3>1, <3>2, <4>1
    <3>3. CASE d # c
      <4>1. latencies'[d] = latencies[d] /\ (Pending(d))' = Pending(d)
        BY <1>4, <2>3, <3>3
      <4> QED
        BY <1>3, <3>1, <4>1
    <3> QED
      BY <3>2, <3>3
  <2> QED
    BY <2>5, <2>6, <2>7 DEF SampleInv
<1> QED
  BY <1>5, <1>6, RunStepReached

LEMMA MainStepSample ==
  ASSUME Inv, DataInv, WindowInv, SampleInv, MainStep
  PROVE  SampleInv'
<1>1. /\ TypeInv /\ PositionInv /\ AwaitInv /\ CountInv
      /\ main'.topology = main.topology /\ UNCHANGED cursor
  BY MainStepFrame DEF Inv
<1>2. \A c : (Records(c))' = Records(c)
  BY <1>1, RecordsKept
<1>3. \A c \in Consumers : (Reached(c))' = Reached(c)
  BY MainStepReached
<1>4. CASE ClearChecksums
  <2>1. /\ main.pc = "clear" /\ main'.measured /\ pub' = Spawned
        /\ UNCHANGED latencies /\ ~main.measured
    BY <1>1, <1>4 DEF ClearChecksums, TypeInv, MainState, AwaitInv
  <2>2. Sampled' = {}
    BY <2>1, SpawnedCount DEF Sampled
  <2>3. ASSUME NEW c \in Consumers PROVE (Pending(c))' = {} /\ latencies'[c] = 0
    <3>1. Reached(c) = cursor /\ cursor \in Int
      BY <1>1, <2>1, WarmupDrained DEF Reached, TypeInv
    <3>2. (Reached(c))' + 1 .. cursor' = {}
      BY <1>1, <1>3, <3>1
    <3> QED
      BY <2>1, <3>2 DEF Pending, SampleInv
  <2>4. Cardinality({}) = 0 /\ 0 + 0 = 0
    BY FS_EmptySet
  <2>5. \A c \in Consumers :
          latencies'[c] + Cardinality((Pending(c))') = Cardinality(Sampled')
    BY <2>2, <2>3, <2>4
  <2> QED
    BY <2>1, <2>3, <2>5 DEF SampleInv
<1>5. CASE /\ main'.measured = main.measured /\ UNCHANGED <<entries, tallies>>
           /\ main.measured => UNCHANGED pub
  <2>1. ASSUME main.measured
        PROVE  Sampled' = Sampled /\ \A c \in Consumers : (Pending(c))' = Pending(c)
    <3>1. \A c \in Consumers : (Pending(c))' = Pending(c)
      BY <1>1, <1>3, <1>5, <2>1, PendingFrame
    <3> QED
      BY <1>5, <2>1, <3>1 DEF Sampled, Taken, PhaseEvents
  <2> QED
    BY <1>1, <1>5, <2>1, SampleFrame DEF tallies
<1> QED
  BY <1>4, <1>5, MainStepPhase

LEMMA SampleStep ==
  ASSUME Inv, DataInv, WindowInv, SampleInv, [Next]_vars
  PROVE  SampleInv'
<1>1. CASE TimeOut \/ UNCHANGED vars
  <2>1. UNCHANGED <<main, cursor, entries, pub, run, sequence, latencies>>
    BY <1>1 DEF TimeOut, vars, mainVars, ringVars, runVars, tallies
  <2>2. \A c \in Consumers : (Pending(c))' = Pending(c)
    BY <2>1, PendingFrame DEF Reached
  <2>3. Sampled' = Sampled
    BY <2>1 DEF Sampled, Taken, PhaseEvents
  <2> QED
    BY <2>1, <2>2, <2>3, SampleFrame
<1> QED
  BY <1>1, PublisherStepSample, RunStepSample, MainStepSample DEF Next

-----------------------------------------------------------------------------
LEMMA ReportInit == Init => ReportInv
BY InvInit, DataInit, WindowInit, EntryInit, SumInit, SampleInit DEF ReportInv

LEMMA ReportStep == ReportInv /\ [Next]_vars => ReportInv'
BY InvStep, DataStep, WindowStep, EntryStep, SumStep, SampleStep DEF ReportInv

(***************************************************************************)
(* The report of a repetition is exact: whatever the interleaving of       *)
(* publishers and handlers, and although slots are reused, the checksum of *)
(* each consumer is the sum over the measured payloads, each counted once  *)
(* and none of the warm-up, and the latency samples of each consumer that  *)
(* records them are one per SampleEvery events.                            *)
(***************************************************************************)
THEOREM ReportsAreExact == Spec => []ReportExact
<1>1. ReportInv => ReportExact
  <2> SUFFICES ASSUME ReportInv, main.pc = "report", NEW c \in Consumers
               PROVE  /\ checksums[c] = Sum(WarmupEvents .. Last)
                      /\ latencies[c] = IF Records(c)
                                        THEN (Events + SampleEvery - 1) \div SampleEvery ELSE 0
    BY DEF ReportExact, Sum
  <2>1. /\ TypeInv /\ PositionInv /\ AwaitInv /\ CountInv /\ WindowInv /\ DataInv
        /\ SumInv /\ SampleInv
    BY DEF ReportInv, Inv
  <2>2. main.measured /\ \A d \in Terminal : Last <= sequence[d]
    BY <2>1 DEF AwaitInv
  <2>3. /\ Base = WarmupEvents /\ PhaseEvents = Events
        /\ Last \in Int /\ Last = Base + PhaseEvents - 1
    BY <2>2, Config DEF Base, PhaseEvents, Last
  <2>4. cursor = Last /\ Reached(c) = Last
    BY <2>1, <2>2, <2>3, Drained DEF Reached
  <2>5. checksums[c] = Sum(WarmupEvents .. Last)
    BY <2>1, <2>2, <2>4 DEF SumInv
  <2>6. CASE ~Records(c)
    BY <2>1, <2>5, <2>6 DEF SampleInv
  <2>7. CASE Records(c)
    <3>1. Pending(c) = {}
      <4>1. Reached(c) + 1 .. cursor = {}
        BY <2>3, <2>4
      <4> QED
        BY <4>1 DEF Pending
    <3>2. Taken = 0 .. Events - 1
      <4>1. cursor + 1 = Base + Cardinality(Taken)
        BY <2>1 DEF CountInv
      <4>2. Cardinality(Taken) = PhaseEvents
        BY <2>3, <2>4, <4>1, TakenFinite, PhaseType
      <4> QED
        BY <2>3, <4>2, TakenFinite
    <3>3. Sampled = {i \in 0 .. Events - 1 : i % SampleEvery = 0}
      BY <3>2 DEF Sampled
    <3>4. Events \in Nat /\ SampleEvery \in Nat \ {0}
      BY ConfigAssumption
    <3>5. Cardinality(Sampled) = (Events + SampleEvery - 1) \div SampleEvery
      BY <3>3, <3>4, SampledCount
    <3>6. latencies[c] + 0 = Cardinality(Sampled) /\ latencies[c] \in Int
      BY <2>1, <2>2, <2>7, <3>1, FS_EmptySet DEF SampleInv, DataInv
    <3>7. latencies[c] = Cardinality(Sampled)
      BY <3>6
    <3> QED
      BY <2>5, <2>7, <3>5, <3>7
  <2> QED
    BY <2>6, <2>7
<1> QED
  BY <1>1, ReportInit, ReportStep, PTL DEF Spec
=============================================================================
