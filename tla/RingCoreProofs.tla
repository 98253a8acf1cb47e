--------------------------- MODULE RingCoreProofs ---------------------------
(***************************************************************************)
(* What the steps of a consumer preserve, whichever sequencer answers it:  *)
(* with any answers, the types of its state, the order of its position and *)
(* its batch, and that positions never move back; with true answers, what  *)
(* it hands to its handler and acknowledges.                               *)
(***************************************************************************)
EXTENDS RingCore, TLAPS

ConsumerTypes ==
  /\ sequence \in [Consumers -> Positions]
  /\ con \in [Consumers -> ConsumerState]
  /\ handled \in [Consumers -> SUBSET Sequences]

(* The batch of c does not end below the position of c. *)
BatchAhead(c) ==
  /\ con[c].pc # "wait" => sequence[c] <= con[c].available
  /\ con[c].pc = "scan" => sequence[c] < con[c].at /\ con[c].at <= con[c].available

ConsumerInv == ConsumerTypes /\ \A c \in Consumers : BatchAhead(c)

PositionsAdvance == \A c \in Consumers : sequence[c] <= sequence'[c]

(* A step of consumer c, with whatever its sequencer answers. *)
CoreStep(c, resolved, lastDiscarded, discarded, then) ==
  \/ WaitForCursor(c, then)
  \/ \E d \in Consumers : WaitForDependency(c, d, then)
  \/ Scan(c, resolved)
  \/ SelectBatch(c)
  \/ FindLast(c, lastDiscarded)
  \/ Deliver(c, discarded)
  \/ SkipDiscarded(c, discarded)
  \/ FailHandler(c, discarded)
  \/ Acknowledge(c)

USE DEF InitialSequence, Sequences, Positions

-----------------------------------------------------------------------------
LEMMA IdleConsumerType ==
  ASSUME NEW c \in Consumers
  PROVE  IdleConsumer(c) \in ConsumerState /\ IdleConsumer(c).pc = "wait"
BY RingAssumption DEF IdleConsumer, ConsumerState

LEMMA ConsumerInit ==
  RingInit => ConsumerInv
<1> SUFFICES ASSUME RingInit PROVE ConsumerInv
  OBVIOUS
<1>1. ConsumerTypes
  BY RingAssumption, IdleConsumerType DEF RingInit, ConsumerTypes
<1>2. ASSUME NEW c \in Consumers PROVE BatchAhead(c)
  BY DEF RingInit, BatchAhead, IdleConsumer
<1> QED
  BY <1>1, <1>2 DEF ConsumerInv

LEMMA ConsumerLocal ==
  ASSUME ConsumerInv, NEW c \in Consumers
  PROVE  /\ con[c] \in ConsumerState /\ sequence[c] \in Positions
         /\ BatchAhead(c)
BY DEF ConsumerInv, ConsumerTypes

(* A step of c that stores no position. *)
LEMMA ConsumerUpdate ==
  ASSUME ConsumerInv, NEW c \in Consumers, NEW st \in ConsumerState,
         st.pc # "wait" => sequence[c] <= st.available,
         st.pc = "scan" => sequence[c] < st.at /\ st.at <= st.available,
         con' = [con EXCEPT ![c] = st], UNCHANGED sequence,
         handled' \in [Consumers -> SUBSET Sequences]
  PROVE  ConsumerInv' /\ PositionsAdvance
<1>1. ConsumerTypes'
  BY DEF ConsumerInv, ConsumerTypes
<1>2. ASSUME NEW d \in Consumers PROVE BatchAhead(d)'
  <2>1. CASE d = c
    BY <2>1 DEF ConsumerInv, ConsumerTypes, BatchAhead
  <2>2. CASE d # c
    BY <2>2 DEF ConsumerInv, ConsumerTypes, BatchAhead
  <2> QED
    BY <2>1, <2>2
<1>3. PositionsAdvance
  BY DEF PositionsAdvance, ConsumerInv, ConsumerTypes
<1> QED
  BY <1>1, <1>2, <1>3 DEF ConsumerInv

LEMMA WaitForCursorInv ==
  ASSUME ConsumerInv, cursor \in Positions, NEW c \in Consumers,
         NEW then \in {"scan", "select"}, WaitForCursor(c, then)
  PROVE  ConsumerInv' /\ PositionsAdvance
<1> DEFINE st == [con[c] EXCEPT !.pc = then, !.available = cursor,
                                !.at = Desired(c)]
<1>1. /\ Desired(c) \in 0 .. MaxSequence + 1 /\ Desired(c) = sequence[c] + 1
      /\ Desired(c) <= cursor
  BY ConsumerLocal, RingAssumption DEF Desired, WaitForCursor
<1>2. st \in ConsumerState
  <2> HIDE DEF Positions, Sequences
  <2>1. con[c] \in ConsumerState /\ Desired(c) \in 0 .. MaxSequence + 1
    BY <1>1, ConsumerLocal
  <2> QED
    BY <2>1, Zenon DEF ConsumerState
<1>3. sequence[c] <= st.available /\ sequence[c] < st.at /\ st.at <= st.available
  BY <1>1, ConsumerLocal, RingAssumption DEF ConsumerState
<1>4. /\ con' = [con EXCEPT ![c] = st] /\ UNCHANGED sequence
      /\ handled' \in [Consumers -> SUBSET Sequences]
  BY DEF WaitForCursor, ConsumerInv, ConsumerTypes
<1> QED
  BY <1>2, <1>3, <1>4, ConsumerUpdate

LEMMA WaitForDependencyInv ==
  ASSUME ConsumerInv, NEW c \in Consumers, NEW d \in Consumers,
         NEW then \in {"scan", "select"}, WaitForDependency(c, d, then)
  PROVE  ConsumerInv' /\ PositionsAdvance
<1> DEFINE seen == IF con[c].unread = Upstream[c] THEN sequence[d]
                   ELSE Minimum(con[c].available, sequence[d])
           rest == con[c].unread \ {d}
           more == [con[c] EXCEPT !.unread = rest, !.available = seen]
           found == [con[c] EXCEPT !.pc = then, !.unread = {},
                                   !.available = seen, !.at = Desired(c)]
<1>1. /\ Desired(c) \in 0 .. MaxSequence + 1 /\ Desired(c) = sequence[c] + 1
      /\ sequence[d] \in Positions /\ con[c].available \in Positions
      /\ rest \in SUBSET Consumers
  BY ConsumerLocal, RingAssumption DEF Desired, ConsumerState
<1>2. seen \in Positions
  BY <1>1, RingAssumption DEF Minimum
<1>3. UNCHANGED sequence /\ handled' \in [Consumers -> SUBSET Sequences]
  BY DEF WaitForDependency, ConsumerInv, ConsumerTypes
<1> HIDE DEF seen, rest
<1>4. CASE con' = [con EXCEPT ![c] = more]
  <2>1. more \in ConsumerState /\ more.pc = "wait"
    <3> HIDE DEF Positions, Sequences
    <3>1. con[c] \in ConsumerState /\ con[c].pc = "wait"
      BY ConsumerLocal DEF WaitForDependency
    <3>2. rest \in SUBSET Consumers
      BY <1>1
    <3>3. more \in ConsumerState
      BY <1>2, <3>1, <3>2, Zenon DEF ConsumerState
    <3> QED
      BY <3>1, <3>3 DEF ConsumerState
  <2> QED
    BY <1>3, <1>4, <2>1, ConsumerUpdate
<1>5. CASE con' = [con EXCEPT ![c] = found] /\ seen >= Desired(c)
  <2>1. found \in ConsumerState
    <3> HIDE DEF Positions, Sequences
    <3>1. con[c] \in ConsumerState /\ Desired(c) \in 0 .. MaxSequence + 1
      BY <1>1, ConsumerLocal
    <3> QED
      BY <1>2, <3>1, Zenon DEF ConsumerState
  <2>2. /\ sequence[c] <= found.available /\ sequence[c] < found.at
        /\ found.at <= found.available
    BY <1>1, <1>2, <1>5, ConsumerLocal, RingAssumption DEF ConsumerState
  <2> QED
    BY <1>3, <1>5, <2>1, <2>2, ConsumerUpdate
<1>6. CASE con' = [con EXCEPT ![c] = IdleConsumer(c)]
  BY <1>3, <1>6, IdleConsumerType, ConsumerUpdate
<1> QED
  BY <1>4, <1>5, <1>6 DEF WaitForDependency, seen, rest

LEMMA ScanInv ==
  ASSUME ConsumerInv, NEW c \in Consumers, NEW resolved, Scan(c, resolved)
  PROVE  ConsumerInv' /\ PositionsAdvance
<1> DEFINE gap == [con[c] EXCEPT !.pc = "select", !.available = con[c].at - 1]
           done == [con[c] EXCEPT !.pc = "select"]
           more == [con[c] EXCEPT !.at = con[c].at + 1]
<1>1. /\ con[c].at \in 0 .. MaxSequence + 1 /\ con[c].available \in Positions
      /\ sequence[c] \in Positions
      /\ sequence[c] < con[c].at /\ con[c].at <= con[c].available
  BY ConsumerLocal DEF ConsumerState, Scan, BatchAhead
<1>2. UNCHANGED sequence /\ handled' \in [Consumers -> SUBSET Sequences]
  BY DEF Scan, ConsumerInv, ConsumerTypes
<1>3. CASE con' = [con EXCEPT ![c] = gap]
  <2>1. con[c].at - 1 \in Positions /\ sequence[c] <= con[c].at - 1
    BY <1>1, RingAssumption
  <2>2. gap \in ConsumerState /\ gap.pc = "select" /\ sequence[c] <= gap.available
    <3> HIDE DEF Positions, Sequences
    <3>1. con[c] \in ConsumerState /\ con[c].at - 1 \in Positions
      BY <2>1, ConsumerLocal
    <3>2. gap \in ConsumerState
      BY <3>1, Zenon DEF ConsumerState
    <3> QED
      BY <2>1, <3>1, <3>2 DEF ConsumerState
  <2> QED
    BY <1>2, <1>3, <2>2, ConsumerUpdate
<1>4. CASE con' = [con EXCEPT ![c] = done]
  <2>1. done \in ConsumerState /\ done.pc = "select" /\ sequence[c] <= done.available
    BY <1>1, ConsumerLocal, RingAssumption DEF ConsumerState
  <2> QED
    BY <1>2, <1>4, <2>1, ConsumerUpdate
<1>5. CASE con' = [con EXCEPT ![c] = more] /\ con[c].at < con[c].available
  <2>1. /\ con[c].at + 1 \in 0 .. MaxSequence + 1 /\ sequence[c] < con[c].at + 1
        /\ con[c].at + 1 <= con[c].available /\ sequence[c] <= con[c].available
    BY <1>1, <1>5, RingAssumption
  <2>2. more \in ConsumerState
    BY <2>1, ConsumerLocal DEF ConsumerState
  <2>3. /\ sequence[c] <= more.available /\ sequence[c] < more.at
        /\ more.at <= more.available
    BY <2>1, ConsumerLocal DEF ConsumerState
  <2> QED
    BY <1>2, <1>5, <2>2, <2>3, ConsumerUpdate
<1> QED
  BY <1>3, <1>4, <1>5 DEF Scan

LEMMA SelectBatchInv ==
  ASSUME ConsumerInv, hasDiscards \in BOOLEAN, NEW c \in Consumers, SelectBatch(c)
  PROVE  ConsumerInv' /\ PositionsAdvance
<1> DEFINE end == Minimum(con[c].available, Desired(c) + MaxBatchSize - 1)
           pc == IF hasDiscards THEN "last" ELSE "handle"
           st == [con[c] EXCEPT !.pc = pc, !.skip = hasDiscards,
                    !.available = end, !.last = end, !.at = Desired(c)]
<1>1. /\ con[c].available \in Positions /\ sequence[c] \in Positions
      /\ sequence[c] <= con[c].available
  BY ConsumerLocal DEF ConsumerState, SelectBatch, BatchAhead
<1>2. Desired(c) \in 0 .. MaxSequence + 1 /\ end \in Positions /\ sequence[c] <= end
  BY <1>1, RingAssumption DEF Desired, Minimum
<1>3. pc \in {"last", "handle"}
  OBVIOUS
<1> HIDE DEF end, pc
<1>4. st \in ConsumerState
  <2> HIDE DEF Positions, Sequences
  <2>1. con[c] \in ConsumerState /\ end \in Positions
        /\ Desired(c) \in 0 .. MaxSequence + 1
    BY <1>2, ConsumerLocal
  <2> QED
    BY <1>3, <2>1, Zenon DEF ConsumerState
<1>5. st.available = end /\ st.pc \in {"last", "handle"}
  BY <1>3, ConsumerLocal DEF ConsumerState
<1>6. /\ con' = [con EXCEPT ![c] = st] /\ UNCHANGED sequence
      /\ handled' \in [Consumers -> SUBSET Sequences]
  BY DEF SelectBatch, ConsumerInv, ConsumerTypes, end, pc
<1> QED
  BY <1>2, <1>4, <1>5, <1>6, ConsumerUpdate

LEMMA FindLastInv ==
  ASSUME ConsumerInv, NEW c \in Consumers, NEW discarded, FindLast(c, discarded)
  PROVE  ConsumerInv' /\ PositionsAdvance
<1> DEFINE back == [con[c] EXCEPT !.last = con[c].last - 1]
           done == [con[c] EXCEPT !.pc = "handle"]
<1>1. /\ con[c].last \in Positions /\ sequence[c] \in Positions
      /\ con[c].available \in Positions /\ con[c].pc = "last"
      /\ sequence[c] <= con[c].available
  BY ConsumerLocal DEF ConsumerState, FindLast, BatchAhead
<1>2. UNCHANGED sequence /\ handled' \in [Consumers -> SUBSET Sequences]
  BY DEF FindLast, ConsumerInv, ConsumerTypes
<1>3. CASE con' = [con EXCEPT ![c] = back] /\ con[c].last >= Desired(c)
  <2>1. con[c].last - 1 \in Positions
    BY <1>1, <1>3, RingAssumption DEF Desired
  <2>2. back \in ConsumerState /\ back.pc = "last" /\ sequence[c] <= back.available
    <3> HIDE DEF Positions, Sequences
    <3> QED
      BY <1>1, <2>1, ConsumerLocal DEF ConsumerState
  <2> QED
    BY <1>2, <1>3, <2>2, ConsumerUpdate
<1>4. CASE con' = [con EXCEPT ![c] = done]
  <2>1. done \in ConsumerState /\ done.pc = "handle" /\ sequence[c] <= done.available
    <3> HIDE DEF Positions, Sequences
    <3> QED
      BY <1>1, ConsumerLocal DEF ConsumerState
  <2> QED
    BY <1>2, <1>4, <2>1, ConsumerUpdate
<1> QED
  BY <1>3, <1>4 DEF FindLast

(* The steps of the handling loop that go on to the next sequence. *)
LEMMA HandledOneInv ==
  ASSUME ConsumerInv, NEW c \in Consumers,
         con[c].pc = "handle", con[c].at <= con[c].available,
         con' = [con EXCEPT ![c].at = @ + 1], UNCHANGED sequence,
         handled' \in {handled, [handled EXCEPT ![c] = @ \cup {con[c].at}]}
  PROVE  ConsumerInv' /\ PositionsAdvance
<1> DEFINE st == [con[c] EXCEPT !.at = con[c].at + 1]
<1>1. /\ con[c].at \in 0 .. MaxSequence + 1 /\ con[c].available \in Positions
      /\ sequence[c] \in Positions /\ sequence[c] <= con[c].available
  BY ConsumerLocal DEF ConsumerState, BatchAhead
<1>2. con[c].at + 1 \in 0 .. MaxSequence + 1 /\ con[c].at \in Sequences
  BY <1>1, RingAssumption
<1>3. st \in ConsumerState /\ st.pc = "handle" /\ sequence[c] <= st.available
  <2> HIDE DEF Positions, Sequences
  <2> QED
    BY <1>1, <1>2, ConsumerLocal DEF ConsumerState
<1>4. handled' \in [Consumers -> SUBSET Sequences]
  BY <1>2 DEF ConsumerInv, ConsumerTypes
<1> QED
  BY <1>3, <1>4, ConsumerUpdate

LEMMA AcknowledgeInv ==
  ASSUME ConsumerInv, NEW c \in Consumers, Acknowledge(c)
  PROVE  ConsumerInv' /\ PositionsAdvance
<1>1. /\ con[c].available \in Positions /\ sequence[c] \in Positions
      /\ sequence[c] <= con[c].available
  BY ConsumerLocal DEF ConsumerState, Acknowledge, BatchAhead
<1>2. ConsumerTypes'
  BY <1>1, IdleConsumerType DEF Acknowledge, ConsumerInv, ConsumerTypes
<1>3. ASSUME NEW d \in Consumers PROVE BatchAhead(d)'
  <2>1. CASE d = c
    BY <2>1, IdleConsumerType DEF Acknowledge, ConsumerInv, ConsumerTypes, BatchAhead
  <2>2. CASE d # c
    BY <2>2 DEF Acknowledge, ConsumerInv, ConsumerTypes, BatchAhead
  <2> QED
    BY <2>1, <2>2
<1>4. PositionsAdvance
  BY <1>1 DEF Acknowledge, ConsumerInv, ConsumerTypes, PositionsAdvance
<1> QED
  BY <1>2, <1>3, <1>4 DEF ConsumerInv

(***************************************************************************)
(* Whatever a consumer does, and whatever its sequencer answers, types and *)
(* batch order are preserved and no position moves back: a batch that      *)
(* turns out empty stores the position it started from.                    *)
(***************************************************************************)
THEOREM ConsumerStepInv ==
  ASSUME ConsumerInv, cursor \in Positions, hasDiscards \in BOOLEAN,
         NEW c \in Consumers, NEW resolved, NEW lastDiscarded, NEW discarded,
         NEW then \in {"scan", "select"},
         CoreStep(c, resolved, lastDiscarded, discarded, then)
  PROVE  ConsumerInv' /\ PositionsAdvance
<1>1. CASE WaitForCursor(c, then)
  BY <1>1, WaitForCursorInv
<1>2. CASE \E d \in Consumers : WaitForDependency(c, d, then)
  BY <1>2, WaitForDependencyInv
<1>3. CASE Scan(c, resolved)
  BY <1>3, ScanInv
<1>4. CASE SelectBatch(c)
  BY <1>4, SelectBatchInv
<1>5. CASE FindLast(c, lastDiscarded)
  BY <1>5, FindLastInv
<1>6. CASE Deliver(c, discarded)
  BY <1>6, HandledOneInv DEF Deliver, Invokes
<1>7. CASE SkipDiscarded(c, discarded)
  BY <1>7, HandledOneInv DEF SkipDiscarded
<1>8. CASE FailHandler(c, discarded)
  <2>1. /\ con' = [con EXCEPT ![c] = IdleConsumer(c)] /\ UNCHANGED sequence
        /\ handled' \in [Consumers -> SUBSET Sequences]
    BY <1>8 DEF FailHandler, ConsumerInv, ConsumerTypes
  <2> QED
    BY <2>1, IdleConsumerType, ConsumerUpdate
<1>9. CASE Acknowledge(c)
  BY <1>9, AcknowledgeInv
<1> QED
  BY <1>1, <1>2, <1>3, <1>4, <1>5, <1>6, <1>7, <1>8, <1>9 DEF CoreStep

-----------------------------------------------------------------------------
(***************************************************************************)
(* What a consumer may rely on between its barrier and its acknowledgement *)
(* whichever sequencer answers it, provided that the answers are true and  *)
(* that what is resolved stays resolved.  The modules about the two        *)
(* sequencers prove that their answers are.                                *)
(***************************************************************************)
Resolved(s) == outcome[s] # Unresolved

(***************************************************************************)
(* The position of c: it trails the cursor and the positions it depends    *)
(* on, and what it covers is resolved and, if published, handled.          *)
(***************************************************************************)
Trails(c) ==
  /\ sequence[c] <= cursor
  /\ \A d \in Upstream[c] : sequence[c] <= sequence[d]
  /\ \A s \in Sequences : s <= sequence[c] => Resolved(s)

Acknowledged(c, done) ==
  /\ \A s \in Sequences : s <= sequence[c] /\ outcome[s] = Published => s \in done
  /\ \A s \in done : outcome[s] = Published

(* What the group load has read so far of the dependencies. *)
Loading(c, st) ==
  st.pc = "wait" =>
    /\ st.unread \subseteq Upstream[c]
    /\ \A d \in Upstream[c] : d \notin st.unread => st.available <= sequence[d]

(* What the barrier granted. *)
Granted(c, st) ==
  st.pc # "wait" =>
    /\ st.available <= cursor
    /\ \A d \in Upstream[c] : st.available <= sequence[d]

(* What the scan has passed, and what it left for the batch. *)
Scanned(c, st) ==
  /\ st.pc = "scan" =>
       \A s \in Sequences : sequence[c] < s /\ s < st.at => Resolved(s)
  /\ st.pc \in {"select", "last", "handle"} =>
       \A s \in Sequences : sequence[c] < s /\ s <= st.available => Resolved(s)

(***************************************************************************)
(* A batch that began before the first discard of the ring holds none.     *)
(***************************************************************************)
NothingToSkip(c, st) ==
  st.pc \in {"last", "handle"} /\ ~st.skip =>
    \A s \in Sequences :
      sequence[c] < s /\ s <= st.available => outcome[s] # Discarded

(* What the first loop of processBatch has stepped over. *)
Trailing(c, st) ==
  st.pc \in {"last", "handle"} =>
    /\ sequence[c] <= st.last /\ st.last <= st.available
    /\ \A s \in Sequences :
         st.last < s /\ s <= st.available => outcome[s] = Discarded
    /\ st.pc = "last" => st.at = sequence[c] + 1

(* What the second loop knows and has done. *)
Handling(c, st, done) ==
  st.pc = "handle" =>
    /\ sequence[c] < st.last => outcome[st.last] = Published
    /\ sequence[c] < st.at /\ st.at <= st.available + 1
    /\ \A s \in Sequences :
         sequence[c] < s /\ s < st.at /\ outcome[s] = Published => s \in done

BatchOK(c, st, done) ==
  /\ Acknowledged(c, done)
  /\ Loading(c, st) /\ Granted(c, st) /\ Scanned(c, st)
  /\ NothingToSkip(c, st) /\ Trailing(c, st) /\ Handling(c, st, done)

RunOK(c) == Trails(c) /\ BatchOK(c, con[c], handled[c])

(* processBatch may trust the ring's discarded flag. *)
DiscardsKnown == \A s \in Sequences : outcome[s] = Discarded => hasDiscards

DeliveryInv == DiscardsKnown /\ \A c \in Consumers : RunOK(c)

(***************************************************************************)
(* The sequencer answers c truthfully about what c asks at this point; one *)
(* without a scan answers that everything up to the cursor is resolved.    *)
(***************************************************************************)
TrueAnswers(c, resolved, lastDiscarded, discarded, then) ==
  /\ con[c].pc = "scan" /\ resolved => Resolved(con[c].at)
  /\ con[c].pc = "last" /\ sequence[c] < con[c].last =>
       (lastDiscarded <=> outcome[con[c].last] = Discarded)
  /\ con[c].pc = "handle" /\ con[c].at <= con[c].available =>
       (discarded <=> outcome[con[c].at] = Discarded)
  /\ then = "select" => \A s \in Sequences : s <= cursor => Resolved(s)

(* What producers may do to a running consumer. *)
OutcomesFinal ==
  /\ cursor <= cursor'
  /\ \A s \in Sequences : Resolved(s) => outcome'[s] = outcome[s]

RingTypes ==
  /\ cursor \in Positions /\ hasDiscards \in BOOLEAN
  /\ outcome \in [Sequences -> Resolutions]

USE DEF InitialSequence, Sequences, Positions, Unresolved, Published, Discarded,
        Resolutions

-----------------------------------------------------------------------------
(* Division by the buffer size, as the provers need it spelled out. *)
LEMMA Division ==
  ASSUME NEW B \in Nat \ {0}, NEW a \in Int
  PROVE  /\ a \div B \in Int /\ a % B \in Int
         /\ a = B * (a \div B) + (a % B) /\ 0 <= a % B /\ a % B < B
OBVIOUS

LEMMA Multiples ==
  ASSUME NEW B \in Nat \ {0}, NEW x \in Int, NEW y \in Int, x < y
  PROVE  B * x + B <= B * y /\ B * x \in Int /\ B * y \in Int
OBVIOUS

(* Quotient and remainder are unique. *)
LEMMA DivisionUnique ==
  ASSUME NEW B \in Nat \ {0}, NEW x \in Int, NEW y \in Int,
         NEW r \in 0 .. B - 1, NEW t \in 0 .. B - 1, B * x + r = B * y + t
  PROVE  x = y /\ r = t
<1>1. B * x \in Int /\ B * y \in Int
  OBVIOUS
<1>2. ~(x < y)
  BY <1>1, Multiples
<1>3. ~(y < x)
  BY <1>1, Multiples
<1>4. x = y
  BY <1>2, <1>3
<1> QED
  BY <1>1, <1>4

(* Numbers less than a lap apart lie in different slots. *)
LEMMA NearDiffer ==
  ASSUME NEW B \in Nat \ {0}, NEW a \in Int, NEW b \in Int, a < b, b < a + B
  PROVE  a % B # b % B
<1> SUFFICES ASSUME a % B = b % B PROVE FALSE
  OBVIOUS
<1> DEFINE x == a \div B
           y == b \div B
           r == a % B
<1>1. /\ x \in Int /\ y \in Int /\ r \in Int /\ B * x \in Int /\ B * y \in Int
      /\ a = B * x + r /\ b = B * y + r
  BY Division
<1> HIDE DEF x, y, r
<1>2. ~(x < y)
  BY <1>1, Multiples
<1>3. ~(y < x)
  BY <1>1, Multiples
<1>4. x = y
  BY <1>1, <1>2, <1>3
<1> QED
  BY <1>1, <1>4

(* The same slot a lap later. *)
LEMMA NextLap ==
  ASSUME NEW B \in Nat \ {0}, NEW a \in Int
  PROVE  (a + B) \div B = (a \div B) + 1 /\ (a + B) % B = a % B
<1>1. a + B \in Int
  OBVIOUS
<1> DEFINE x == a \div B
           y == (a + B) \div B
           r == a % B
           t == (a + B) % B
<1>2. x \in Int /\ r \in 0 .. B - 1 /\ a = B * x + r
  BY Division
<1>3. y \in Int /\ t \in 0 .. B - 1 /\ a + B = B * y + t
  BY <1>1, Division
<1> HIDE DEF x, y, r, t
<1>4. B * (x + 1) = B * x + B /\ B * x \in Int
  BY <1>2
<1>5. B * (x + 1) + r = B * y + t
  BY <1>2, <1>3, <1>4
<1>6. x + 1 \in Int
  BY <1>2
<1>7. x + 1 = y /\ r = t
  BY <1>2, <1>3, <1>5, <1>6, DivisionUnique
<1> QED
  BY <1>7 DEF x, y, r, t

(* Two sequences that share a slot are at least a lap apart. *)
LEMMA SameSlot ==
  ASSUME NEW a \in Int, NEW b \in Int, a < b, Index(a) = Index(b)
  PROVE  a + BufferSize <= b
<1>1. BufferSize \in Nat \ {0} /\ a % BufferSize = b % BufferSize
  BY RingAssumption DEF Index
<1>2. ~(b < a + BufferSize)
  BY <1>1, NearDiffer
<1> QED
  BY <1>1, <1>2

LEMMA SlotOf ==
  ASSUME NEW s \in Int
  PROVE  Index(s) \in Slots
BY Division, RingAssumption DEF Index, Slots

-----------------------------------------------------------------------------
(* The numbers a consumer works with. *)
LEMMA Numbers ==
  ASSUME ConsumerInv, NEW c \in Consumers
  PROVE  /\ sequence[c] \in Int /\ -1 <= sequence[c] /\ sequence[c] <= MaxSequence
         /\ con[c].available \in Int /\ con[c].available <= MaxSequence
         /\ con[c].at \in Int /\ 0 <= con[c].at /\ con[c].at <= MaxSequence + 1
         /\ con[c].last \in Int /\ con[c].last <= MaxSequence
         /\ con[c].skip \in BOOLEAN
         /\ handled[c] \subseteq Sequences
         /\ Desired(c) = sequence[c] + 1
BY RingAssumption DEF ConsumerInv, ConsumerTypes, ConsumerState, Desired

LEMMA DeliveryInit ==
  RingInit => DeliveryInv
<1> SUFFICES ASSUME RingInit PROVE DeliveryInv
  OBVIOUS
<1>1. DiscardsKnown
  BY DEF RingInit, DiscardsKnown
<1>2. ASSUME NEW c \in Consumers PROVE RunOK(c)
  <2>1. /\ sequence[c] = -1 /\ cursor = -1 /\ handled[c] = {}
        /\ con[c].pc = "wait" /\ con[c].unread = Upstream[c]
        /\ \A d \in Upstream[c] : sequence[d] = -1
        /\ \A s \in Sequences : outcome[s] = Unresolved
    BY <1>2, RingAssumption DEF RingInit, IdleConsumer
  <2>2. Trails(c) /\ Acknowledged(c, handled[c])
    BY <2>1, RingAssumption DEF Trails, Acknowledged
  <2>3. /\ Loading(c, con[c]) /\ Granted(c, con[c]) /\ Scanned(c, con[c])
        /\ NothingToSkip(c, con[c]) /\ Trailing(c, con[c])
        /\ Handling(c, con[c], handled[c])
    BY <2>1 DEF Loading, Granted, Scanned, NothingToSkip, Trailing, Handling
  <2> QED
    BY <2>2, <2>3 DEF RunOK, BatchOK
<1> QED
  BY <1>1, <1>2 DEF DeliveryInv

(***************************************************************************)
(* What others do leaves a consumer right: outcomes are final and cursor   *)
(* and positions only grow.                                                *)
(***************************************************************************)
LEMMA RunKept ==
  ASSUME ConsumerInv, ConsumerInv', RingTypes, RingTypes',
         PositionsAdvance, OutcomesFinal,
         NEW c \in Consumers, RunOK(c),
         con'[c] = con[c], sequence'[c] = sequence[c], handled'[c] = handled[c]
  PROVE  RunOK(c)'
<1> USE RingAssumption
<1>1. /\ sequence[c] \in Int /\ cursor \in Int /\ cursor' \in Int
      /\ con[c].available \in Int /\ con[c].at \in Int /\ con[c].last \in Int
      /\ sequence[c] <= MaxSequence /\ con[c].last <= MaxSequence
      /\ con[c].available <= MaxSequence /\ -1 <= sequence[c]
      /\ handled[c] \subseteq Sequences
  BY Numbers DEF RingTypes
<1>2. \A d \in Consumers : /\ sequence[d] \in Int /\ sequence'[d] \in Int
                           /\ sequence[d] <= sequence'[d]
  BY DEF ConsumerInv, ConsumerTypes, PositionsAdvance
<1>3. Upstream[c] \subseteq Consumers
  OBVIOUS
<1>4. /\ cursor <= cursor'
      /\ \A s \in Sequences : outcome[s] # 0 => outcome'[s] = outcome[s]
  BY DEF OutcomesFinal, Resolved
<1>5. Trails(c)'
  BY <1>1, <1>2, <1>3, <1>4 DEF RunOK, Trails, Resolved
<1>6. Acknowledged(c, handled[c])'
  BY <1>1, <1>4 DEF RunOK, BatchOK, Acknowledged, Trails, Resolved
<1>7. Loading(c, con[c])' /\ Granted(c, con[c])'
  BY <1>1, <1>2, <1>3, <1>4 DEF RunOK, BatchOK, Loading, Granted
<1>8. Scanned(c, con[c])'
  BY <1>1, <1>4 DEF RunOK, BatchOK, Scanned, Resolved
<1>9. NothingToSkip(c, con[c])'
  BY <1>1, <1>4 DEF RunOK, BatchOK, NothingToSkip, Scanned, Resolved
<1>10. Trailing(c, con[c])'
  BY <1>1, <1>4 DEF RunOK, BatchOK, Trailing
<1>11. Handling(c, con[c], handled[c])'
  <2> SUFFICES ASSUME con[c].pc = "handle"
               PROVE  Handling(c, con[c], handled[c])'
    BY DEF Handling
  <2>1. /\ Handling(c, con[c], handled[c])
        /\ \A s \in Sequences :
             sequence[c] < s /\ s <= con[c].available => outcome'[s] = outcome[s]
        /\ sequence[c] < con[c].last =>
             outcome'[con[c].last] = outcome[con[c].last]
    BY <1>1, <1>4 DEF RunOK, BatchOK, Handling, Trailing, Scanned, Resolved
  <2> QED
    BY <1>1, <2>1 DEF Handling
<1> QED
  BY <1>5, <1>6, <1>7, <1>8, <1>9, <1>10, <1>11 DEF RunOK, BatchOK

(* A producer's step, once outcomes are final and the flag is right. *)
LEMMA OthersKeepDelivery ==
  ASSUME ConsumerInv, RingTypes, RingTypes', DeliveryInv, DiscardsKnown',
         OutcomesFinal, UNCHANGED consumerVars
  PROVE  DeliveryInv'
<1>1. ConsumerInv' /\ PositionsAdvance
  BY DEF ConsumerInv, ConsumerTypes, BatchAhead, PositionsAdvance, consumerVars
<1>2. ASSUME NEW c \in Consumers PROVE RunOK(c)'
  <2>1. RunOK(c)
    BY DEF DeliveryInv
  <2>2. con'[c] = con[c] /\ sequence'[c] = sequence[c] /\ handled'[c] = handled[c]
    BY DEF consumerVars
  <2> QED
    BY <1>1, <2>1, <2>2, RunKept
<1> QED
  BY <1>2 DEF DeliveryInv

(* What a consumer's step has to establish when it stores no position. *)
LEMMA RunUpdate ==
  ASSUME ConsumerInv, ConsumerInv', RingTypes, DeliveryInv, PositionsAdvance,
         NEW c \in Consumers, NEW st, NEW done, BatchOK(c, st, done),
         con' = [con EXCEPT ![c] = st], handled' = [handled EXCEPT ![c] = done],
         UNCHANGED <<sequence, cursor, outcome, hasDiscards>>
  PROVE  DeliveryInv'
<1>1. DiscardsKnown'
  BY DEF DeliveryInv, DiscardsKnown
<1>2. ASSUME NEW d \in Consumers PROVE RunOK(d)'
  <2>1. CASE d = c
    <3>1. con'[c] = st /\ handled'[c] = done
      BY DEF ConsumerInv, ConsumerTypes
    <3>2. Trails(c)'
      BY DEF DeliveryInv, RunOK, Trails, Resolved
    <3>3. BatchOK(c, con[c], handled[c])'
      BY <3>1 DEF BatchOK, Acknowledged, Loading, Granted, Scanned, NothingToSkip,
                  Trailing, Handling, Resolved
    <3> QED
      BY <2>1, <3>2, <3>3 DEF RunOK
  <2>2. CASE d # c
    <3>1. con'[d] = con[d] /\ sequence'[d] = sequence[d] /\ handled'[d] = handled[d]
      BY <2>2 DEF ConsumerInv, ConsumerTypes
    <3>2. RunOK(d) /\ RingTypes' /\ OutcomesFinal
      BY DEF DeliveryInv, RingTypes, OutcomesFinal
    <3> QED
      BY <3>1, <3>2, RunKept
  <2> QED
    BY <2>1, <2>2
<1> QED
  BY <1>1, <1>2 DEF DeliveryInv

(* Run begins its loop, again or for the first time. *)
LEMMA RunRestarts ==
  ASSUME ConsumerInv, DeliveryInv, NEW c \in Consumers
  PROVE  BatchOK(c, IdleConsumer(c), handled[c])
<1>1. IdleConsumer(c).pc = "wait" /\ IdleConsumer(c).unread = Upstream[c]
  BY DEF IdleConsumer
<1>2. Acknowledged(c, handled[c])
  BY DEF DeliveryInv, RunOK, BatchOK
<1> QED
  BY <1>1, <1>2 DEF BatchOK, Loading, Granted, Scanned, NothingToSkip, Trailing,
                    Handling

LEMMA WaitForCursorDelivery ==
  ASSUME ConsumerInv, RingTypes, DeliveryInv, NEW c \in Consumers,
         NEW then \in {"scan", "select"},
         then = "select" => \A s \in Sequences : s <= cursor => Resolved(s),
         WaitForCursor(c, then), UNCHANGED <<cursor, outcome, hasDiscards>>
  PROVE  DeliveryInv'
<1> DEFINE st == [con[c] EXCEPT !.pc = then, !.available = cursor,
                                !.at = Desired(c)]
<1>1. /\ st.pc = then /\ st.available = cursor /\ st.at = sequence[c] + 1
      /\ Upstream[c] = {}
  BY Numbers DEF ConsumerInv, ConsumerTypes, ConsumerState, WaitForCursor
<1>2. sequence[c] \in Int /\ cursor \in Int
  BY Numbers, RingAssumption DEF RingTypes
<1>3. Acknowledged(c, handled[c])
  BY DEF DeliveryInv, RunOK, BatchOK
<1>4. /\ con' = [con EXCEPT ![c] = st]
      /\ handled' = [handled EXCEPT ![c] = handled[c]] /\ UNCHANGED sequence
  BY DEF WaitForCursor, ConsumerInv, ConsumerTypes
<1>5. ConsumerInv' /\ PositionsAdvance
  BY WaitForCursorInv DEF RingTypes
<1> HIDE DEF st
<1>6. BatchOK(c, st, handled[c])
  BY <1>1, <1>2, <1>3, RingAssumption
  DEF BatchOK, Loading, Granted, Scanned, NothingToSkip, Trailing, Handling
<1> QED
  BY <1>4, <1>5, <1>6, RunUpdate

LEMMA WaitForDependencyDelivery ==
  ASSUME ConsumerInv, RingTypes, DeliveryInv, NEW c \in Consumers,
         NEW d \in Consumers, NEW then \in {"scan", "select"},
         then = "select" => \A s \in Sequences : s <= cursor => Resolved(s),
         WaitForDependency(c, d, then), UNCHANGED <<cursor, outcome, hasDiscards>>
  PROVE  DeliveryInv'
<1> DEFINE seen == IF con[c].unread = Upstream[c] THEN sequence[d]
                   ELSE Minimum(con[c].available, sequence[d])
           rest == con[c].unread \ {d}
           more == [con[c] EXCEPT !.unread = rest, !.available = seen]
           found == [con[c] EXCEPT !.pc = then, !.unread = {},
                                   !.available = seen, !.at = Desired(c)]
<1>1. /\ con[c].pc = "wait" /\ d \in con[c].unread
      /\ con[c].unread \subseteq Upstream[c]
      /\ \A e \in Upstream[c] :
           e \notin con[c].unread => con[c].available <= sequence[e]
  BY DEF DeliveryInv, RunOK, BatchOK, Loading, WaitForDependency
<1>2. /\ \A e \in Upstream[c] : sequence[e] \in Int
      /\ sequence[d] \in Int /\ con[c].available \in Int /\ cursor \in Int
      /\ sequence[c] \in Int
  BY Numbers, RingAssumption DEF RingTypes
<1>3. /\ seen \in Int
      /\ \A e \in Upstream[c] : e \notin rest => seen <= sequence[e]
  BY <1>1, <1>2 DEF Minimum
<1>4. seen <= cursor
  <2>1. seen <= sequence[d] /\ sequence[d] <= cursor
    BY <1>1, <1>3 DEF DeliveryInv, RunOK, Trails
  <2> QED
    BY <1>2, <1>3, <2>1
<1>5. Acknowledged(c, handled[c])
  BY DEF DeliveryInv, RunOK, BatchOK
<1>6. UNCHANGED sequence /\ handled' = [handled EXCEPT ![c] = handled[c]]
  BY DEF WaitForDependency, ConsumerInv, ConsumerTypes
<1>7. ConsumerInv' /\ PositionsAdvance
  BY WaitForDependencyInv
<1>8. /\ more.pc = "wait" /\ more.unread = rest /\ more.available = seen
      /\ found.pc = then /\ found.available = seen /\ found.at = sequence[c] + 1
  BY <1>1, Numbers DEF ConsumerInv, ConsumerTypes, ConsumerState
<1>9. \/ con' = [con EXCEPT ![c] = more]
      \/ con' = [con EXCEPT ![c] = found] /\ rest = {}
      \/ con' = [con EXCEPT ![c] = IdleConsumer(c)]
  BY DEF WaitForDependency
<1>10. rest \subseteq Upstream[c]
  BY <1>1
<1> HIDE DEF seen, rest, more, found
<1>11. BatchOK(c, more, handled[c])
  BY <1>3, <1>5, <1>8, <1>10
  DEF BatchOK, Loading, Granted, Scanned, NothingToSkip, Trailing, Handling
<1>12. ASSUME rest = {} PROVE BatchOK(c, found, handled[c])
  BY <1>2, <1>3, <1>4, <1>5, <1>8, <1>12, RingAssumption
  DEF BatchOK, Loading, Granted, Scanned, NothingToSkip, Trailing, Handling
<1> QED
  BY <1>6, <1>7, <1>9, <1>11, <1>12, RunRestarts, RunUpdate

LEMMA ScanDelivery ==
  ASSUME ConsumerInv, RingTypes, DeliveryInv, NEW c \in Consumers, NEW resolved,
         con[c].pc = "scan" /\ resolved => Resolved(con[c].at),
         Scan(c, resolved), UNCHANGED <<cursor, outcome, hasDiscards>>
  PROVE  DeliveryInv'
<1> DEFINE gap == [con[c] EXCEPT !.pc = "select", !.available = con[c].at - 1]
           last == [con[c] EXCEPT !.pc = "select"]
           more == [con[c] EXCEPT !.at = con[c].at + 1]
<1>1. /\ con[c].pc = "scan" /\ con[c].available <= cursor
      /\ \A e \in Upstream[c] : con[c].available <= sequence[e]
      /\ \A s \in Sequences : sequence[c] < s /\ s < con[c].at => Resolved(s)
  BY DEF DeliveryInv, RunOK, BatchOK, Granted, Scanned, Scan
<1>2. /\ \A e \in Upstream[c] : sequence[e] \in Int
      /\ con[c].available \in Int /\ con[c].at \in Int /\ cursor \in Int
      /\ sequence[c] \in Int /\ con[c].at <= con[c].available
  BY <1>1, Numbers, ConsumerLocal, RingAssumption DEF RingTypes, BatchAhead
<1>3. Acknowledged(c, handled[c])
  BY DEF DeliveryInv, RunOK, BatchOK
<1>4. UNCHANGED sequence /\ handled' = [handled EXCEPT ![c] = handled[c]]
  BY DEF Scan, ConsumerInv, ConsumerTypes
<1>5. ConsumerInv' /\ PositionsAdvance
  BY ScanInv
<1>6. /\ gap.pc = "select" /\ gap.available = con[c].at - 1
      /\ last.pc = "select" /\ last.available = con[c].available
      /\ more.pc = "scan" /\ more.available = con[c].available
      /\ more.at = con[c].at + 1
  BY <1>1 DEF ConsumerInv, ConsumerTypes, ConsumerState
<1>7. \/ con' = [con EXCEPT ![c] = gap]
      \/ con' = [con EXCEPT ![c] = last] /\ resolved /\ con[c].at = con[c].available
      \/ con' = [con EXCEPT ![c] = more] /\ resolved
  BY DEF Scan
<1> HIDE DEF gap, last, more
<1>8. BatchOK(c, gap, handled[c])
  BY <1>1, <1>2, <1>3, <1>6, RingAssumption
  DEF BatchOK, Loading, Granted, Scanned, NothingToSkip, Trailing, Handling
<1>9. ASSUME resolved, con[c].at = con[c].available
      PROVE  BatchOK(c, last, handled[c])
  <2>1. \A s \in Sequences :
          sequence[c] < s /\ s <= con[c].available => Resolved(s)
    BY <1>1, <1>2, <1>9, RingAssumption
  <2> QED
    BY <1>1, <1>3, <1>6, <2>1
    DEF BatchOK, Loading, Granted, Scanned, NothingToSkip, Trailing, Handling
<1>10. ASSUME resolved PROVE BatchOK(c, more, handled[c])
  <2>1. \A s \in Sequences :
          sequence[c] < s /\ s < con[c].at + 1 => Resolved(s)
    BY <1>1, <1>2, <1>10, RingAssumption
  <2> QED
    BY <1>1, <1>3, <1>6, <2>1
    DEF BatchOK, Loading, Granted, Scanned, NothingToSkip, Trailing, Handling
<1> QED
  BY <1>4, <1>5, <1>7, <1>8, <1>9, <1>10, RunUpdate

LEMMA SelectBatchDelivery ==
  ASSUME ConsumerInv, RingTypes, DeliveryInv, NEW c \in Consumers,
         SelectBatch(c), UNCHANGED <<cursor, outcome, hasDiscards>>
  PROVE  DeliveryInv'
<1> DEFINE end == Minimum(con[c].available, Desired(c) + MaxBatchSize - 1)
           pc == IF hasDiscards THEN "last" ELSE "handle"
           st == [con[c] EXCEPT !.pc = pc, !.skip = hasDiscards,
                    !.available = end, !.last = end, !.at = Desired(c)]
<1>1. /\ con[c].pc = "select" /\ con[c].available <= cursor
      /\ \A e \in Upstream[c] : con[c].available <= sequence[e]
      /\ \A s \in Sequences :
           sequence[c] < s /\ s <= con[c].available => Resolved(s)
  BY DEF DeliveryInv, RunOK, BatchOK, Granted, Scanned, SelectBatch
<1>2. /\ \A e \in Upstream[c] : sequence[e] \in Int
      /\ con[c].available \in Int /\ cursor \in Int /\ sequence[c] \in Int
      /\ sequence[c] <= con[c].available /\ -1 <= sequence[c]
      /\ con[c].available <= MaxSequence
  BY <1>1, Numbers, ConsumerLocal, RingAssumption DEF RingTypes, BatchAhead
<1>3. /\ end \in Int /\ sequence[c] <= end /\ end <= con[c].available
      /\ Desired(c) = sequence[c] + 1
  BY <1>2, RingAssumption DEF Minimum, Desired
<1>4. Acknowledged(c, handled[c])
  BY DEF DeliveryInv, RunOK, BatchOK
<1>5. /\ con' = [con EXCEPT ![c] = st] /\ UNCHANGED sequence
      /\ handled' = [handled EXCEPT ![c] = handled[c]]
  BY DEF SelectBatch, ConsumerInv, ConsumerTypes
<1>6. ConsumerInv' /\ PositionsAdvance
  BY SelectBatchInv DEF RingTypes
<1>7. /\ st.pc = pc /\ st.skip = hasDiscards /\ st.available = end
      /\ st.last = end /\ st.at = sequence[c] + 1
  BY <1>3 DEF ConsumerInv, ConsumerTypes, ConsumerState
<1>8. /\ pc \in {"last", "handle"}
      /\ pc = "handle" => ~hasDiscards
      /\ ~hasDiscards => \A s \in Sequences : outcome[s] # Discarded
  BY DEF RingTypes, DeliveryInv, DiscardsKnown
<1>9. end <= cursor /\ \A e \in Upstream[c] : end <= sequence[e]
  BY <1>1, <1>2, <1>3
<1> HIDE DEF end, pc, st
<1>10. \A s \in Sequences : sequence[c] < s /\ s <= end => Resolved(s)
  BY <1>1, <1>2, <1>3, RingAssumption
<1>11. Loading(c, st) /\ Granted(c, st) /\ Scanned(c, st)
  BY <1>7, <1>8, <1>9, <1>10 DEF Loading, Granted, Scanned
<1>12. NothingToSkip(c, st)
  BY <1>7, <1>8 DEF NothingToSkip
<1>13. Trailing(c, st)
  BY <1>3, <1>7, RingAssumption DEF Trailing
<1>14. ASSUME pc = "handle", sequence[c] < end PROVE outcome[end] = Published
  <2>1. end \in Sequences
    BY <1>2, <1>3, <1>14, RingAssumption
  <2>2. outcome[end] \in Resolutions /\ outcome[end] # Discarded /\ Resolved(end)
    BY <1>3, <1>8, <1>10, <1>14, <2>1 DEF RingTypes
  <2> QED
    BY <2>2 DEF Resolved
<1>15. Handling(c, st, handled[c])
  BY <1>2, <1>3, <1>7, <1>14, RingAssumption DEF Handling
<1> QED
  BY <1>4, <1>5, <1>6, <1>11, <1>12, <1>13, <1>15, RunUpdate DEF BatchOK

LEMMA FindLastDelivery ==
  ASSUME ConsumerInv, RingTypes, DeliveryInv, NEW c \in Consumers, NEW discarded,
         con[c].pc = "last" /\ sequence[c] < con[c].last =>
           (discarded <=> outcome[con[c].last] = Discarded),
         FindLast(c, discarded), UNCHANGED <<cursor, outcome, hasDiscards>>
  PROVE  DeliveryInv'
<1> DEFINE back == [con[c] EXCEPT !.last = con[c].last - 1]
           found == [con[c] EXCEPT !.pc = "handle"]
           went == con[c].last >= Desired(c) /\ discarded
<1>1. /\ con[c].pc = "last" /\ Granted(c, con[c]) /\ Scanned(c, con[c])
      /\ NothingToSkip(c, con[c]) /\ Trailing(c, con[c])
      /\ Acknowledged(c, handled[c])
  BY DEF DeliveryInv, RunOK, BatchOK, FindLast
<1>2. /\ con[c].available \in Int /\ con[c].last \in Int /\ sequence[c] \in Int
      /\ con[c].available <= MaxSequence /\ -1 <= sequence[c]
      /\ sequence[c] <= con[c].last /\ con[c].last <= con[c].available
      /\ Desired(c) = sequence[c] + 1
  BY <1>1, Numbers DEF Trailing
<1>3. \A s \in Sequences :
        con[c].last < s /\ s <= con[c].available => outcome[s] = Discarded
  BY <1>1 DEF Trailing
<1>4. UNCHANGED sequence /\ handled' = [handled EXCEPT ![c] = handled[c]]
  BY DEF FindLast, ConsumerInv, ConsumerTypes
<1>5. ConsumerInv' /\ PositionsAdvance
  BY FindLastInv
<1>6. /\ back.pc = "last" /\ back.last = con[c].last - 1
      /\ back.available = con[c].available /\ back.skip = con[c].skip
      /\ back.at = con[c].at
      /\ found.pc = "handle" /\ found.last = con[c].last
      /\ found.available = con[c].available /\ found.skip = con[c].skip
      /\ found.at = con[c].at
  BY <1>1 DEF ConsumerInv, ConsumerTypes, ConsumerState
<1>7. \/ con' = [con EXCEPT ![c] = back] /\ went
      \/ con' = [con EXCEPT ![c] = found] /\ ~went
  BY DEF FindLast
<1>8. ASSUME went
      PROVE /\ sequence[c] <= con[c].last - 1 /\ con[c].last - 1 <= con[c].available
            /\ outcome[con[c].last] = Discarded
  BY <1>1, <1>2, <1>8
<1>9. ASSUME ~went, sequence[c] < con[c].last PROVE outcome[con[c].last] = Published
  <2>1. con[c].last \in Sequences
    BY <1>2, <1>9, RingAssumption
  <2>2. outcome[con[c].last] \in Resolutions /\ Resolved(con[c].last)
    BY <1>1, <1>2, <1>9, <2>1 DEF RingTypes, Scanned
  <2>3. outcome[con[c].last] # Discarded
    BY <1>1, <1>2, <1>9
  <2> QED
    BY <2>2, <2>3 DEF Resolved
<1>10. con[c].at = sequence[c] + 1
  BY <1>1 DEF Trailing
<1> HIDE DEF back, found, went
<1>11. ASSUME went PROVE BatchOK(c, back, handled[c])
  <2>1. \A s \in Sequences :
          con[c].last - 1 < s /\ s <= con[c].available => outcome[s] = Discarded
    BY <1>2, <1>3, <1>8, <1>11, RingAssumption
  <2>2. Trailing(c, back)
    BY <1>6, <1>8, <1>10, <1>11, <2>1 DEF Trailing
  <2>3. /\ Loading(c, back) /\ Granted(c, back) /\ Scanned(c, back)
        /\ NothingToSkip(c, back) /\ Handling(c, back, handled[c])
    BY <1>1, <1>6 DEF Loading, Granted, Scanned, NothingToSkip, Handling
  <2> QED
    BY <1>1, <2>2, <2>3 DEF BatchOK
<1>12. ASSUME ~went PROVE BatchOK(c, found, handled[c])
  <2>1. Handling(c, found, handled[c])
    BY <1>2, <1>6, <1>9, <1>10, <1>12, RingAssumption DEF Handling
  <2>2. Trailing(c, found)
    BY <1>2, <1>3, <1>6 DEF Trailing
  <2>3. /\ Loading(c, found) /\ Granted(c, found) /\ Scanned(c, found)
        /\ NothingToSkip(c, found)
    BY <1>1, <1>6 DEF Loading, Granted, Scanned, NothingToSkip
  <2> QED
    BY <1>1, <2>1, <2>2, <2>3 DEF BatchOK
<1> QED
  BY <1>4, <1>5, <1>7, <1>11, <1>12, RunUpdate

(* What the handling loop may assume of the sequence it looks at. *)
LEMMA InBatch ==
  ASSUME ConsumerInv, RingTypes, DeliveryInv, NEW c \in Consumers,
         con[c].pc = "handle", con[c].at <= con[c].available
  PROVE  /\ con[c].at \in Sequences /\ sequence[c] < con[c].at
         /\ outcome[con[c].at] \in {Published, Discarded}
         /\ ~con[c].skip => outcome[con[c].at] = Published
<1>1. /\ Scanned(c, con[c]) /\ NothingToSkip(c, con[c])
      /\ Handling(c, con[c], handled[c])
  BY DEF DeliveryInv, RunOK, BatchOK
<1>2. con[c].at \in Sequences /\ sequence[c] < con[c].at
  BY <1>1, Numbers, RingAssumption DEF Handling
<1>3. outcome[con[c].at] \in Resolutions /\ Resolved(con[c].at)
  BY <1>1, <1>2 DEF RingTypes, Scanned
<1>4. ~con[c].skip => outcome[con[c].at] # Discarded
  BY <1>1, <1>2 DEF NothingToSkip
<1> QED
  BY <1>2, <1>3, <1>4 DEF Resolved

(* The steps of the handling loop that go on to the next sequence. *)
LEMMA HandledOneDelivery ==
  ASSUME ConsumerInv, RingTypes, DeliveryInv, NEW c \in Consumers,
         con[c].pc = "handle", con[c].at <= con[c].available,
         NEW done,
         \/ done = handled[c] /\ outcome[con[c].at] = Discarded
         \/ done = handled[c] \cup {con[c].at} /\ outcome[con[c].at] = Published,
         con' = [con EXCEPT ![c].at = @ + 1],
         handled' = [handled EXCEPT ![c] = done],
         UNCHANGED <<sequence, cursor, outcome, hasDiscards>>
  PROVE  DeliveryInv'
<1> DEFINE st == [con[c] EXCEPT !.at = con[c].at + 1]
<1>1. /\ Granted(c, con[c]) /\ Scanned(c, con[c])
      /\ NothingToSkip(c, con[c]) /\ Trailing(c, con[c])
      /\ Handling(c, con[c], handled[c]) /\ Acknowledged(c, handled[c])
  BY DEF DeliveryInv, RunOK, BatchOK
<1>2. /\ con[c].available \in Int /\ con[c].at \in Int /\ sequence[c] \in Int
      /\ con[c].last \in Int /\ sequence[c] < con[c].at /\ con[c].at \in Sequences
  BY Numbers, InBatch
<1>3. ConsumerInv' /\ PositionsAdvance
  <2>1. handled' \in {handled, [handled EXCEPT ![c] = @ \cup {con[c].at}]}
    BY DEF ConsumerInv, ConsumerTypes
  <2> QED
    BY <2>1, HandledOneInv
<1>4. con' = [con EXCEPT ![c] = st]
  OBVIOUS
<1>5. /\ st.pc = "handle" /\ st.last = con[c].last /\ st.skip = con[c].skip
      /\ st.available = con[c].available /\ st.at = con[c].at + 1
  BY DEF ConsumerInv, ConsumerTypes, ConsumerState
<1> HIDE DEF st
<1>6. Acknowledged(c, done)
  BY <1>1 DEF Acknowledged
<1>7. \A s \in Sequences :
        sequence[c] < s /\ s < con[c].at + 1 /\ outcome[s] = Published => s \in done
  <2> SUFFICES ASSUME NEW s \in Sequences, sequence[c] < s, s < con[c].at + 1,
                      outcome[s] = Published
               PROVE  s \in done
    OBVIOUS
  <2>1. CASE s = con[c].at
    BY <2>1
  <2>2. CASE s < con[c].at
    BY <1>1, <2>2 DEF Handling
  <2> QED
    BY <1>2, <2>1, <2>2, RingAssumption
<1>8. Handling(c, st, done)
  <2>1. sequence[c] < con[c].at + 1 /\ con[c].at + 1 <= con[c].available + 1
    BY <1>2
  <2>2. sequence[c] < st.last => outcome[st.last] = Published
    BY <1>1, <1>5 DEF Handling
  <2> QED
    BY <1>5, <1>7, <2>1, <2>2 DEF Handling
<1>9. /\ Loading(c, st) /\ Granted(c, st) /\ Scanned(c, st)
      /\ NothingToSkip(c, st) /\ Trailing(c, st)
  BY <1>1, <1>5 DEF Loading, Granted, Scanned, NothingToSkip, Trailing
<1> QED
  BY <1>3, <1>4, <1>6, <1>8, <1>9, RunUpdate DEF BatchOK

LEMMA AcknowledgeDelivery ==
  ASSUME ConsumerInv, RingTypes, DeliveryInv, NEW c \in Consumers,
         Acknowledge(c), UNCHANGED <<cursor, outcome, hasDiscards>>
  PROVE  DeliveryInv'
<1>1. /\ con[c].pc = "handle" /\ Trails(c)
      /\ Granted(c, con[c]) /\ Scanned(c, con[c])
      /\ Handling(c, con[c], handled[c]) /\ Acknowledged(c, handled[c])
  BY DEF DeliveryInv, RunOK, BatchOK, Acknowledge
<1>2. /\ con[c].available \in Int /\ con[c].at \in Int /\ sequence[c] \in Int
      /\ con[c].available < con[c].at
  BY Numbers DEF Acknowledge
<1>3. ConsumerInv' /\ PositionsAdvance
  BY AcknowledgeInv
<1>4. /\ sequence'[c] = con[c].available /\ con'[c] = IdleConsumer(c)
      /\ handled'[c] = handled[c]
  BY DEF Acknowledge, ConsumerInv, ConsumerTypes
<1>5. DiscardsKnown'
  BY DEF DeliveryInv, DiscardsKnown
<1>6. \A s \in Sequences : s <= con[c].available => Resolved(s)
  BY <1>1, <1>2, RingAssumption DEF Trails, Scanned
<1>7. \A s \in Sequences : s <= con[c].available /\ outcome[s] = Published
                             => s \in handled[c]
  BY <1>1, <1>2, RingAssumption DEF Acknowledged, Handling
<1>8. Trails(c)'
  <2>1. ASSUME NEW d \in Upstream[c] PROVE con[c].available <= sequence'[d]
    <3>1. d \in Consumers /\ sequence[d] <= sequence'[d]
      BY <1>3, RingAssumption DEF PositionsAdvance
    <3>2. sequence[d] \in Int /\ sequence'[d] \in Int
      BY <1>3, <3>1 DEF ConsumerInv, ConsumerTypes
    <3> QED
      BY <1>1, <1>2, <3>1, <3>2 DEF Granted
  <2> QED
    BY <1>1, <1>4, <1>6, <2>1 DEF Trails, Granted, Resolved
<1>9. BatchOK(c, con[c], handled[c])'
  <2>1. Acknowledged(c, handled[c])'
    BY <1>1, <1>4, <1>7 DEF Acknowledged
  <2>2. con'[c].pc = "wait" /\ con'[c].unread = Upstream[c]
    BY <1>4 DEF IdleConsumer
  <2> QED
    BY <2>1, <2>2 DEF BatchOK, Loading, Granted, Scanned, NothingToSkip, Trailing,
                      Handling
<1>10. ASSUME NEW d \in Consumers, d # c PROVE RunOK(d)'
  <2>1. con'[d] = con[d] /\ sequence'[d] = sequence[d] /\ handled'[d] = handled[d]
    BY <1>10 DEF Acknowledge, ConsumerInv, ConsumerTypes
  <2>2. RunOK(d) /\ RingTypes' /\ OutcomesFinal
    BY DEF DeliveryInv, RingTypes, OutcomesFinal
  <2> QED
    BY <1>3, <2>1, <2>2, RunKept
<1> QED
  BY <1>5, <1>8, <1>9, <1>10 DEF DeliveryInv, RunOK

(***************************************************************************)
(* Whatever a consumer does preserves what it may rely on, as long as its  *)
(* sequencer answers truthfully: WaitFor, Run and processBatch hand over   *)
(* every published sequence in order and no other one.                     *)
(***************************************************************************)
LEMMA ConsumerStepDelivery ==
  ASSUME ConsumerInv, RingTypes, DeliveryInv,
         NEW c \in Consumers, NEW resolved, NEW lastDiscarded, NEW discarded,
         NEW then \in {"scan", "select"},
         TrueAnswers(c, resolved, lastDiscarded, discarded, then),
         CoreStep(c, resolved, lastDiscarded, discarded, then),
         UNCHANGED <<cursor, outcome, hasDiscards>>
  PROVE  DeliveryInv'
<1> USE DEF TrueAnswers
<1>1. CASE WaitForCursor(c, then)
  BY <1>1, WaitForCursorDelivery
<1>2. CASE \E d \in Consumers : WaitForDependency(c, d, then)
  BY <1>2, WaitForDependencyDelivery
<1>3. CASE Scan(c, resolved)
  BY <1>3, ScanDelivery
<1>4. CASE SelectBatch(c)
  BY <1>4, SelectBatchDelivery
<1>5. CASE FindLast(c, lastDiscarded)
  BY <1>5, FindLastDelivery
<1>6. CASE Deliver(c, discarded)
  <2>1. con[c].pc = "handle" /\ con[c].at <= con[c].available
    BY <1>6 DEF Deliver, Invokes
  <2>2. outcome[con[c].at] = Published
    BY <1>6, <2>1, InBatch DEF Deliver, Invokes
  <2>3. /\ con' = [con EXCEPT ![c].at = @ + 1] /\ UNCHANGED sequence
        /\ handled' = [handled EXCEPT ![c] = handled[c] \cup {con[c].at}]
    BY <1>6 DEF Deliver
  <2> QED
    BY <2>1, <2>2, <2>3, HandledOneDelivery
<1>7. CASE SkipDiscarded(c, discarded)
  <2>1. con[c].pc = "handle" /\ con[c].at <= con[c].available
    BY <1>7 DEF SkipDiscarded
  <2>2. outcome[con[c].at] = Discarded
    BY <1>7, <2>1 DEF SkipDiscarded
  <2>3. /\ con' = [con EXCEPT ![c].at = @ + 1] /\ UNCHANGED sequence
        /\ handled' = [handled EXCEPT ![c] = handled[c]]
    BY <1>7 DEF SkipDiscarded, ConsumerInv, ConsumerTypes
  <2> QED
    BY <2>1, <2>2, <2>3, HandledOneDelivery
<1>8. CASE FailHandler(c, discarded)
  <2>1. /\ con' = [con EXCEPT ![c] = IdleConsumer(c)] /\ UNCHANGED sequence
        /\ handled' = [handled EXCEPT ![c] = handled[c]]
    BY <1>8 DEF FailHandler, ConsumerInv, ConsumerTypes
  <2>2. ConsumerInv' /\ PositionsAdvance
    BY <1>8, ConsumerStepInv DEF CoreStep, RingTypes
  <2> QED
    BY <2>1, <2>2, RunRestarts, RunUpdate
<1>9. CASE Acknowledge(c)
  BY <1>9, AcknowledgeDelivery
<1> QED
  BY <1>1, <1>2, <1>3, <1>4, <1>5, <1>6, <1>7, <1>8, <1>9 DEF CoreStep

-----------------------------------------------------------------------------
(* What follows from the invariant. *)
LEMMA DeliveryHandled ==
  ASSUME ConsumerInv, DeliveryInv
  PROVE  AcknowledgedWasHandled
<1> SUFFICES ASSUME NEW c \in Consumers
             PROVE  /\ \A s \in 0 .. sequence[c] :
                         outcome[s] = Published => s \in handled[c]
                    /\ \A s \in handled[c] : outcome[s] = Published
  BY DEF AcknowledgedWasHandled
<1>1. Acknowledged(c, handled[c])
  BY DEF DeliveryInv, RunOK, BatchOK
<1>2. 0 .. sequence[c] \subseteq Sequences
  BY Numbers, RingAssumption
<1>3. \A s \in 0 .. sequence[c] : s <= sequence[c]
  BY Numbers
<1> QED
  BY <1>1, <1>2, <1>3 DEF Acknowledged

LEMMA DeliveryEndOfBatch ==
  ASSUME ConsumerInv, DeliveryInv
  PROVE  EndOfBatchIsLastDelivered
<1> SUFFICES ASSUME NEW c \in Consumers, con[c].pc = "handle"
             PROVE  /\ con[c].last >= Desired(c) => outcome[con[c].last] = Published
                    /\ \A s \in con[c].last + 1 .. con[c].available :
                         outcome[s] = Discarded
  BY DEF EndOfBatchIsLastDelivered
<1>1. Trailing(c, con[c]) /\ Handling(c, con[c], handled[c])
  BY DEF DeliveryInv, RunOK, BatchOK
<1> QED
  BY <1>1, Numbers, RingAssumption DEF Trailing, Handling

(***************************************************************************)
(* Gating the final stage protects every stage: a bound below all gates is *)
(* below every consumer, because positions fall along the barriers.        *)
(***************************************************************************)
LEMMA GatesBoundEveryone ==
  ASSUME ConsumerInv, DeliveryInv, NEW bound \in Int,
         \A g \in Gating : bound <= sequence[g], NEW c \in Consumers
  PROVE  bound <= sequence[c]
<1> DEFINE V == {d \in Consumers : sequence[d] <= sequence[c]}
<1>1. \A d \in Consumers : sequence[d] \in Int
  BY Numbers
<1>2. c \in V
  BY <1>1
<1>3. DownstreamClosed(V)
  <2> SUFFICES ASSUME NEW d \in V, NEW e \in Consumers, d \in Upstream[e]
               PROVE  e \in V
    BY DEF DownstreamClosed
  <2>1. sequence[e] <= sequence[d]
    BY DEF DeliveryInv, RunOK, Trails
  <2> QED
    BY <1>1, <2>1
<1>4. V \in SUBSET Consumers
  OBVIOUS
<1>5. PICK g \in Gating : g \in V
  BY <1>2, <1>3, <1>4, TopologyAssumption
<1> QED
  BY <1>1, <1>5, RingAssumption

(* Storing a position is an Advance of the broadcast, unless it is empty. *)
LEMMA AcknowledgeAdvances ==
  ASSUME ConsumerInv, RingTypes, DeliveryInv, NEW c \in Consumers, Acknowledge(c)
  PROVE  LET end == con[c].available
         IN /\ sequence' = [sequence EXCEPT ![c] = end]
            /\ sequence[c] <= end /\ end <= cursor
            /\ end \in Int /\ end <= MaxSequence
            /\ \A s \in sequence[c] + 1 .. end : Resolved(s)
            /\ \A d \in Upstream[c] : end <= sequence[d]
<1>1. con[c].pc = "handle" /\ Granted(c, con[c]) /\ Scanned(c, con[c])
  BY DEF DeliveryInv, RunOK, BatchOK, Acknowledge
<1>2. sequence[c] <= con[c].available
  BY <1>1, ConsumerLocal DEF BatchAhead
<1>3. sequence[c] + 1 .. con[c].available \subseteq Sequences
  BY Numbers, RingAssumption
<1>4. \A s \in sequence[c] + 1 .. con[c].available : Resolved(s)
  BY <1>1, <1>3, Numbers DEF Scanned
<1> QED
  BY <1>1, <1>2, <1>4, Numbers DEF Granted, Acknowledge
=============================================================================
