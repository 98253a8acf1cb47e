---------------------------- MODULE GateRegistry -----------------------------
(***************************************************************************)
(* sequencerBase: gates that are registered and removed while producers    *)
(* claim, the signal list of a Sequence, the blocking producer wait, Close *)
(* and Shutdown.  Producers claim one sequence at a time with the loop of  *)
(* multiProducerSequencer.Next; what they claim counts as published, since *)
(* publication is the subject of MultiProducer.  One action is one access  *)
(* to shared memory; taking gatingMu is part of the first access under it  *)
(* and its release part of the last.                                       *)
(***************************************************************************)
EXTENDS Integers

CONSTANTS
  BufferSize,    \* physical slots of the ring
  MaxSequence,   \* bound of the model: the last sequence that is claimed
  MaxCopies,     \* bound of the model: how often one gate is registered
  Producers,     \* the goroutines that claim
  Gates,         \* the Sequences that may be registered as gates
  Admins,        \* the goroutines that call the operations of Calls
  Calls

ASSUME RegistryAssumption ==
  /\ BufferSize \in Nat \ {0} /\ MaxSequence \in Nat /\ MaxCopies \in Nat \ {0}
  /\ Calls \subseteq {"Add", "Remove", "Close", "Shutdown", "Cancel"}

VARIABLES
  cursor, gateCache,   \* as in MultiProducer
  gates,        \* sequencerBase.gating: how often the list holds each gate
  value,        \* Sequence.value of each gate
  signals,      \* whether Sequence.signals of each gate holds the waiter
  sealed, closed, closedCh,
  closeOnce,    \* sync.Once: "none", "busy" or "done"
  gatingMu,     \* gatingMu is held
  prod,         \* the local state of each producer
  owner,        \* the local state of the consumer that stores each gate
  admin,        \* the local state of each administrator
  sealedAt      \* history: the cursor, and whether no claim was under way,
                \* when Shutdown sealed the ring

registry == <<gates, signals, closeOnce, gatingMu>>
lifecycle == <<sealed, closed, closedCh, sealedAt>>
vars == <<cursor, gateCache, value, registry, lifecycle, prod, owner, admin>>

Positions == -1 .. MaxSequence
Registered == {g \in Gates : gates[g] > 0}

IdleProducer ==
  [pc |-> "idle", current |-> -1, unread |-> {}, minimum |-> -1, fired |-> FALSE]
ProducerState ==
  [pc : {"idle", "sealed", "cursor", "cache", "prepare", "list", "gates",
         "decide", "block", "cas"},
   current : Positions,         \* the cursor as loaded
   unread : SUBSET Gates,       \* gates minimumSequence has yet to read
   minimum : Positions,         \* the slowest gate read so far
   fired : BOOLEAN]             \* the prepared channel is closed

IdleAdmin ==
  [pc |-> "idle", gate |-> {}, at |-> -1, unread |-> {}, behind |-> FALSE,
   result |-> "none"]
AdminState ==
  [pc : {"idle", "add", "store", "restore", "enlist", "append", "unlist", "wake",
         "seal", "once", "channel", "signal", "unhook",
         "shutdown", "boundary", "snapshot", "drain"},
   gate : SUBSET Gates,         \* the gate added or removed; Shutdown's snapshot
   at : Positions,              \* the cursor as loaded
   unread : SUBSET Gates,       \* gates Shutdown has yet to read in this round
   behind : BOOLEAN,            \* one of those it read is behind its boundary
   result : {"none", "nil", "closed", "context"}]

(* The ring after the gates of the topology were registered, before claims. *)
Init ==
  /\ cursor = -1 /\ gateCache = -1
  /\ gates \in [Gates -> 0 .. MaxCopies]
  /\ value = [g \in Gates |-> -1]
  /\ signals = [g \in Gates |-> gates[g] > 0]
  /\ sealed = FALSE /\ closed = FALSE /\ closedCh = FALSE
  /\ closeOnce = "none" /\ gatingMu = FALSE
  /\ prod = [p \in Producers |-> IdleProducer]
  /\ owner = [g \in Gates |-> [pc |-> "stopped", next |-> 0]]
  /\ admin = [a \in Admins |-> IdleAdmin]
  /\ sealedAt = [cursor |-> MaxSequence, quiet |-> FALSE]

DefectWrapPoint(p) == prod[p].current - BufferSize   \* off by one
WrapPoint(p) == prod[p].current + 1 - BufferSize
Step(p, pc) == prod' = [prod EXCEPT ![p].pc = pc]

(* producerWaiter.signalAll closes the channel that waiters have prepared. *)
Fire ==
  prod' = [p \in Producers |-> [prod[p] EXCEPT
             !.fired = prod[p].pc \in {"list", "gates", "decide", "block"}]]

-----------------------------------------------------------------------------
(* The producers: the loop of Next. *)
CheckSealed(p) ==
  /\ prod[p].pc \in {"idle", "sealed"}
  /\ \/ ~sealed /\ Step(p, "cursor")
     \/ sealed /\ prod[p].pc = "sealed" /\ prod' = [prod EXCEPT ![p] = IdleProducer]
  /\ UNCHANGED <<cursor, gateCache, value, registry, lifecycle, owner, admin>>

LoadCursor(p) ==
  /\ prod[p].pc = "cursor" /\ cursor < MaxSequence
  /\ prod' = [prod EXCEPT ![p].pc = "cache", ![p].current = cursor]
  /\ UNCHANGED <<cursor, gateCache, value, registry, lifecycle, owner, admin>>

LoadGateCache(p) ==
  /\ prod[p].pc = "cache"
  /\ Step(p, IF WrapPoint(p) > gateCache \/ gateCache > prod[p].current
             THEN "prepare" ELSE "cas")
  /\ UNCHANGED <<cursor, gateCache, value, registry, lifecycle, owner, admin>>

(* prepare() holds on to the channel before the gates are read. *)
PrepareWait(p) ==
  /\ prod[p].pc = "prepare"
  /\ prod' = [prod EXCEPT ![p].pc = "list", ![p].fired = FALSE]
  /\ UNCHANGED <<cursor, gateCache, value, registry, lifecycle, owner, admin>>

(* gates() loads the copy-on-write list. *)
LoadList(p) ==
  /\ prod[p].pc = "list"
  /\ prod' = [prod EXCEPT ![p].unread = Registered,
                          ![p].minimum = IF Registered = {} THEN prod[p].current
                                         ELSE MaxSequence,
                          ![p].pc = IF Registered = {} THEN "decide" ELSE "gates"]
  /\ UNCHANGED <<cursor, gateCache, value, registry, lifecycle, owner, admin>>

LoadGate(p, g) ==
  /\ prod[p].pc = "gates" /\ g \in prod[p].unread
  /\ prod' = [prod EXCEPT
       ![p].unread = @ \ {g},
       ![p].minimum = IF value[g] < @ THEN value[g] ELSE @,
       ![p].pc = IF prod[p].unread = {g} THEN "decide" ELSE "gates"]
  /\ UNCHANGED <<cursor, gateCache, value, registry, lifecycle, owner, admin>>

(* Defect: the channel is prepared after the gates were read. *)
DefectPrepareLate(p) ==
  /\ prod[p].pc = "decide"
  /\ \/ /\ WrapPoint(p) > prod[p].minimum
        /\ prod' = [prod EXCEPT ![p].pc = "block", ![p].fired = FALSE]
        /\ UNCHANGED gateCache
     \/ /\ WrapPoint(p) <= prod[p].minimum
        /\ Step(p, "cas") /\ gateCache' = prod[p].minimum
  /\ UNCHANGED <<cursor, value, registry, lifecycle, owner, admin>>

(* Enough capacity stores the cache; too little waits on the channel. *)
Decide(p) ==
  /\ prod[p].pc = "decide"
  /\ \/ /\ WrapPoint(p) > prod[p].minimum
        /\ Step(p, "block") /\ UNCHANGED gateCache
     \/ /\ WrapPoint(p) <= prod[p].minimum
        /\ Step(p, "cas") /\ gateCache' = prod[p].minimum
  /\ UNCHANGED <<cursor, value, registry, lifecycle, owner, admin>>

(* The select of producerWaiter.wait, with any of the cases that are ready. *)
Wake(p) ==
  /\ prod[p].pc = "block"
  /\ \/ prod[p].fired /\ prod' = [prod EXCEPT ![p] = [IdleProducer EXCEPT !.pc = "sealed"]]
     \/ closedCh /\ prod' = [prod EXCEPT ![p] = IdleProducer]
  /\ UNCHANGED <<cursor, gateCache, value, registry, lifecycle, owner, admin>>

(* The third case, ctx.Done(), which nobody has to bring about. *)
CancelClaim(p) ==
  /\ "Cancel" \in Calls /\ prod[p].pc = "block"
  /\ prod' = [prod EXCEPT ![p] = IdleProducer]
  /\ UNCHANGED <<cursor, gateCache, value, registry, lifecycle, owner, admin>>

CompareAndSwap(p) ==
  /\ prod[p].pc = "cas"
  /\ \/ /\ cursor = prod[p].current /\ cursor' = cursor + 1
        /\ prod' = [prod EXCEPT ![p] = IdleProducer]
     \/ /\ cursor # prod[p].current /\ UNCHANGED cursor
        /\ prod' = [prod EXCEPT ![p] = [IdleProducer EXCEPT !.pc = "sealed"]]
  /\ UNCHANGED <<gateCache, value, registry, lifecycle, owner, admin>>

-----------------------------------------------------------------------------
(***************************************************************************)
(* The consumers.  Each one is started after its sequence is registered,   *)
(* if ever it is, and loads it then; Store acknowledges and signals.       *)
(***************************************************************************)
StartOwner(g) ==
  /\ owner[g].pc = "stopped"
  /\ \A a \in Admins :
       ~(admin[a].pc \in {"add", "store", "restore", "enlist", "append"} /\ g \in admin[a].gate)
  /\ owner' = [owner EXCEPT ![g] = [pc |-> "running", next |-> value[g] + 1]]
  /\ UNCHANGED <<cursor, gateCache, value, registry, lifecycle, prod, admin>>

StoreGate(g, end) ==
  /\ owner[g].pc = "running" /\ owner[g].next <= end /\ end <= cursor
  /\ value' = [value EXCEPT ![g] = end]
  /\ owner' = [owner EXCEPT ![g] = [pc |-> "signal", next |-> end + 1]]
  /\ UNCHANGED <<cursor, gateCache, registry, lifecycle, prod, admin>>

(* Sequence.signalAll loads the list and signals who is on it. *)
SignalGate(g) ==
  /\ owner[g].pc = "signal"
  /\ IF signals[g] THEN Fire ELSE UNCHANGED prod
  /\ owner' = [owner EXCEPT ![g].pc = "running"]
  /\ UNCHANGED <<cursor, gateCache, value, registry, lifecycle, admin>>

-----------------------------------------------------------------------------
(***************************************************************************)
(* AddGatingSequences(g): unless the ring is closed, load the cursor, ...  *)
(***************************************************************************)
BeginAdd(a, g) ==
  /\ "Add" \in Calls
  /\ admin[a].pc = "idle" /\ ~gatingMu /\ ~closed
  /\ owner[g].pc = "stopped" /\ gates[g] < MaxCopies
  /\ gatingMu' = TRUE
  /\ admin' = [admin EXCEPT ![a] = [IdleAdmin EXCEPT !.pc = "add", !.gate = {g}]]
  /\ UNCHANGED <<cursor, gateCache, value, gates, signals, closeOnce, lifecycle, prod, owner>>

AddLoadCursor(a) ==
  /\ admin[a].pc = "add"
  /\ admin' = [admin EXCEPT ![a].pc = "store", ![a].at = cursor]
  /\ UNCHANGED <<cursor, gateCache, value, registry, lifecycle, prod, owner>>

(* ... Store it into the gate, which signals if it was registered before, *)
AddStore(a, g) ==
  /\ admin[a].pc = "store" /\ g \in admin[a].gate
  /\ value' = [value EXCEPT ![g] = admin[a].at]
  /\ admin' = [admin EXCEPT ![a].pc = "restore"]
  /\ UNCHANGED <<cursor, gateCache, registry, lifecycle, prod, owner>>

AddSignal(a, g) ==
  /\ admin[a].pc = "restore" /\ g \in admin[a].gate
  /\ IF signals[g] THEN Fire ELSE UNCHANGED prod
  /\ admin' = [admin EXCEPT ![a].pc = "enlist"]
  /\ UNCHANGED <<cursor, gateCache, value, registry, lifecycle, owner>>

(* ... addSignal (once), ... *)
AddEnlist(a, g) ==
  /\ admin[a].pc = "enlist" /\ g \in admin[a].gate
  /\ signals' = [signals EXCEPT ![g] = TRUE]
  /\ admin' = [admin EXCEPT ![a].pc = "append"]
  /\ UNCHANGED <<cursor, gateCache, value, gates, closeOnce, gatingMu, lifecycle, prod, owner>>

(* ... and store the new list. *)
AddAppend(a, g) ==
  /\ admin[a].pc = "append" /\ g \in admin[a].gate
  /\ gates' = [gates EXCEPT ![g] = @ + 1]
  /\ gatingMu' = FALSE
  /\ admin' = [admin EXCEPT ![a] = IdleAdmin]
  /\ UNCHANGED <<cursor, gateCache, value, signals, closeOnce, lifecycle, prod, owner>>

(* Defect: a gate is removed that is not on the list. *)
DefectRemoveUnchecked(a, g) ==
  /\ "Remove" \in Calls
  /\ admin[a].pc = "idle" /\ ~gatingMu
  /\ gates' = [gates EXCEPT ![g] = @ - 1]
  /\ gatingMu' = TRUE
  /\ admin' = [admin EXCEPT ![a] = [IdleAdmin EXCEPT !.pc = "unlist", !.gate = {g}]]
  /\ UNCHANGED <<cursor, gateCache, value, signals, closeOnce, lifecycle, prod, owner>>

(***************************************************************************)
(* RemoveGatingSequence(g): store the list without one of g's entries, ... *)
(* A gate that is not registered returns false and changes nothing.        *)
(***************************************************************************)
BeginRemove(a, g) ==
  /\ "Remove" \in Calls
  /\ admin[a].pc = "idle" /\ ~gatingMu /\ gates[g] > 0
  /\ gates' = [gates EXCEPT ![g] = @ - 1]
  /\ gatingMu' = TRUE
  /\ admin' = [admin EXCEPT ![a] = [IdleAdmin EXCEPT !.pc = "unlist", !.gate = {g}]]
  /\ UNCHANGED <<cursor, gateCache, value, signals, closeOnce, lifecycle, prod, owner>>

(* ... remove the signal unless g is still registered, ... *)
RemoveUnlist(a, g) ==
  /\ admin[a].pc = "unlist" /\ g \in admin[a].gate
  /\ signals' = [signals EXCEPT ![g] = @ /\ gates[g] > 0]
  /\ admin' = [admin EXCEPT ![a].pc = "wake"]
  /\ UNCHANGED <<cursor, gateCache, value, gates, closeOnce, gatingMu, lifecycle, prod, owner>>

(* Defect: nobody is told that a gate is gone. *)
DefectSilentRemove(a) ==
  /\ admin[a].pc = "wake"
  /\ gatingMu' = FALSE
  /\ admin' = [admin EXCEPT ![a] = IdleAdmin]
  /\ UNCHANGED <<cursor, gateCache, value, gates, signals, closeOnce, lifecycle, prod, owner>>

(* ... and wake the producers that waited for it. *)
RemoveSignal(a) ==
  /\ admin[a].pc = "wake"
  /\ Fire
  /\ gatingMu' = FALSE
  /\ admin' = [admin EXCEPT ![a] = IdleAdmin]
  /\ UNCHANGED <<cursor, gateCache, value, gates, signals, closeOnce, lifecycle, owner>>

-----------------------------------------------------------------------------
(* Close, also deferred by Shutdown, seals the ring ... *)
BeginClose(a) ==
  /\ \/ "Close" \in Calls /\ admin[a].pc = "idle"
     \/ admin[a].pc = "seal"
  /\ sealed' = TRUE
  /\ admin' = [admin EXCEPT ![a].pc = "once"]
  /\ UNCHANGED <<cursor, gateCache, value, registry, closed, closedCh, sealedAt, prod, owner>>

(* ... and does the rest once; a second caller waits until it is done. *)
CloseFirst(a) ==
  /\ admin[a].pc = "once" /\ closeOnce = "none"
  /\ closeOnce' = "busy" /\ closed' = TRUE
  /\ admin' = [admin EXCEPT ![a].pc = "channel"]
  /\ UNCHANGED <<cursor, gateCache, value, gates, signals, gatingMu, sealed, closedCh,
                 sealedAt, prod, owner>>

CloseAgain(a) ==
  /\ admin[a].pc = "once" /\ closeOnce = "done"
  /\ admin' = [admin EXCEPT ![a] = IdleAdmin]
  /\ UNCHANGED <<cursor, gateCache, value, registry, lifecycle, prod, owner>>

CloseChannel(a) ==
  /\ admin[a].pc = "channel"
  /\ closedCh' = TRUE
  /\ admin' = [admin EXCEPT ![a].pc = "signal"]
  /\ UNCHANGED <<cursor, gateCache, value, registry, sealed, closed, sealedAt, prod, owner>>

CloseSignal(a) ==
  /\ admin[a].pc = "signal"
  /\ Fire
  /\ admin' = [admin EXCEPT ![a].pc = "unhook"]
  /\ UNCHANGED <<cursor, gateCache, value, registry, lifecycle, owner>>

(* Defect: the signals are removed without the mutex. *)
DefectUnhookUnlocked(a) ==
  /\ admin[a].pc = "unhook"
  /\ signals' = [g \in Gates |-> signals[g] /\ gates[g] = 0]
  /\ closeOnce' = "done"
  /\ admin' = [admin EXCEPT ![a] = IdleAdmin]
  /\ UNCHANGED <<cursor, gateCache, value, gates, gatingMu, lifecycle, prod, owner>>

(* removeGateSignals, for every gate on the list *)
RemoveGateSignals(a) ==
  /\ admin[a].pc = "unhook" /\ ~gatingMu
  /\ signals' = [g \in Gates |-> signals[g] /\ gates[g] = 0]
  /\ closeOnce' = "done"
  /\ admin' = [admin EXCEPT ![a] = IdleAdmin]
  /\ UNCHANGED <<cursor, gateCache, value, gates, gatingMu, lifecycle, prod, owner>>

-----------------------------------------------------------------------------
(***************************************************************************)
(* Shutdown: beginShutdown seals the ring, or returns ErrClosed (which     *)
(* changes nothing; a closed ring is sealed), and wakes the producers.     *)
(***************************************************************************)
BeginShutdown(a) ==
  /\ "Shutdown" \in Calls
  /\ admin[a].pc = "idle" /\ ~sealed
  /\ sealed' = TRUE
  /\ sealedAt' = [cursor |-> cursor, quiet |-> \A p \in Producers : prod[p].pc = "idle"]
  /\ admin' = [admin EXCEPT ![a] = [IdleAdmin EXCEPT !.pc = "shutdown"]]
  /\ UNCHANGED <<cursor, gateCache, value, registry, closed, closedCh, prod, owner>>

ShutdownSignal(a) ==
  /\ admin[a].pc = "shutdown"
  /\ Fire
  /\ admin' = [admin EXCEPT ![a].pc = "boundary"]
  /\ UNCHANGED <<cursor, gateCache, value, registry, lifecycle, owner>>

(* The boundary is the cursor, loaded after the ring was sealed ... *)
LoadBoundary(a) ==
  /\ admin[a].pc = "boundary"
  /\ admin' = [admin EXCEPT ![a].pc = "snapshot", ![a].at = cursor]
  /\ UNCHANGED <<cursor, gateCache, value, registry, lifecycle, prod, owner>>

(* ... and the gates are those on the list now. *)
LoadSnapshot(a) ==
  /\ admin[a].pc = "snapshot"
  /\ admin' = [admin EXCEPT ![a].pc = "drain", ![a].gate = Registered,
                            ![a].unread = Registered]
  /\ UNCHANGED <<cursor, gateCache, value, registry, lifecycle, prod, owner>>

(* Defect: the last gate read decides. *)
DefectDrainLast(a, g) ==
  /\ admin[a].pc = "drain" /\ g \in admin[a].unread
  /\ admin' = [admin EXCEPT ![a].unread = @ \ {g},
                            ![a].behind = value[g] < admin[a].at]
  /\ UNCHANGED <<cursor, gateCache, value, registry, lifecycle, prod, owner>>

(* minimumSequence(gates, boundary), one gate at a time. *)
DrainGate(a, g) ==
  /\ admin[a].pc = "drain" /\ g \in admin[a].unread
  /\ admin' = [admin EXCEPT ![a].unread = @ \ {g},
                            ![a].behind = @ \/ value[g] < admin[a].at]
  /\ UNCHANGED <<cursor, gateCache, value, registry, lifecycle, prod, owner>>

(* Defect: the drain does not notice that somebody else closed the ring. *)
DefectDrainBlind(a) ==
  /\ admin[a].pc = "drain" /\ admin[a].unread = {}
  /\ \/ /\ ~admin[a].behind
        /\ admin' = [admin EXCEPT ![a].pc = "seal", ![a].result = "nil"]
     \/ /\ admin[a].behind /\ "Cancel" \in Calls
        /\ admin' = [admin EXCEPT ![a].pc = "seal", ![a].result = "context"]
     \/ /\ admin[a].behind
        /\ admin' = [admin EXCEPT ![a].unread = admin[a].gate, ![a].behind = FALSE]
  /\ UNCHANGED <<cursor, gateCache, value, registry, lifecycle, prod, owner>>

(***************************************************************************)
(* The loop of awaitShutdown ends when no gate is behind, when the ring is *)
(* closed by somebody else or when the context is done; it closes then.    *)
(***************************************************************************)
EndDrain(a) ==
  /\ admin[a].pc = "drain" /\ admin[a].unread = {}
  /\ \/ /\ ~admin[a].behind
        /\ admin' = [admin EXCEPT ![a].pc = "seal", ![a].result = "nil"]
     \/ /\ admin[a].behind /\ closed
        /\ admin' = [admin EXCEPT ![a].pc = "seal", ![a].result = "closed"]
     \/ /\ admin[a].behind /\ ~closed /\ "Cancel" \in Calls
        /\ admin' = [admin EXCEPT ![a].pc = "seal", ![a].result = "context"]
     \/ /\ admin[a].behind /\ ~closed
        /\ admin' = [admin EXCEPT ![a].unread = admin[a].gate, ![a].behind = FALSE]
  /\ UNCHANGED <<cursor, gateCache, value, registry, lifecycle, prod, owner>>

-----------------------------------------------------------------------------
(* A claim in progress; LoadCursor stops at the bound of the model. *)
ClaimStep(p) ==
  \/ prod[p].pc = "sealed" /\ CheckSealed(p)
  \/ LoadCursor(p) \/ LoadGateCache(p) \/ PrepareWait(p) \/ LoadList(p)
  \/ \E g \in Gates : LoadGate(p, g)
  \/ Decide(p) \/ Wake(p) \/ CompareAndSwap(p)

OwnerStep(g) ==
  \/ StartOwner(g)
  \/ \E end \in 0 .. MaxSequence : StoreGate(g, end)
  \/ SignalGate(g)

(* What an administrator does once its call has begun. *)
AdminStep(a) ==
  \/ AddLoadCursor(a) \/ RemoveSignal(a)
  \/ \E g \in Gates : \/ AddStore(a, g) \/ AddSignal(a, g) \/ AddEnlist(a, g)
                      \/ AddAppend(a, g) \/ RemoveUnlist(a, g) \/ DrainGate(a, g)
  \/ admin[a].pc = "seal" /\ BeginClose(a)
  \/ CloseFirst(a) \/ CloseAgain(a) \/ CloseChannel(a) \/ CloseSignal(a)
  \/ RemoveGateSignals(a) \/ ShutdownSignal(a) \/ LoadBoundary(a)
  \/ LoadSnapshot(a) \/ EndDrain(a)

Next ==
  \/ \E p \in Producers : CheckSealed(p) \/ ClaimStep(p) \/ CancelClaim(p)
  \/ \E g \in Gates : OwnerStep(g)
  \/ \E a \in Admins : \/ BeginClose(a) \/ BeginShutdown(a) \/ AdminStep(a)
                       \/ \E g \in Gates : BeginAdd(a, g) \/ BeginRemove(a, g)

Spec == Init /\ [][Next]_vars

(***************************************************************************)
(* Goroutines that can run are scheduled; nobody has to claim or to call.  *)
(* Consumers may stop for good when the ring is closed.                    *)
(***************************************************************************)
Fairness ==
  /\ \A p \in Producers : WF_vars(ClaimStep(p))
  /\ \A g \in Gates : WF_vars(~closed /\ OwnerStep(g))
  /\ \A a \in Admins : WF_vars(AdminStep(a))

FairSpec == Spec /\ Fairness

-----------------------------------------------------------------------------
(* Every variable keeps its type. *)
TypeOK ==
  /\ cursor \in Positions /\ gateCache \in Positions
  /\ gates \in [Gates -> 0 .. MaxCopies] /\ value \in [Gates -> Positions]
  /\ signals \in [Gates -> BOOLEAN]
  /\ sealed \in BOOLEAN /\ closed \in BOOLEAN /\ closedCh \in BOOLEAN
  /\ closeOnce \in {"none", "busy", "done"} /\ gatingMu \in BOOLEAN
  /\ prod \in [Producers -> ProducerState]
  /\ owner \in [Gates -> [pc : {"stopped", "running", "signal"}, next : 0 .. MaxSequence + 1]]
  /\ admin \in [Admins -> AdminState]
  /\ sealedAt \in [cursor : Positions, quiet : BOOLEAN]

(***************************************************************************)
(* What the comment of AddGatingSequences promises: no claim laps a gate   *)
(* that is registered.  It holds while gates are removed at runtime.       *)
(***************************************************************************)
RegisteredProtected == \A g \in Registered : cursor - BufferSize <= value[g]

(***************************************************************************)
(* No wake-up of a producer is lost: one that sleeps on a channel nobody   *)
(* has closed has a registered gate that is too slow, or whoever made room *)
(* for it is still about to signal, or the ring's channel is closed.       *)
(***************************************************************************)
BlockedForAReason ==
  \A p \in Producers :
    prod[p].pc = "block" /\ ~prod[p].fired =>
      \/ \E g \in Registered : value[g] < WrapPoint(p)
      \/ \E g \in Gates : owner[g].pc = "signal" /\ signals[g]
      \/ \E a \in Admins : admin[a].pc \in {"restore", "unlist", "wake"}
      \/ closedCh

(***************************************************************************)
(* Whenever the registry is not being changed, the gates that signal the   *)
(* producers are exactly the registered ones, however often each of them   *)
(* was added and removed, and none is left once Close is done.             *)
(***************************************************************************)
SignalsMatchGates ==
  ~gatingMu =>
    \A g \in Gates : signals[g] <=> g \in Registered /\ closeOnce # "done"

(***************************************************************************)
(* Shutdown returns nil only when each gate of its snapshot has reached    *)
(* everything claimed when it sealed the ring; if publishers had returned  *)
(* by then, as its comment demands, that is the final claimed sequence.    *)
(***************************************************************************)
ShutdownDrains ==
  \A a \in Admins :
    admin[a].result = "nil" =>
      /\ \A g \in admin[a].gate : sealedAt.cursor <= value[g]
      /\ sealedAt.quiet => cursor = sealedAt.cursor

(* A producer that sleeps is woken, by a gate, a removal or Close. *)
SleepersWake == \A p \in Producers : prod[p].pc = "block" ~> prod[p].pc # "block"

(***************************************************************************)
(* Shutdown returns and the ring is closed for good, whoever else closes   *)
(* it or changes its gates meanwhile: it drains while consumers run, and   *)
(* gives up when they stop because somebody else closed the ring.          *)
(***************************************************************************)
ShutdownCloses ==
  \A a \in Admins :
    admin[a].pc = "shutdown" ~> (closeOnce = "done" /\ admin[a].pc = "idle")
=============================================================================
