-------------------------- MODULE GateRegistryProofs --------------------------
(***************************************************************************)
(* Theorems about GateRegistry, for every number of producers, gates and   *)
(* administrators, every buffer size and every set of calls.               *)
(***************************************************************************)
EXTENDS GateRegistry, TLAPS

(* The claim of p has loaded the cursor. *)
HasCurrent(p) == prod[p].pc \notin {"idle", "sealed", "cursor"}

CurrentBound == \A p \in Producers : HasCurrent(p) => prod[p].current < MaxSequence

-----------------------------------------------------------------------------
(***************************************************************************)
(* gatingMu excludes: one administrator at a time changes the registry.    *)
(* Nobody starts the owner of a gate that is being added, and Close cannot *)
(* finish meanwhile.                                                       *)
(***************************************************************************)
AddCalls == {"add", "store", "restore", "enlist", "append"}
Adding(a) == admin[a].pc \in AddCalls
Critical(a) == Adding(a) \/ admin[a].pc \in {"unlist", "wake"}

LockInv ==
  /\ \A a \in Admins : Critical(a) => gatingMu /\ \E g \in Gates : admin[a].gate = {g}
  /\ \A a, b \in Admins : Critical(a) /\ Critical(b) => a = b

AddInv ==
  \A a \in Admins : Adding(a) =>
    /\ closeOnce # "done"
    /\ \A g \in admin[a].gate : owner[g].pc = "stopped" /\ gates[g] < MaxCopies

(* How far Close is. *)
CloseInv ==
  /\ closeOnce # "none" => closed
  /\ closeOnce = "done" => closedCh
  /\ \A a \in Admins : /\ admin[a].pc \in {"channel", "signal", "unhook"} => closed
                       /\ admin[a].pc \in {"signal", "unhook"} => closedCh

(* The signals match the gates but for the one that is being changed. *)
Changing(a, g) == admin[a].pc \in {"append", "unlist"} /\ g \in admin[a].gate
Matches(g) == signals[g] <=> g \in Registered /\ closeOnce # "done"

SignalInv ==
  \A g \in Gates :
    /\ (\A a \in Admins : ~Changing(a, g)) => Matches(g)
    /\ \A a \in Admins : Changing(a, g) =>
         IF admin[a].pc = "append" THEN signals[g] = TRUE
         ELSE signals[g] <=> closeOnce # "done"

TypeInv == TypeOK /\ CurrentBound
RegistryInv == LockInv /\ AddInv /\ CloseInv /\ SignalInv

-----------------------------------------------------------------------------
(* Gates only advance, Add's store included, and stay behind the cursor. *)
ValueInv ==
  /\ \A g \in Gates : /\ value[g] <= cursor
                      /\ owner[g].pc # "stopped" => owner[g].next = value[g] + 1
  /\ \A a \in Admins : admin[a].pc = "store" =>
       /\ admin[a].at <= cursor
       /\ \A g \in admin[a].gate : value[g] <= admin[a].at

ValuesGrow == \A g \in Gates : value[g] <= value'[g]

(***************************************************************************)
(* Why a sleeper is woken.  Who finds a gate too slow either has a         *)
(* registered gate that still is, or somebody is about to close the        *)
(* channel that was prepared before the gates were read.                   *)
(***************************************************************************)
Waiting(p) == prod[p].pc \in {"gates", "decide", "block"} /\ ~prod[p].fired
Slow(wrap) == \E g \in Registered : value[g] < wrap
Removing == \E a \in Admins : admin[a].pc \in {"unlist", "wake"}
Storing(g) ==
  /\ signals[g]
  /\ \/ owner[g].pc = "signal"
     \/ \E a \in Admins : admin[a].pc = "restore" /\ g \in admin[a].gate
Pending == (\E g \in Gates : Storing(g)) \/ Removing \/ closedCh

WaitsFor(p) ==
  /\ Waiting(p) /\ prod[p].minimum < WrapPoint(p) => Slow(WrapPoint(p)) \/ Pending
  /\ prod[p].pc = "block" => prod[p].minimum < WrapPoint(p)
  /\ Waiting(p) /\ prod[p].pc = "gates" => prod[p].unread \subseteq Registered \/ Removing

WaitInv == \A p \in Producers : WaitsFor(p)

(* A step that takes no sleeper's reason away, however late it has to wake. *)
KeepsReasons ==
  /\ \A wrap \in Int : Slow(wrap) \/ Pending => Slow(wrap)' \/ Pending'
  /\ Removing => Removing'
  /\ Registered \subseteq Registered' \/ Removing'

-----------------------------------------------------------------------------
(* What Shutdown knows from the moment it sealed the ring. *)
Closers == {"seal", "once", "channel", "signal", "unhook"}
Shutting(a) ==
  admin[a].pc \in {"shutdown", "boundary", "snapshot", "drain"} \/ admin[a].result # "none"

Drains(a) ==
  /\ Shutting(a) => sealed /\ sealedAt.cursor <= cursor
  /\ admin[a].result # "none" => admin[a].pc \in Closers
  /\ admin[a].pc \in {"snapshot", "drain"} => sealedAt.cursor <= admin[a].at
  /\ admin[a].pc = "drain" => \A g \in admin[a].gate :
       g \in admin[a].unread \/ admin[a].behind \/ admin[a].at <= value[g]
  /\ admin[a].result = "nil" => \A g \in admin[a].gate : sealedAt.cursor <= value[g]

DrainInv == \A a \in Admins : Drains(a)

QuietInv ==
  sealedAt.quiet => /\ sealed /\ cursor = sealedAt.cursor
                    /\ \A p \in Producers : prod[p].pc = "idle"

-----------------------------------------------------------------------------
(* While no gate is added, what was read of the gates stays a lower bound. *)
CacheBehind == \A g \in Registered : gateCache <= value[g]

NobodyAdds == \A a \in Admins : ~Adding(a)

MinimumBehind(p) ==
  prod[p].pc \in {"gates", "decide"} =>
    /\ prod[p].pc = "decide" => prod[p].unread = {}
    /\ \A g \in Registered : g \in prod[p].unread \/ prod[p].minimum <= value[g]

Admitted(p) == prod[p].pc = "cas" => \A g \in Registered : WrapPoint(p) <= value[g]

ProtectInv ==
  /\ RegisteredProtected /\ CacheBehind
  /\ \A p \in Producers : MinimumBehind(p) /\ Admitted(p)

-----------------------------------------------------------------------------
(* Types. *)
LEMMA IdleTypes ==
  IdleProducer \in ProducerState /\ IdleAdmin \in AdminState
BY RegistryAssumption DEF IdleProducer, ProducerState, IdleAdmin, AdminState, Positions

LEMMA TypeInit == Init => TypeInv
<1> SUFFICES ASSUME Init PROVE TypeInv
  OBVIOUS
<1>1. /\ -1 \in Positions /\ MaxSequence \in Positions /\ 0 \in 0 .. MaxSequence + 1
  BY RegistryAssumption DEF Positions
<1>2. /\ prod \in [Producers -> ProducerState] /\ admin \in [Admins -> AdminState]
  BY IdleTypes DEF Init
<1>3. /\ owner \in [Gates -> [pc : {"stopped", "running", "signal"},
                              next : 0 .. MaxSequence + 1]]
      /\ sealedAt \in [cursor : Positions, quiet : BOOLEAN]
  BY <1>1 DEF Init
<1>4. CurrentBound
  BY DEF Init, CurrentBound, HasCurrent, IdleProducer
<1>5. gates \in [Gates -> 0 .. MaxCopies] /\ signals \in [Gates -> BOOLEAN]
  BY DEF Init
<1>6. /\ cursor \in Positions /\ gateCache \in Positions
      /\ value \in [Gates -> Positions]
  BY <1>1 DEF Init
<1>7. /\ sealed \in BOOLEAN /\ closed \in BOOLEAN /\ closedCh \in BOOLEAN
      /\ closeOnce \in {"none", "busy", "done"} /\ gatingMu \in BOOLEAN
  BY DEF Init
<1> QED
  BY <1>2, <1>3, <1>4, <1>5, <1>6, <1>7 DEF TypeInv, TypeOK

(* The numbers and records of the state. *)
LEMMA Numbers ==
  ASSUME TypeInv
  PROVE  /\ cursor \in Int /\ -1 <= cursor /\ cursor <= MaxSequence
         /\ gateCache \in Int /\ BufferSize \in Int /\ BufferSize >= 1
         /\ MaxSequence \in Int /\ 0 <= MaxSequence
         /\ \A g \in Gates : value[g] \in Int /\ -1 <= value[g]
                             /\ value[g] <= MaxSequence
BY RegistryAssumption DEF TypeInv, TypeOK, Positions

LEMMA ProducerLocal ==
  ASSUME TypeInv, NEW p \in Producers
  PROVE  /\ prod[p] \in ProducerState
         /\ prod[p].current \in Int /\ prod[p].minimum \in Int
         /\ prod[p].unread \subseteq Gates /\ prod[p].fired \in BOOLEAN
         /\ WrapPoint(p) \in Int
BY RegistryAssumption DEF TypeInv, TypeOK, ProducerState, Positions, WrapPoint

LEMMA AdminLocal ==
  ASSUME TypeInv, NEW a \in Admins
  PROVE  /\ admin[a] \in AdminState
         /\ admin[a].at \in Int /\ admin[a].gate \subseteq Gates
         /\ admin[a].unread \subseteq Gates /\ admin[a].behind \in BOOLEAN
BY RegistryAssumption DEF TypeInv, TypeOK, AdminState, Positions

LEMMA OwnerLocal ==
  ASSUME TypeInv, NEW g \in Gates
  PROVE  /\ owner[g] \in [pc : {"stopped", "running", "signal"},
                          next : 0 .. MaxSequence + 1]
         /\ owner[g].next \in Int
BY RegistryAssumption DEF TypeInv, TypeOK

(* What a step of p has to establish about its new local state. *)
LEMMA ProducerType ==
  ASSUME TypeInv, NEW p \in Producers, NEW st \in ProducerState,
         st.pc \in {"idle", "sealed", "cursor"} \/ st.current < MaxSequence,
         prod' = [prod EXCEPT ![p] = st]
  PROVE  prod' \in [Producers -> ProducerState] /\ CurrentBound'
BY DEF TypeInv, TypeOK, CurrentBound, HasCurrent

LEMMA FireType ==
  ASSUME TypeInv, Fire
  PROVE  /\ prod' \in [Producers -> ProducerState] /\ CurrentBound'
         /\ \A p \in Producers :
              /\ prod'[p].pc = prod[p].pc /\ prod'[p].current = prod[p].current
              /\ prod'[p].minimum = prod[p].minimum /\ prod'[p].unread = prod[p].unread
              /\ prod[p].pc \in {"list", "gates", "decide", "block"} => prod'[p].fired
<1> DEFINE bit(p) == prod[p].pc \in {"list", "gates", "decide", "block"}
           st(p) == [prod[p] EXCEPT !.fired = bit(p)]
<1>1. ASSUME NEW p \in Producers
      PROVE  /\ st(p) \in ProducerState /\ st(p).pc = prod[p].pc
             /\ st(p).current = prod[p].current /\ st(p).minimum = prod[p].minimum
             /\ st(p).unread = prod[p].unread /\ st(p).fired = bit(p)
  <2>1. prod[p] \in ProducerState /\ bit(p) \in BOOLEAN
    BY ProducerLocal
  <2> HIDE DEF bit
  <2>2. st(p) \in ProducerState
    BY <2>1, Zenon DEF ProducerState
  <2> QED
    BY <2>1, <2>2 DEF ProducerState
<1>2. prod' = [p \in Producers |-> st(p)]
  BY DEF Fire
<1> HIDE DEF st
<1> QED
  BY <1>1, <1>2 DEF TypeInv, CurrentBound, HasCurrent

LEMMA ProducerStepType ==
  ASSUME TypeInv, NEW p \in Producers,
         CheckSealed(p) \/ ClaimStep(p) \/ CancelClaim(p)
  PROVE  TypeInv'
<1>1. /\ prod[p] \in ProducerState /\ cursor \in Positions
      /\ IdleProducer \in ProducerState
      /\ [IdleProducer EXCEPT !.pc = "sealed"] \in ProducerState
      /\ [IdleProducer EXCEPT !.pc = "sealed"].pc = "sealed"
      /\ IdleProducer.pc = "idle"
  BY ProducerLocal, IdleTypes DEF IdleProducer, ProducerState, TypeInv, TypeOK
<1> USE RegistryAssumption
<1> HIDE DEF IdleProducer
<1>2. ASSUME NEW st \in ProducerState,
             st.pc \in {"idle", "sealed", "cursor"} \/ st.current < MaxSequence,
             prod' = [prod EXCEPT ![p] = st], cursor' \in Positions,
             gateCache' \in Positions,
             UNCHANGED <<value, registry, lifecycle, owner, admin>>
      PROVE  TypeInv'
  <2>1. prod' \in [Producers -> ProducerState] /\ CurrentBound'
    BY <1>2, ProducerType
  <2> QED
    BY <1>2, <2>1 DEF TypeInv, TypeOK, registry, lifecycle
<1>3. HasCurrent(p) => prod[p].current < MaxSequence
  BY DEF TypeInv, CurrentBound
<1>4. ASSUME NEW pc \in {"idle", "sealed", "cursor", "cache", "prepare", "list",
                         "gates", "decide", "block", "cas"}
      PROVE  /\ [prod[p] EXCEPT !.pc = pc] \in ProducerState
             /\ [prod[p] EXCEPT !.pc = pc].pc = pc
             /\ [prod[p] EXCEPT !.pc = pc].current = prod[p].current
  BY <1>1 DEF ProducerState
<1>5. CASE CheckSealed(p)
  BY <1>1, <1>2, <1>4, <1>5 DEF CheckSealed, Step, TypeInv, TypeOK
<1>6. CASE LoadCursor(p)
  <2> DEFINE st == [prod[p] EXCEPT !.pc = "cache", !.current = cursor]
  <2>1. st \in ProducerState
    BY <1>1, Zenon DEF ProducerState
  <2>2. st.current = cursor /\ cursor < MaxSequence
    BY <1>1, <1>6 DEF ProducerState, LoadCursor
  <2>3. prod' = [prod EXCEPT ![p] = st]
    BY <1>6 DEF LoadCursor
  <2> HIDE DEF st
  <2> QED
    BY <1>2, <1>6, <2>1, <2>2, <2>3 DEF LoadCursor, TypeInv, TypeOK
<1>7. CASE LoadGateCache(p)
  BY <1>1, <1>2, <1>3, <1>4, <1>7 DEF LoadGateCache, Step, HasCurrent, TypeInv, TypeOK
<1>8. CASE PrepareWait(p)
  <2> DEFINE st == [prod[p] EXCEPT !.pc = "list", !.fired = FALSE]
  <2>1. st \in ProducerState
    BY <1>1, Zenon DEF ProducerState
  <2>2. st.current = prod[p].current /\ prod[p].current < MaxSequence
    BY <1>1, <1>3, <1>8 DEF ProducerState, PrepareWait, HasCurrent
  <2>3. prod' = [prod EXCEPT ![p] = st]
    BY <1>8 DEF PrepareWait
  <2> HIDE DEF st
  <2> QED
    BY <1>2, <1>8, <2>1, <2>2, <2>3 DEF PrepareWait, TypeInv, TypeOK
<1>9. CASE LoadList(p)
  <2> DEFINE min == IF Registered = {} THEN prod[p].current ELSE MaxSequence
             pc == IF Registered = {} THEN "decide" ELSE "gates"
             st == [prod[p] EXCEPT !.unread = Registered, !.minimum = min, !.pc = pc]
  <2>1. /\ Registered \subseteq Gates /\ min \in Positions
        /\ pc \in {"decide", "gates"}
    BY <1>1 DEF Registered, ProducerState, Positions
  <2>2. prod' = [prod EXCEPT ![p] = st]
    BY <1>9 DEF LoadList
  <2> HIDE DEF min, pc, Registered
  <2>3. st \in ProducerState
    BY <1>1, <2>1, Zenon DEF ProducerState
  <2>4. st.current = prod[p].current /\ prod[p].current < MaxSequence
    BY <1>1, <1>3, <1>9 DEF ProducerState, LoadList, HasCurrent
  <2> HIDE DEF st
  <2> QED
    BY <1>2, <1>9, <2>2, <2>3, <2>4 DEF LoadList, TypeInv, TypeOK
<1>10. CASE \E g \in Gates : LoadGate(p, g)
  <2>1. PICK g \in Gates : LoadGate(p, g)
    BY <1>10
  <2> DEFINE min == IF value[g] < prod[p].minimum THEN value[g] ELSE prod[p].minimum
             pc == IF prod[p].unread = {g} THEN "decide" ELSE "gates"
             rest == prod[p].unread \ {g}
             st == [prod[p] EXCEPT !.unread = rest, !.minimum = min, !.pc = pc]
  <2>2. rest \subseteq Gates /\ min \in Positions /\ pc \in {"decide", "gates"}
    BY <1>1 DEF ProducerState, TypeInv, TypeOK
  <2>3. prod' = [prod EXCEPT ![p] = st]
    BY <2>1 DEF LoadGate
  <2> HIDE DEF min, pc, rest
  <2>4. st \in ProducerState
    BY <1>1, <2>2, Zenon DEF ProducerState
  <2>5. st.current = prod[p].current /\ prod[p].current < MaxSequence
    BY <1>1, <1>3, <2>1 DEF ProducerState, LoadGate, HasCurrent
  <2> HIDE DEF st
  <2> QED
    BY <1>2, <2>1, <2>3, <2>4, <2>5 DEF LoadGate, TypeInv, TypeOK
<1>11. CASE Decide(p)
  <2>1. prod[p].minimum \in Positions
    BY <1>1 DEF ProducerState
  <2> QED
    <3>1. PICK pc \in {"block", "cas"} :
            prod' = [prod EXCEPT ![p] = [prod[p] EXCEPT !.pc = pc]]
      BY <1>11 DEF Decide, Step
    <3>2. /\ cursor' \in Positions /\ gateCache' \in Positions
          /\ UNCHANGED <<value, registry, lifecycle, owner, admin>>
      BY <1>11, <2>1 DEF Decide, TypeInv, TypeOK
    <3>3. prod[p].current < MaxSequence
      BY <1>3, <1>11 DEF Decide, HasCurrent
    <3> QED
      BY <1>2, <1>4, <3>1, <3>2, <3>3
<1>12. CASE Wake(p) \/ CancelClaim(p)
  BY <1>1, <1>2, <1>12 DEF Wake, CancelClaim, TypeInv, TypeOK
<1>13. CASE CompareAndSwap(p)
  <2>1. cursor' \in Positions
    BY <1>1, <1>3, <1>13 DEF CompareAndSwap, HasCurrent, Positions
  <2>2. /\ gateCache' \in Positions
        /\ UNCHANGED <<value, registry, lifecycle, owner, admin>>
    BY <1>13 DEF CompareAndSwap, TypeInv, TypeOK
  <2>3. \/ prod' = [prod EXCEPT ![p] = IdleProducer]
        \/ prod' = [prod EXCEPT ![p] = [IdleProducer EXCEPT !.pc = "sealed"]]
    BY <1>13 DEF CompareAndSwap
  <2> QED
    <3>1. CASE prod' = [prod EXCEPT ![p] = IdleProducer]
      BY <1>1, <1>2, <2>1, <2>2, <3>1
    <3>2. CASE prod' = [prod EXCEPT ![p] = [IdleProducer EXCEPT !.pc = "sealed"]]
      <4> DEFINE st == [IdleProducer EXCEPT !.pc = "sealed"]
      <4>1. st \in ProducerState /\ st.pc \in {"idle", "sealed", "cursor"}
        BY <1>1
      <4>2. prod' = [prod EXCEPT ![p] = st]
        BY <3>2
      <4> HIDE DEF st
      <4> QED
        BY <1>2, <2>1, <2>2, <4>1, <4>2
    <3> QED
      BY <2>3, <3>1, <3>2
<1> QED
  BY <1>5, <1>6, <1>7, <1>8, <1>9, <1>10, <1>11, <1>12, <1>13 DEF ClaimStep

-----------------------------------------------------------------------------
(* The local states of administrators. *)
AdminCalls ==
  {"idle", "add", "store", "restore", "enlist", "append", "unlist", "wake",
   "seal", "once", "channel", "signal", "unhook",
   "shutdown", "boundary", "snapshot", "drain"}

OnlyMoves(a) ==
  /\ admin' \in [Admins -> AdminState]
  /\ \A b \in Admins : b # a => admin'[b] = admin[b]

LEMMA AdminMoves ==
  ASSUME TypeInv, NEW a \in Admins, NEW st \in AdminState,
         admin' = [admin EXCEPT ![a] = st]
  PROVE  OnlyMoves(a) /\ admin'[a] = st
BY DEF TypeInv, TypeOK, OnlyMoves

LEMMA PcMoves ==
  ASSUME TypeInv, NEW a \in Admins, NEW pc \in AdminCalls,
         admin' = [admin EXCEPT ![a].pc = pc]
  PROVE  /\ OnlyMoves(a) /\ admin'[a].pc = pc
         /\ admin'[a].gate = admin[a].gate /\ admin'[a].at = admin[a].at
         /\ admin'[a].result = admin[a].result
<1> DEFINE st == [admin[a] EXCEPT !.pc = pc]
<1>1. admin[a] \in AdminState
  BY AdminLocal
<1>2. st \in AdminState
  BY <1>1, Zenon DEF AdminState, AdminCalls
<1>3. /\ st.pc = pc /\ st.gate = admin[a].gate /\ st.at = admin[a].at
      /\ st.result = admin[a].result
  BY <1>1 DEF AdminState
<1>4. admin' = [admin EXCEPT ![a] = st]
  OBVIOUS
<1> HIDE DEF st
<1> QED
  BY <1>2, <1>3, <1>4, AdminMoves

LEMMA AtMoves ==
  ASSUME TypeInv, NEW a \in Admins, NEW pc \in AdminCalls,
         admin' = [admin EXCEPT ![a].pc = pc, ![a].at = cursor]
  PROVE  /\ OnlyMoves(a) /\ admin'[a].pc = pc /\ admin'[a].at = cursor
         /\ admin'[a].gate = admin[a].gate /\ admin'[a].result = admin[a].result
<1> DEFINE st == [admin[a] EXCEPT !.pc = pc, !.at = cursor]
<1>1. admin[a] \in AdminState /\ cursor \in Positions
  BY AdminLocal DEF TypeInv, TypeOK
<1>2. st \in AdminState
  BY <1>1, Zenon DEF AdminState, AdminCalls
<1>3. /\ st.pc = pc /\ st.gate = admin[a].gate /\ st.at = cursor
      /\ st.result = admin[a].result
  BY <1>1 DEF AdminState
<1>4. admin' = [admin EXCEPT ![a] = st]
  OBVIOUS
<1> HIDE DEF st
<1> QED
  BY <1>2, <1>3, <1>4, AdminMoves

LEMMA StartMoves ==
  ASSUME TypeInv, NEW a \in Admins, NEW pc \in AdminCalls, NEW gate \in SUBSET Gates,
         admin' = [admin EXCEPT ![a] = [IdleAdmin EXCEPT !.pc = pc, !.gate = gate]]
  PROVE  /\ OnlyMoves(a) /\ admin'[a].pc = pc /\ admin'[a].gate = gate
         /\ admin'[a].result = "none"
<1> DEFINE st == [IdleAdmin EXCEPT !.pc = pc, !.gate = gate]
<1>1. IdleAdmin \in AdminState
  BY IdleTypes
<1>2. st \in AdminState
  <2> HIDE DEF IdleAdmin
  <2> QED
    BY <1>1, Zenon DEF AdminState, AdminCalls
<1>3. st.pc = pc /\ st.gate = gate /\ st.result = "none"
  BY DEF IdleAdmin
<1>4. admin' = [admin EXCEPT ![a] = st]
  OBVIOUS
<1> HIDE DEF st
<1> QED
  BY <1>2, <1>3, <1>4, AdminMoves

LEMMA IdleMoves ==
  ASSUME TypeInv, NEW a \in Admins, admin' = [admin EXCEPT ![a] = IdleAdmin]
  PROVE  OnlyMoves(a) /\ admin'[a].pc = "idle" /\ admin'[a].result = "none"
<1>1. IdleAdmin \in AdminState
  BY IdleTypes
<1>2. IdleAdmin.pc = "idle" /\ IdleAdmin.result = "none"
  BY DEF IdleAdmin
<1> QED
  BY <1>1, <1>2, AdminMoves

LEMMA ShutdownMoves ==
  ASSUME TypeInv, NEW a \in Admins, BeginShutdown(a)
  PROVE  OnlyMoves(a) /\ admin'[a].pc = "shutdown" /\ admin'[a].result = "none"
<1> DEFINE st == [IdleAdmin EXCEPT !.pc = "shutdown"]
<1>1. IdleAdmin \in AdminState
  BY IdleTypes
<1>2. st \in AdminState
  <2> HIDE DEF IdleAdmin
  <2> QED
    BY <1>1, Zenon DEF AdminState
<1>3. st.pc = "shutdown" /\ st.result = "none"
  BY DEF IdleAdmin
<1>4. admin' = [admin EXCEPT ![a] = st]
  BY DEF BeginShutdown
<1> HIDE DEF st
<1> QED
  BY <1>2, <1>3, <1>4, AdminMoves

LEMMA SnapshotMoves ==
  ASSUME TypeInv, NEW a \in Admins, LoadSnapshot(a)
  PROVE  /\ OnlyMoves(a) /\ admin'[a].pc = "drain" /\ admin'[a].at = admin[a].at
         /\ admin'[a].gate = Registered /\ admin'[a].unread = Registered
         /\ admin'[a].result = admin[a].result
<1> DEFINE st == [admin[a] EXCEPT !.pc = "drain", !.gate = Registered,
                                  !.unread = Registered]
<1>1. admin[a] \in AdminState /\ Registered \subseteq Gates
  BY AdminLocal DEF Registered
<1>2. admin' = [admin EXCEPT ![a] = st]
  BY DEF LoadSnapshot
<1> HIDE DEF Registered
<1>3. st \in AdminState
  BY <1>1, Zenon DEF AdminState
<1>4. /\ st.pc = "drain" /\ st.at = admin[a].at /\ st.gate = Registered
      /\ st.unread = Registered /\ st.result = admin[a].result
  BY <1>1 DEF AdminState
<1> HIDE DEF st
<1> QED
  BY <1>2, <1>3, <1>4, AdminMoves

LEMMA DrainMoves ==
  ASSUME TypeInv, NEW a \in Admins, NEW g \in Gates, DrainGate(a, g)
  PROVE  /\ OnlyMoves(a) /\ admin'[a].pc = "drain" /\ admin'[a].at = admin[a].at
         /\ admin'[a].gate = admin[a].gate /\ admin'[a].unread = admin[a].unread \ {g}
         /\ admin'[a].result = admin[a].result
         /\ admin'[a].behind = (admin[a].behind \/ value[g] < admin[a].at)
<1> DEFINE rest == admin[a].unread \ {g}
           behind == admin[a].behind \/ value[g] < admin[a].at
           st == [admin[a] EXCEPT !.unread = rest, !.behind = behind]
<1>1. /\ admin[a] \in AdminState /\ rest \subseteq Gates /\ behind \in BOOLEAN
      /\ admin[a].pc = "drain"
  BY AdminLocal DEF DrainGate
<1>2. admin' = [admin EXCEPT ![a] = st]
  BY DEF DrainGate
<1> HIDE DEF rest, behind
<1>3. st \in AdminState
  BY <1>1, Zenon DEF AdminState
<1>4. /\ st.pc = "drain" /\ st.at = admin[a].at /\ st.gate = admin[a].gate
      /\ st.unread = rest /\ st.behind = behind /\ st.result = admin[a].result
  BY <1>1 DEF AdminState
<1> HIDE DEF st
<1>5. /\ OnlyMoves(a) /\ admin'[a] = st
  BY <1>2, <1>3, AdminMoves
<1> QED
  BY <1>4, <1>5 DEF rest, behind

(* A drain that ends, or starts another round. *)
LEMMA EndDrainMoves ==
  ASSUME TypeInv, NEW a \in Admins, EndDrain(a)
  PROVE  /\ OnlyMoves(a) /\ admin'[a].at = admin[a].at
         /\ admin'[a].gate = admin[a].gate
         /\ admin[a].pc = "drain" /\ admin[a].unread = {}
         /\ \/ /\ admin'[a].pc = "seal" /\ admin'[a].result # "none"
               /\ admin'[a].result = "nil" => ~admin[a].behind
            \/ /\ admin'[a].pc = "drain" /\ admin'[a].unread = admin[a].gate
               /\ admin'[a].result = admin[a].result
<1>1. admin[a] \in AdminState /\ admin[a].pc = "drain" /\ admin[a].unread = {}
  BY AdminLocal DEF EndDrain
<1>2. ASSUME NEW result \in {"nil", "closed", "context"},
             admin' = [admin EXCEPT ![a].pc = "seal", ![a].result = result],
             result = "nil" => ~admin[a].behind
      PROVE  /\ OnlyMoves(a) /\ admin'[a].at = admin[a].at
             /\ admin'[a].gate = admin[a].gate
             /\ admin'[a].pc = "seal" /\ admin'[a].result # "none"
             /\ admin'[a].result = "nil" => ~admin[a].behind
  <2> DEFINE st == [admin[a] EXCEPT !.pc = "seal", !.result = result]
  <2>1. st \in AdminState
    BY <1>1, Zenon DEF AdminState
  <2>2. /\ st.pc = "seal" /\ st.at = admin[a].at /\ st.gate = admin[a].gate
        /\ st.result = result
    BY <1>1 DEF AdminState
  <2>3. admin' = [admin EXCEPT ![a] = st]
    BY <1>2
  <2> HIDE DEF st
  <2> QED
    BY <1>2, <2>1, <2>2, <2>3, AdminMoves
<1>3. ASSUME admin' = [admin EXCEPT ![a].unread = admin[a].gate, ![a].behind = FALSE]
      PROVE  /\ OnlyMoves(a) /\ admin'[a].at = admin[a].at
             /\ admin'[a].gate = admin[a].gate /\ admin'[a].pc = "drain"
             /\ admin'[a].unread = admin[a].gate /\ admin'[a].result = admin[a].result
  <2> DEFINE st == [admin[a] EXCEPT !.unread = admin[a].gate, !.behind = FALSE]
  <2>1. st \in AdminState
    BY <1>1, Zenon DEF AdminState
  <2>2. /\ st.pc = "drain" /\ st.at = admin[a].at /\ st.gate = admin[a].gate
        /\ st.unread = admin[a].gate /\ st.result = admin[a].result
    BY <1>1 DEF AdminState
  <2>3. admin' = [admin EXCEPT ![a] = st]
    BY <1>3
  <2> HIDE DEF st
  <2> QED
    BY <2>1, <2>2, <2>3, AdminMoves
<1>4. CASE ~admin[a].behind /\ admin' = [admin EXCEPT ![a].pc = "seal", ![a].result = "nil"]
  BY <1>1, <1>2, <1>4
<1>5. CASE admin' = [admin EXCEPT ![a].pc = "seal", ![a].result = "closed"]
  BY <1>1, <1>2, <1>5
<1>6. CASE admin' = [admin EXCEPT ![a].pc = "seal", ![a].result = "context"]
  BY <1>1, <1>2, <1>6
<1>7. CASE admin' = [admin EXCEPT ![a].unread = admin[a].gate, ![a].behind = FALSE]
  BY <1>1, <1>3, <1>7
<1> QED
  BY <1>1, <1>4, <1>5, <1>6, <1>7 DEF EndDrain

-----------------------------------------------------------------------------
(* The registry: gates, signals and the mutex. *)
LEMMA RegistryInit == Init => RegistryInv
<1> SUFFICES ASSUME Init PROVE RegistryInv
  OBVIOUS
<1>1. \A a \in Admins : admin[a].pc = "idle"
  BY DEF Init, IdleAdmin
<1>2. LockInv /\ AddInv /\ CloseInv
  BY <1>1 DEF LockInv, AddInv, CloseInv, Critical, Adding, AddCalls, Init
<1>3. SignalInv
  BY <1>1 DEF SignalInv, Changing, Matches, Registered, Init
<1> QED
  BY <1>2, <1>3 DEF RegistryInv

(* Steps that do not hold the mutex. *)
LEMMA OutsideLock ==
  ASSUME RegistryInv, NEW a \in Admins, OnlyMoves(a),
         ~Critical(a), ~Critical(a)', UNCHANGED <<gates, signals, gatingMu, owner>>,
         closeOnce' = "done" <=> closeOnce = "done"
  PROVE  LockInv' /\ AddInv' /\ SignalInv'
<1>1. \A b \in Admins : b # a => admin'[b] = admin[b]
  BY DEF OnlyMoves
<1>2. LockInv'
  BY <1>1 DEF RegistryInv, LockInv, Critical, Adding
<1>3. AddInv'
  BY <1>1 DEF RegistryInv, AddInv, Critical, Adding
<1>4. \A b \in Admins : \A g \in Gates : Changing(b, g)' <=> Changing(b, g)
  BY <1>1 DEF Changing, Critical, Adding, AddCalls
<1>5. \A b \in Admins : \A g \in Gates : Changing(b, g) => admin'[b] = admin[b]
  BY <1>1 DEF Changing, Critical, Adding, AddCalls
<1>6. SignalInv'
  BY <1>4, <1>5 DEF RegistryInv, SignalInv, Matches, Registered
<1> QED
  BY <1>2, <1>3, <1>6

(* Steps of AddGatingSequences that change neither gates nor signals. *)
LEMMA InsideLock ==
  ASSUME RegistryInv, NEW a \in Admins, OnlyMoves(a),
         admin[a].pc \in {"add", "store", "restore"},
         admin'[a].pc \in {"store", "restore", "enlist"},
         admin'[a].gate = admin[a].gate, UNCHANGED <<registry, owner>>
  PROVE  LockInv' /\ AddInv' /\ SignalInv'
<1>1. \A b \in Admins : b # a => admin'[b] = admin[b]
  BY DEF OnlyMoves
<1>2. Adding(a) /\ Adding(a)' /\ UNCHANGED <<gates, signals, closeOnce, gatingMu>>
  BY DEF Adding, AddCalls, registry
<1>3. LockInv'
  BY <1>1, <1>2 DEF RegistryInv, LockInv, Critical, Adding
<1>4. AddInv'
  BY <1>1, <1>2 DEF RegistryInv, AddInv, Adding
<1>5. \A b \in Admins : \A g \in Gates :
        /\ Changing(b, g)' <=> Changing(b, g)
        /\ Changing(b, g) => admin'[b] = admin[b]
  BY <1>1 DEF Changing
<1>6. SignalInv'
  BY <1>2, <1>5 DEF RegistryInv, SignalInv, Matches, Registered
<1> QED
  BY <1>3, <1>4, <1>6

(* Nobody else is critical while a is, or while the mutex is free. *)
LEMMA Alone ==
  ASSUME LockInv, NEW a \in Admins, Critical(a) \/ ~gatingMu,
         NEW b \in Admins, b # a
  PROVE  ~Critical(b) /\ \A g \in Gates : ~Changing(b, g)
BY DEF LockInv, Critical, Adding, AddCalls, Changing

LEMMA BeginAddRegistry ==
  ASSUME TypeInv, RegistryInv, NEW a \in Admins, NEW g \in Gates, BeginAdd(a, g)
  PROVE  LockInv' /\ AddInv' /\ SignalInv' /\ OnlyMoves(a)
<1>1. /\ OnlyMoves(a) /\ admin'[a].pc = "add" /\ admin'[a].gate = {g}
      /\ ~gatingMu /\ gatingMu' = TRUE /\ ~closed /\ owner[g].pc = "stopped"
      /\ gates[g] < MaxCopies /\ UNCHANGED <<gates, signals, closeOnce, owner>>
  <2>1. "add" \in AdminCalls /\ {g} \in SUBSET Gates
    BY DEF AdminCalls
  <2>2. admin' = [admin EXCEPT ![a] = [IdleAdmin EXCEPT !.pc = "add", !.gate = {g}]]
    BY DEF BeginAdd
  <2>3. OnlyMoves(a) /\ admin'[a].pc = "add" /\ admin'[a].gate = {g}
    BY <2>1, <2>2, StartMoves, Zenon
  <2> QED
    BY <2>3 DEF BeginAdd
<1>2. ASSUME NEW b \in Admins, b # a
      PROVE  admin'[b] = admin[b] /\ ~Critical(b) /\ \A h \in Gates : ~Changing(b, h)
  BY <1>1, <1>2, Alone DEF OnlyMoves, RegistryInv
<1>3. ASSUME NEW b \in Admins, b # a
      PROVE  ~Critical(b)' /\ \A h \in Gates : ~Changing(b, h)'
  BY <1>2, <1>3 DEF Critical, Adding, Changing
<1>4. LockInv'
  BY <1>1, <1>3 DEF LockInv
<1>5. AddInv'
  <2>1. closeOnce # "done"
    BY <1>1 DEF RegistryInv, CloseInv
  <2> QED
    BY <1>1, <1>3, <2>1 DEF AddInv, Critical
<1>6. \A b \in Admins : \A h \in Gates : ~Changing(b, h)'
  BY <1>1, <1>3 DEF Changing
<1>7. \A b \in Admins : \A h \in Gates : ~Changing(b, h)
  BY <1>2 DEF BeginAdd, Changing
<1>8. SignalInv'
  BY <1>1, <1>6, <1>7 DEF RegistryInv, SignalInv, Matches, Registered
<1> QED
  BY <1>1, <1>4, <1>5, <1>8

LEMMA AddEnlistRegistry ==
  ASSUME TypeInv, RegistryInv, NEW a \in Admins, NEW g \in Gates, AddEnlist(a, g)
  PROVE  LockInv' /\ AddInv' /\ SignalInv' /\ OnlyMoves(a)
<1>1. /\ OnlyMoves(a) /\ admin'[a].pc = "append" /\ admin'[a].gate = admin[a].gate
      /\ admin[a].pc = "enlist" /\ g \in admin[a].gate
      /\ signals' = [signals EXCEPT ![g] = TRUE]
      /\ UNCHANGED <<gates, closeOnce, gatingMu, owner>>
  BY PcMoves DEF AddEnlist, AdminCalls
<1>2. Adding(a) /\ Adding(a)' /\ Critical(a) /\ admin[a].gate = {g}
  BY <1>1 DEF RegistryInv, LockInv, Critical, Adding, AddCalls
<1>3. ASSUME NEW b \in Admins, b # a
      PROVE  /\ admin'[b] = admin[b]
             /\ ~Critical(b)' /\ \A h \in Gates : ~Changing(b, h) /\ ~Changing(b, h)'
  BY <1>1, <1>2, <1>3, Alone DEF OnlyMoves, RegistryInv, Critical, Adding, Changing
<1>4. LockInv'
  BY <1>1, <1>2, <1>3 DEF RegistryInv, LockInv, Critical
<1>5. AddInv'
  BY <1>1, <1>2, <1>3 DEF RegistryInv, AddInv, Critical
<1>6. \A h \in Gates : h # g => /\ signals'[h] = signals[h]
                                /\ \A b \in Admins : ~Changing(b, h) /\ ~Changing(b, h)'
  BY <1>1, <1>2, <1>3 DEF Changing, TypeInv, TypeOK
<1>7. signals'[g] = TRUE /\ Changing(a, g)'
  BY <1>1 DEF TypeInv, TypeOK, Changing
<1>8. SignalInv'
  <2> SUFFICES ASSUME NEW h \in Gates
               PROVE  /\ (\A b \in Admins : ~Changing(b, h)') => Matches(h)'
                      /\ \A b \in Admins : Changing(b, h)' =>
                           IF admin'[b].pc = "append" THEN signals'[h] = TRUE
                           ELSE signals'[h] <=> closeOnce' # "done"
    BY DEF SignalInv
  <2>1. CASE h = g
    BY <1>1, <1>3, <1>7, <2>1
  <2>2. CASE h # g
    BY <1>1, <1>6, <2>2 DEF RegistryInv, SignalInv, Matches, Registered
  <2> QED
    BY <2>1, <2>2
<1> QED
  BY <1>1, <1>4, <1>5, <1>8

LEMMA AddAppendRegistry ==
  ASSUME TypeInv, RegistryInv, NEW a \in Admins, NEW g \in Gates, AddAppend(a, g)
  PROVE  /\ LockInv' /\ AddInv' /\ SignalInv' /\ OnlyMoves(a)
         /\ gates' \in [Gates -> 0 .. MaxCopies]
         /\ \A h \in Registered : h \in Registered'
<1>1. /\ OnlyMoves(a) /\ admin'[a].pc = "idle"
      /\ admin[a].pc = "append" /\ g \in admin[a].gate
      /\ gates' = [gates EXCEPT ![g] = gates[g] + 1]
      /\ UNCHANGED <<signals, closeOnce, owner>>
  BY IdleMoves DEF AddAppend
<1>2. Adding(a) /\ Critical(a) /\ admin[a].gate = {g} /\ Changing(a, g)
  BY <1>1 DEF RegistryInv, LockInv, Critical, Adding, AddCalls, Changing
<1>3. ASSUME NEW b \in Admins
      PROVE  ~Critical(b)' /\ ~Adding(b)' /\ \A h \in Gates : ~Changing(b, h)'
  <2>1. CASE b = a
    BY <1>1, <2>1 DEF Critical, Adding, AddCalls, Changing
  <2>2. CASE b # a
    BY <1>1, <1>2, <2>2, Alone DEF OnlyMoves, RegistryInv, Critical, Adding, Changing
  <2> QED
    BY <2>1, <2>2
<1>4. LockInv' /\ AddInv'
  BY <1>3 DEF LockInv, AddInv
<1>5. /\ signals[g] = TRUE /\ closeOnce # "done" /\ gates[g] < MaxCopies
      /\ gates \in [Gates -> 0 .. MaxCopies] /\ MaxCopies \in Int
  BY <1>1, <1>2, RegistryAssumption
  DEF RegistryInv, SignalInv, AddInv, TypeInv, TypeOK
<1>6. /\ gates'[g] > 0 /\ \A h \in Gates : h # g => gates'[h] = gates[h]
      /\ gates' \in [Gates -> 0 .. MaxCopies]
  BY <1>1, <1>5
<1>7. SignalInv'
  <2> SUFFICES ASSUME NEW h \in Gates PROVE Matches(h)'
    BY <1>3 DEF SignalInv
  <2>1. CASE h = g
    BY <1>1, <1>5, <1>6, <2>1 DEF Matches, Registered
  <2>2. CASE h # g
    <3>1. \A b \in Admins : ~Changing(b, h)
      BY <1>2, <2>2, Alone DEF RegistryInv, Changing
    <3> QED
      BY <1>1, <1>6, <2>2, <3>1 DEF RegistryInv, SignalInv, Matches, Registered
  <2> QED
    BY <2>1, <2>2
<1>8. \A h \in Registered : h \in Registered'
  BY <1>6 DEF Registered
<1> QED
  BY <1>1, <1>4, <1>6, <1>7, <1>8

LEMMA BeginRemoveRegistry ==
  ASSUME TypeInv, RegistryInv, NEW a \in Admins, NEW g \in Gates, BeginRemove(a, g)
  PROVE  /\ LockInv' /\ AddInv' /\ SignalInv' /\ OnlyMoves(a)
         /\ gates' \in [Gates -> 0 .. MaxCopies] /\ admin'[a].pc = "unlist"
         /\ \A h \in Registered' : h \in Registered
         /\ admin'[a].result = "none"
<1>1. /\ OnlyMoves(a) /\ admin'[a].pc = "unlist" /\ admin'[a].gate = {g}
      /\ ~gatingMu /\ gatingMu' = TRUE /\ admin[a].pc = "idle" /\ gates[g] > 0
      /\ gates' = [gates EXCEPT ![g] = gates[g] - 1]
      /\ UNCHANGED <<signals, closeOnce, owner>> /\ admin'[a].result = "none"
  <2>1. "unlist" \in AdminCalls /\ {g} \in SUBSET Gates
    BY DEF AdminCalls
  <2>2. admin' = [admin EXCEPT ![a] = [IdleAdmin EXCEPT !.pc = "unlist", !.gate = {g}]]
    BY DEF BeginRemove
  <2>3. OnlyMoves(a) /\ admin'[a].pc = "unlist" /\ admin'[a].gate = {g}
        /\ admin'[a].result = "none"
    BY <2>1, <2>2, StartMoves, Zenon
  <2> QED
    BY <2>3 DEF BeginRemove
<1>2. ASSUME NEW b \in Admins, b # a
      PROVE  ~Critical(b)' /\ ~Adding(b)' /\ \A h \in Gates : ~Changing(b, h)'
  BY <1>1, <1>2, Alone DEF OnlyMoves, RegistryInv, Critical, Adding, Changing
<1>3. \A b \in Admins : \A h \in Gates : ~Changing(b, h)
  BY <1>1, Alone DEF RegistryInv, Changing
<1>4. LockInv' /\ AddInv'
  BY <1>1, <1>2 DEF LockInv, AddInv, Adding, AddCalls
<1>5. gates \in [Gates -> 0 .. MaxCopies] /\ MaxCopies \in Int
  BY RegistryAssumption DEF TypeInv, TypeOK
<1>6. /\ gates' \in [Gates -> 0 .. MaxCopies]
      /\ \A h \in Gates : h # g => gates'[h] = gates[h]
  BY <1>1, <1>5
<1>7. SignalInv'
  <2> SUFFICES ASSUME NEW h \in Gates
               PROVE  /\ (\A b \in Admins : ~Changing(b, h)') => Matches(h)'
                      /\ \A b \in Admins : Changing(b, h)' =>
                           IF admin'[b].pc = "append" THEN signals'[h] = TRUE
                           ELSE signals'[h] <=> closeOnce' # "done"
    BY DEF SignalInv
  <2>1. Matches(h)
    BY <1>3 DEF RegistryInv, SignalInv
  <2>2. CASE h = g
    <3>1. Changing(a, g)'
      BY <1>1 DEF Changing
    <3>2. signals[g] <=> closeOnce # "done"
      BY <1>1, <2>1, <2>2 DEF Matches, Registered
    <3> QED
      BY <1>1, <1>2, <2>2, <3>1, <3>2
  <2>3. CASE h # g
    <3>1. \A b \in Admins : ~Changing(b, h)'
      BY <1>1, <1>2, <2>3 DEF Changing
    <3> QED
      BY <1>1, <1>6, <2>1, <2>3, <3>1 DEF Matches, Registered
  <2> QED
    BY <2>2, <2>3
<1>8. \A h \in Registered' : h \in Registered
  BY <1>1, <1>6 DEF Registered
<1> QED
  BY <1>1, <1>4, <1>6, <1>7, <1>8

LEMMA RemoveUnlistRegistry ==
  ASSUME TypeInv, RegistryInv, NEW a \in Admins, NEW g \in Gates, RemoveUnlist(a, g)
  PROVE  /\ LockInv' /\ AddInv' /\ SignalInv' /\ OnlyMoves(a)
         /\ signals' \in [Gates -> BOOLEAN] /\ admin'[a].pc = "wake"
         /\ admin'[a].result = admin[a].result
<1>1. /\ OnlyMoves(a) /\ admin'[a].pc = "wake" /\ admin'[a].gate = admin[a].gate
      /\ admin[a].pc = "unlist" /\ g \in admin[a].gate
      /\ signals' = [signals EXCEPT ![g] = signals[g] /\ gates[g] > 0]
      /\ UNCHANGED <<gates, closeOnce, gatingMu, owner>>
      /\ admin'[a].result = admin[a].result
  BY PcMoves DEF RemoveUnlist, AdminCalls
<1>2. Critical(a) /\ admin[a].gate = {g} /\ Changing(a, g)
  BY <1>1 DEF RegistryInv, LockInv, Critical, Adding, AddCalls, Changing
<1>3. ASSUME NEW b \in Admins, b # a
      PROVE  /\ ~Critical(b)' /\ ~Adding(b)' /\ ~Changing(b, g)
             /\ \A h \in Gates : ~Changing(b, h) /\ ~Changing(b, h)'
  BY <1>1, <1>2, <1>3, Alone DEF OnlyMoves, RegistryInv, Critical, Adding, Changing
<1>4. LockInv' /\ AddInv'
  BY <1>1, <1>2, <1>3
  DEF RegistryInv, LockInv, AddInv, Critical, Adding, AddCalls
<1>5. /\ signals'[g] <=> signals[g] /\ gates[g] > 0
      /\ \A h \in Gates : h # g => signals'[h] = signals[h]
      /\ signals' \in [Gates -> BOOLEAN]
  <2>1. signals \in [Gates -> BOOLEAN]
    BY DEF TypeInv, TypeOK
  <2>2. (signals[g] /\ gates[g] > 0) \in BOOLEAN
    OBVIOUS
  <2> QED
    BY <1>1, <2>1, <2>2
<1>6. \A b \in Admins : \A h \in Gates : ~Changing(b, h)'
  BY <1>1, <1>3 DEF Changing
<1>7. SignalInv'
  <2> SUFFICES ASSUME NEW h \in Gates PROVE Matches(h)'
    BY <1>6 DEF SignalInv
  <2>1. CASE h = g
    <3>1. signals[g] <=> closeOnce # "done"
      BY <1>1, <1>2 DEF RegistryInv, SignalInv
    <3> QED
      BY <1>1, <1>5, <2>1, <3>1 DEF Matches, Registered
  <2>2. CASE h # g
    <3>1. \A b \in Admins : ~Changing(b, h)
      BY <1>2, <1>3, <2>2 DEF Changing
    <3> QED
      BY <1>1, <1>5, <2>2, <3>1 DEF RegistryInv, SignalInv, Matches, Registered
  <2> QED
    BY <2>1, <2>2
<1> QED
  BY <1>1, <1>4, <1>5, <1>7

LEMMA RemoveSignalRegistry ==
  ASSUME TypeInv, RegistryInv, NEW a \in Admins, RemoveSignal(a)
  PROVE  LockInv' /\ AddInv' /\ SignalInv' /\ OnlyMoves(a) /\ admin'[a].pc = "idle"
         /\ admin'[a].result = "none"
<1>1. /\ OnlyMoves(a) /\ admin'[a].pc = "idle" /\ admin[a].pc = "wake"
      /\ UNCHANGED <<gates, signals, closeOnce, owner>> /\ admin'[a].result = "none"
  BY IdleMoves DEF RemoveSignal
<1>2. ASSUME NEW b \in Admins
      PROVE  ~Critical(b)' /\ ~Adding(b)'
             /\ \A h \in Gates : ~Changing(b, h) /\ ~Changing(b, h)'
  <2>1. CASE b = a
    BY <1>1, <2>1 DEF Critical, Adding, AddCalls, Changing
  <2>2. CASE b # a
    <3>1. Critical(a)
      BY <1>1 DEF Critical
    <3> QED
      BY <1>1, <2>2, <3>1, Alone DEF OnlyMoves, RegistryInv, Critical, Adding, Changing
  <2> QED
    BY <2>1, <2>2
<1>3. LockInv' /\ AddInv'
  BY <1>2 DEF LockInv, AddInv
<1>4. SignalInv'
  BY <1>1, <1>2 DEF RegistryInv, SignalInv, Matches, Registered
<1> QED
  BY <1>1, <1>3, <1>4

LEMMA RemoveGateSignalsRegistry ==
  ASSUME TypeInv, RegistryInv, NEW a \in Admins, RemoveGateSignals(a)
  PROVE  /\ LockInv' /\ AddInv' /\ SignalInv' /\ OnlyMoves(a)
         /\ signals' \in [Gates -> BOOLEAN] /\ admin'[a].pc = "idle"
         /\ admin'[a].result = "none"
<1>1. /\ OnlyMoves(a) /\ admin'[a].pc = "idle" /\ admin[a].pc = "unhook" /\ ~gatingMu
      /\ signals' = [g \in Gates |-> signals[g] /\ gates[g] = 0]
      /\ closeOnce' = "done" /\ UNCHANGED <<gates, gatingMu, owner>>
      /\ admin'[a].result = "none"
  BY IdleMoves DEF RemoveGateSignals
<1>2. ASSUME NEW b \in Admins
      PROVE  ~Critical(b)' /\ ~Adding(b)'
             /\ \A h \in Gates : ~Changing(b, h) /\ ~Changing(b, h)'
  <2>1. CASE b = a
    BY <1>1, <2>1 DEF Critical, Adding, AddCalls, Changing
  <2>2. CASE b # a
    BY <1>1, <2>2, Alone DEF OnlyMoves, RegistryInv, Critical, Adding, Changing
  <2> QED
    BY <2>1, <2>2
<1>3. LockInv' /\ AddInv'
  BY <1>2 DEF LockInv, AddInv
<1>4. SignalInv'
  <2> SUFFICES ASSUME NEW h \in Gates PROVE Matches(h)'
    BY <1>2 DEF SignalInv
  <2>1. Matches(h)
    BY <1>2 DEF RegistryInv, SignalInv
  <2>2. gates[h] \in 0 .. MaxCopies /\ (gates[h] = 0 \/ gates[h] > 0)
    BY RegistryAssumption DEF TypeInv, TypeOK
  <2>3. signals'[h] <=> signals[h] /\ gates[h] = 0
    BY <1>1
  <2>4. gates[h] = 0 => ~(gates[h] > 0)
    OBVIOUS
  <2>5. ~signals'[h]
    BY <2>1, <2>3, <2>4 DEF Matches, Registered
  <2> QED
    BY <1>1, <2>5 DEF Matches
<1>5. signals' \in [Gates -> BOOLEAN]
  BY <1>1
<1> QED
  BY <1>1, <1>3, <1>4, <1>5

-----------------------------------------------------------------------------
(* A step of a that leaves the registry alone, in or out of the mutex. *)
LEMMA AdminStepRegistry ==
  ASSUME TypeInv, RegistryInv, NEW a \in Admins,
         \/ BeginClose(a) \/ BeginShutdown(a) \/ AdminStep(a)
         \/ \E g \in Gates : BeginAdd(a, g) \/ BeginRemove(a, g)
  PROVE  LockInv' /\ AddInv' /\ SignalInv' /\ OnlyMoves(a)
<1> USE DEF AdminCalls
<1>1. CASE AddLoadCursor(a) \/ \E g \in Gates : AddStore(a, g) \/ AddSignal(a, g)
  <2>1. /\ OnlyMoves(a) /\ admin[a].pc \in {"add", "store", "restore"}
        /\ admin'[a].pc \in {"store", "restore", "enlist"}
        /\ admin'[a].gate = admin[a].gate /\ UNCHANGED <<registry, owner>>
    BY <1>1, PcMoves, AtMoves DEF AddLoadCursor, AddStore, AddSignal
  <2> QED
    BY <2>1, InsideLock
<1>2. CASE \E g \in Gates : \/ BeginAdd(a, g) \/ AddEnlist(a, g) \/ AddAppend(a, g)
                            \/ BeginRemove(a, g) \/ RemoveUnlist(a, g)
  BY <1>2, BeginAddRegistry, AddEnlistRegistry, AddAppendRegistry,
     BeginRemoveRegistry, RemoveUnlistRegistry
<1>3. CASE RemoveSignal(a) \/ RemoveGateSignals(a)
  BY <1>3, RemoveSignalRegistry, RemoveGateSignalsRegistry
<1>4. ASSUME OnlyMoves(a),
             admin[a].pc \notin AddCalls \cup {"unlist", "wake"},
             admin'[a].pc \notin AddCalls \cup {"unlist", "wake"},
             UNCHANGED <<gates, signals, gatingMu, owner>>,
             closeOnce' = "done" <=> closeOnce = "done"
      PROVE  LockInv' /\ AddInv' /\ SignalInv' /\ OnlyMoves(a)
  <2>1. ~Critical(a) /\ ~Critical(a)'
    BY <1>4 DEF Critical, Adding
  <2> QED
    BY <1>4, <2>1, OutsideLock
<1> USE DEF registry, AddCalls
<1>5. CASE BeginClose(a) \/ CloseFirst(a) \/ CloseChannel(a) \/ CloseSignal(a)
           \/ ShutdownSignal(a)
  BY <1>4, <1>5, PcMoves
  DEF BeginClose, CloseFirst, CloseChannel, CloseSignal, ShutdownSignal
<1>6. CASE CloseAgain(a)
  BY <1>4, <1>6, IdleMoves DEF CloseAgain
<1>7. CASE LoadBoundary(a)
  BY <1>4, <1>7, AtMoves DEF LoadBoundary
<1>8. CASE BeginShutdown(a)
  BY <1>4, <1>8, ShutdownMoves DEF BeginShutdown
<1>9. CASE LoadSnapshot(a)
  BY <1>4, <1>9, SnapshotMoves DEF LoadSnapshot
<1>10. CASE \E g \in Gates : DrainGate(a, g)
  BY <1>4, <1>10, DrainMoves DEF DrainGate
<1>11. CASE EndDrain(a)
  BY <1>4, <1>11, EndDrainMoves DEF EndDrain
<1> QED
  BY <1>1, <1>2, <1>3, <1>5, <1>6, <1>7, <1>8, <1>9, <1>10, <1>11 DEF AdminStep

(* How far Close is, and that closing cannot be undone. *)
LEMMA AdminStepClose ==
  ASSUME TypeInv, RegistryInv, NEW a \in Admins, OnlyMoves(a),
         \/ BeginClose(a) \/ BeginShutdown(a) \/ AdminStep(a)
         \/ \E g \in Gates : BeginAdd(a, g) \/ BeginRemove(a, g)
  PROVE  CloseInv' /\ (closedCh => closedCh')
<1> USE DEF AdminCalls
<1>1. \A b \in Admins : b # a => admin'[b] = admin[b]
  BY DEF OnlyMoves
<1>2. ASSUME closed => closed', closedCh => closedCh',
             closeOnce' # "none" => closeOnce # "none" \/ closed',
             closeOnce' = "done" => closeOnce = "done" \/ closedCh',
             admin'[a].pc \in {"channel", "signal", "unhook"} => closed',
             admin'[a].pc \in {"signal", "unhook"} => closedCh'
      PROVE  CloseInv' /\ (closedCh => closedCh')
  BY <1>1, <1>2 DEF RegistryInv, CloseInv
<1>3. ASSUME admin'[a].pc \notin {"channel", "signal", "unhook"},
             UNCHANGED <<closed, closedCh, closeOnce>>
      PROVE  CloseInv' /\ (closedCh => closedCh')
  BY <1>2, <1>3
<1> USE DEF registry, lifecycle
<1>4. CASE CloseFirst(a)
  <2>1. admin'[a].pc = "channel" /\ closeOnce' = "busy" /\ closed' = TRUE
        /\ UNCHANGED closedCh
    BY <1>4, PcMoves DEF CloseFirst
  <2> QED
    BY <1>2, <2>1
<1>5. CASE CloseChannel(a)
  <2>1. closed /\ closedCh' = TRUE /\ UNCHANGED <<closed, closeOnce>>
    BY <1>5 DEF CloseChannel, RegistryInv, CloseInv
  <2> QED
    BY <1>2, <2>1
<1>6. CASE CloseSignal(a)
  <2>1. closed /\ closedCh /\ UNCHANGED <<closed, closeOnce, closedCh>>
    BY <1>6 DEF CloseSignal, RegistryInv, CloseInv
  <2> QED
    BY <1>2, <2>1
<1>7. CASE RemoveGateSignals(a)
  <2>1. closed /\ closedCh /\ UNCHANGED <<closed, closedCh>> /\ closeOnce' = "done"
    BY <1>7 DEF RemoveGateSignals, RegistryInv, CloseInv
  <2>2. admin'[a].pc = "idle"
    BY <1>7, IdleMoves DEF RemoveGateSignals
  <2> QED
    BY <1>2, <2>1, <2>2
<1>8. CASE BeginClose(a) \/ ShutdownSignal(a)
           \/ \E g \in Gates : \/ AddStore(a, g) \/ AddSignal(a, g)
                               \/ AddEnlist(a, g) \/ RemoveUnlist(a, g)
  BY <1>3, <1>8, PcMoves
  DEF BeginClose, ShutdownSignal, AddStore, AddSignal, AddEnlist, RemoveUnlist
<1>9. CASE RemoveSignal(a) \/ CloseAgain(a) \/ \E g \in Gates : AddAppend(a, g)
  BY <1>3, <1>9, IdleMoves DEF RemoveSignal, CloseAgain, AddAppend
<1>10. CASE AddLoadCursor(a) \/ LoadBoundary(a)
  BY <1>3, <1>10, AtMoves DEF AddLoadCursor, LoadBoundary
<1>11. CASE BeginShutdown(a)
  BY <1>3, <1>11, ShutdownMoves DEF BeginShutdown
<1>12. CASE LoadSnapshot(a)
  BY <1>3, <1>12, SnapshotMoves DEF LoadSnapshot
<1>13. CASE \E g \in Gates : DrainGate(a, g)
  BY <1>3, <1>13, DrainMoves DEF DrainGate
<1>14. CASE EndDrain(a)
  BY <1>3, <1>14, EndDrainMoves DEF EndDrain
<1>15. ASSUME NEW g \in Gates, BeginAdd(a, g)
       PROVE  CloseInv' /\ (closedCh => closedCh')
  <2>1. admin'[a].pc = "add"
    <3>1. admin' = [admin EXCEPT ![a] = [IdleAdmin EXCEPT !.pc = "add", !.gate = {g}]]
      BY <1>15 DEF BeginAdd
    <3>2. "add" \in AdminCalls /\ {g} \in SUBSET Gates
      OBVIOUS
    <3> QED
      BY <3>1, <3>2, StartMoves, Zenon
  <2> QED
    BY <1>3, <1>15, <2>1 DEF BeginAdd
<1>16. ASSUME NEW g \in Gates, BeginRemove(a, g)
       PROVE  CloseInv' /\ (closedCh => closedCh')
  BY <1>3, <1>16, BeginRemoveRegistry DEF BeginRemove
<1> QED
  BY <1>4, <1>5, <1>6, <1>7, <1>8, <1>9, <1>10, <1>11, <1>12, <1>13, <1>14,
     <1>15, <1>16
  DEF AdminStep

LEMMA AdminStepType ==
  ASSUME TypeInv, RegistryInv, NEW a \in Admins, OnlyMoves(a),
         \/ BeginClose(a) \/ BeginShutdown(a) \/ AdminStep(a)
         \/ \E g \in Gates : BeginAdd(a, g) \/ BeginRemove(a, g)
  PROVE  TypeInv'
<1>1. admin' \in [Admins -> AdminState]
  BY DEF OnlyMoves
<1>2. ASSUME prod' \in [Producers -> ProducerState] /\ CurrentBound',
             value' \in [Gates -> Positions], gates' \in [Gates -> 0 .. MaxCopies],
             signals' \in [Gates -> BOOLEAN], closeOnce' \in {"none", "busy", "done"},
             gatingMu' \in BOOLEAN, sealed' \in BOOLEAN, closed' \in BOOLEAN,
             closedCh' \in BOOLEAN, sealedAt' \in [cursor : Positions, quiet : BOOLEAN],
             UNCHANGED <<cursor, gateCache, owner>>
      PROVE  TypeInv'
  BY <1>1, <1>2 DEF TypeInv, TypeOK
<1>3. /\ prod \in [Producers -> ProducerState] /\ CurrentBound
      /\ value \in [Gates -> Positions] /\ gates \in [Gates -> 0 .. MaxCopies]
      /\ signals \in [Gates -> BOOLEAN] /\ closeOnce \in {"none", "busy", "done"}
      /\ gatingMu \in BOOLEAN /\ sealed \in BOOLEAN /\ closed \in BOOLEAN
      /\ closedCh \in BOOLEAN /\ sealedAt \in [cursor : Positions, quiet : BOOLEAN]
      /\ cursor \in Positions
  BY DEF TypeInv, TypeOK
<1>4. UNCHANGED prod =>
        prod' \in [Producers -> ProducerState] /\ CurrentBound'
  BY <1>3 DEF CurrentBound, HasCurrent
<1> USE DEF registry, lifecycle
<1>5. CASE RemoveSignal(a) \/ CloseSignal(a) \/ ShutdownSignal(a)
           \/ \E g \in Gates : AddSignal(a, g)
  <2>1. prod' \in [Producers -> ProducerState] /\ CurrentBound'
    BY <1>4, <1>5, FireType DEF RemoveSignal, CloseSignal, ShutdownSignal, AddSignal
  <2>2. UNCHANGED <<cursor, gateCache, value, gates, signals, closeOnce, lifecycle, owner>>
        /\ gatingMu' \in BOOLEAN
    BY <1>3, <1>5 DEF RemoveSignal, CloseSignal, ShutdownSignal, AddSignal
  <2> QED
    BY <1>2, <1>3, <2>1, <2>2
<1>6. CASE \E g \in Gates : AddStore(a, g)
  <2>1. value' \in [Gates -> Positions]
    <3>1. admin[a].at \in Positions
      BY AdminLocal DEF AdminState
    <3> QED
      BY <1>3, <1>6, <3>1 DEF AddStore
  <2>2. UNCHANGED <<cursor, gateCache, registry, lifecycle, prod, owner>>
    BY <1>6 DEF AddStore
  <2> QED
    BY <1>2, <1>3, <1>4, <2>1, <2>2
<1>7. CASE \E g \in Gates : \/ BeginAdd(a, g) \/ AddEnlist(a, g) \/ AddAppend(a, g)
                            \/ BeginRemove(a, g) \/ RemoveUnlist(a, g)
  <2>1. gates' \in [Gates -> 0 .. MaxCopies]
    BY <1>3, <1>7, AddAppendRegistry, BeginRemoveRegistry
    DEF BeginAdd, AddEnlist, RemoveUnlist
  <2>2. signals' \in [Gates -> BOOLEAN]
    BY <1>3, <1>7, RemoveUnlistRegistry DEF BeginAdd, AddEnlist, AddAppend, BeginRemove
  <2>3. /\ UNCHANGED <<cursor, gateCache, value, closeOnce, lifecycle, prod, owner>>
        /\ gatingMu' \in BOOLEAN
    BY <1>3, <1>7 DEF BeginAdd, AddEnlist, AddAppend, BeginRemove, RemoveUnlist
  <2> QED
    BY <1>2, <1>3, <1>4, <2>1, <2>2, <2>3
<1>8. CASE RemoveGateSignals(a)
  BY <1>2, <1>3, <1>4, <1>8, RemoveGateSignalsRegistry DEF RemoveGateSignals
<1>9. CASE BeginShutdown(a)
  <2>1. sealedAt' \in [cursor : Positions, quiet : BOOLEAN]
    BY <1>3, <1>9 DEF BeginShutdown
  <2>2. /\ UNCHANGED <<cursor, gateCache, value, registry, closed, closedCh, prod, owner>>
        /\ sealed' = TRUE
    BY <1>9 DEF BeginShutdown
  <2> QED
    BY <1>2, <1>3, <1>4, <2>1, <2>2
<1>10. CASE BeginClose(a) \/ CloseFirst(a) \/ CloseChannel(a)
  BY <1>2, <1>3, <1>4, <1>10 DEF BeginClose, CloseFirst, CloseChannel
<1>11. CASE \/ AddLoadCursor(a) \/ CloseAgain(a) \/ LoadBoundary(a) \/ LoadSnapshot(a)
            \/ EndDrain(a) \/ \E g \in Gates : DrainGate(a, g)
  BY <1>2, <1>3, <1>4, <1>11
  DEF AddLoadCursor, CloseAgain, LoadBoundary, LoadSnapshot, EndDrain, DrainGate
<1> QED
  BY <1>5, <1>6, <1>7, <1>8, <1>9, <1>10, <1>11 DEF AdminStep

(* The consumers that store the gates. *)
LEMMA OwnerMoves ==
  ASSUME TypeInv, NEW g \in Gates, OwnerStep(g)
  PROVE  /\ \A h \in Gates : h # g => owner'[h] = owner[h] /\ value'[h] = value[h]
         /\ owner' \in [Gates -> [pc : {"stopped", "running", "signal"},
                                  next : 0 .. MaxSequence + 1]]
         /\ value' \in [Gates -> Positions]
         /\ \/ /\ StartOwner(g) /\ UNCHANGED value
               /\ owner'[g].pc = "running" /\ owner'[g].next = value[g] + 1
            \/ /\ owner[g].pc = "running" /\ owner'[g].pc = "signal"
               /\ owner'[g].next = value'[g] + 1
               /\ owner[g].next <= value'[g] /\ value'[g] <= cursor
               /\ UNCHANGED prod
            \/ /\ SignalGate(g) /\ UNCHANGED value
               /\ owner'[g].pc = "running" /\ owner'[g].next = owner[g].next
<1>1. /\ owner \in [Gates -> [pc : {"stopped", "running", "signal"},
                              next : 0 .. MaxSequence + 1]]
      /\ owner[g] \in [pc : {"stopped", "running", "signal"}, next : 0 .. MaxSequence + 1]
      /\ value \in [Gates -> Positions]
  BY OwnerLocal DEF TypeInv, TypeOK
<1>2. CASE StartOwner(g)
  <2>1. owner' = [owner EXCEPT ![g] = [pc |-> "running", next |-> value[g] + 1]]
        /\ UNCHANGED value
    BY <1>2 DEF StartOwner
  <2>2. value[g] + 1 \in 0 .. MaxSequence + 1
    BY Numbers
  <2>3. owner' \in [Gates -> [pc : {"stopped", "running", "signal"},
                              next : 0 .. MaxSequence + 1]]
    BY <1>1, <2>1, <2>2, Zenon
  <2>4. /\ owner'[g] = [pc |-> "running", next |-> value[g] + 1]
        /\ \A h \in Gates : h # g => owner'[h] = owner[h]
    BY <1>1, <2>1
  <2> QED
    BY <1>1, <1>2, <2>1, <2>3, <2>4
<1>3. CASE \E end \in 0 .. MaxSequence : StoreGate(g, end)
  <2>1. PICK end \in 0 .. MaxSequence : StoreGate(g, end)
    BY <1>3
  <2>2. /\ owner' = [owner EXCEPT ![g] = [pc |-> "signal", next |-> end + 1]]
        /\ value' = [value EXCEPT ![g] = end] /\ UNCHANGED prod
        /\ owner[g].pc = "running" /\ owner[g].next <= end /\ end <= cursor
    BY <2>1 DEF StoreGate
  <2>3. end + 1 \in 0 .. MaxSequence + 1 /\ end \in Positions
    BY RegistryAssumption DEF Positions
  <2>4. owner' \in [Gates -> [pc : {"stopped", "running", "signal"},
                              next : 0 .. MaxSequence + 1]]
    BY <1>1, <2>2, <2>3, Zenon
  <2>5. /\ owner'[g] = [pc |-> "signal", next |-> end + 1] /\ value'[g] = end
        /\ value' \in [Gates -> Positions]
        /\ \A h \in Gates : h # g => owner'[h] = owner[h] /\ value'[h] = value[h]
    BY <1>1, <2>2, <2>3
  <2> QED
    BY <2>2, <2>4, <2>5
<1>4. CASE SignalGate(g)
  <2> DEFINE st == [owner[g] EXCEPT !.pc = "running"]
  <2>1. owner' = [owner EXCEPT ![g] = st] /\ UNCHANGED value
    BY <1>4 DEF SignalGate
  <2>2. st \in [pc : {"stopped", "running", "signal"}, next : 0 .. MaxSequence + 1]
    BY <1>1, Zenon
  <2>3. st.pc = "running" /\ st.next = owner[g].next
    BY <1>1
  <2> HIDE DEF st
  <2> QED
    BY <1>1, <1>4, <2>1, <2>2, <2>3
<1> QED
  BY <1>2, <1>3, <1>4 DEF OwnerStep

LEMMA OwnerStepRegistry ==
  ASSUME TypeInv, RegistryInv, NEW g \in Gates, OwnerStep(g)
  PROVE  TypeInv' /\ RegistryInv'
<1> USE DEF registry, lifecycle
<1>1. UNCHANGED <<cursor, gateCache, registry, lifecycle, admin>>
  BY DEF OwnerStep, StartOwner, StoreGate, SignalGate
<1>2. prod' \in [Producers -> ProducerState] /\ CurrentBound'
  <2>1. Fire \/ UNCHANGED prod
    BY DEF OwnerStep, StartOwner, StoreGate, SignalGate
  <2> QED
    BY <2>1, FireType DEF TypeInv, TypeOK, CurrentBound, HasCurrent
<1>3. TypeInv'
  BY <1>1, <1>2, OwnerMoves DEF TypeInv, TypeOK
<1>4. LockInv' /\ CloseInv' /\ SignalInv'
  BY <1>1 DEF RegistryInv, LockInv, CloseInv, SignalInv, Critical, Adding, Changing,
              Matches, Registered
<1>5. AddInv'
  <2> SUFFICES ASSUME NEW a \in Admins, Adding(a), NEW h \in admin[a].gate
               PROVE  owner'[h].pc = "stopped"
    BY <1>1 DEF RegistryInv, AddInv, Adding
  <2>1. owner[h].pc = "stopped" /\ h \in Gates
    BY AdminLocal DEF RegistryInv, AddInv
  <2>2. CASE h # g
    BY <2>1, <2>2, OwnerMoves
  <2>3. CASE h = g
    <3>1. ~StartOwner(g)
      BY <2>3 DEF StartOwner, Adding, AddCalls
    <3> QED
      BY <2>1, <2>3, <3>1 DEF OwnerStep, StoreGate, SignalGate
  <2> QED
    BY <2>2, <2>3
<1> QED
  BY <1>3, <1>4, <1>5 DEF RegistryInv

LEMMA RegistryStep ==
  ASSUME TypeInv, RegistryInv, [Next]_vars
  PROVE  TypeInv' /\ RegistryInv'
<1>1. ASSUME NEW p \in Producers, CheckSealed(p) \/ ClaimStep(p) \/ CancelClaim(p)
      PROVE  TypeInv' /\ RegistryInv'
  <2>1. UNCHANGED <<registry, lifecycle, owner, admin>>
    BY <1>1 DEF CheckSealed, ClaimStep, CancelClaim, LoadCursor, LoadGateCache,
                PrepareWait, LoadList, LoadGate, Decide, Wake, CompareAndSwap
  <2>2. RegistryInv'
    BY <2>1 DEF RegistryInv, LockInv, AddInv, CloseInv, SignalInv, Critical, Adding,
                Changing, Matches, Registered, registry, lifecycle
  <2> QED
    BY <1>1, <2>2, ProducerStepType
<1>2. ASSUME NEW g \in Gates, OwnerStep(g) PROVE TypeInv' /\ RegistryInv'
  BY <1>2, OwnerStepRegistry
<1>3. ASSUME NEW a \in Admins,
             \/ BeginClose(a) \/ BeginShutdown(a) \/ AdminStep(a)
             \/ \E g \in Gates : BeginAdd(a, g) \/ BeginRemove(a, g)
      PROVE  TypeInv' /\ RegistryInv'
  <2>1. LockInv' /\ AddInv' /\ SignalInv' /\ OnlyMoves(a)
    BY <1>3, AdminStepRegistry
  <2>2. CloseInv'
    BY <1>3, <2>1, AdminStepClose
  <2>3. TypeInv'
    BY <1>3, <2>1, AdminStepType
  <2> QED
    BY <2>1, <2>2, <2>3 DEF RegistryInv
<1>4. CASE UNCHANGED vars
  BY <1>4 DEF vars, registry, lifecycle, TypeInv, TypeOK, CurrentBound, HasCurrent,
              RegistryInv, LockInv, AddInv, CloseInv, SignalInv, Critical, Adding,
              Changing, Matches, Registered
<1> QED
  BY <1>1, <1>2, <1>3, <1>4 DEF Next

(* Every variable of the registry keeps its type, in every run. *)
THEOREM TypeCorrect == Spec => []TypeOK
<1>1. Init => TypeInv /\ RegistryInv
  BY TypeInit, RegistryInit
<1>2. TypeInv /\ RegistryInv /\ [Next]_vars => (TypeInv /\ RegistryInv)'
  BY RegistryStep
<1>3. TypeInv /\ RegistryInv => TypeOK
  BY DEF TypeInv
<1> QED
  BY <1>1, <1>2, <1>3, PTL DEF Spec

(***************************************************************************)
(* Whenever gatingMu is free, exactly the registered gates signal the      *)
(* producers and none does once Close is done: however often gates are     *)
(* added and removed, twice the same one included, and however Close races *)
(* with it, no signal is leaked and none is lost.                          *)
(***************************************************************************)
THEOREM SignalsAgree == Spec => []SignalsMatchGates
<1>1. Init => TypeInv /\ RegistryInv
  BY TypeInit, RegistryInit
<1>2. TypeInv /\ RegistryInv /\ [Next]_vars => (TypeInv /\ RegistryInv)'
  BY RegistryStep
<1>3. RegistryInv => SignalsMatchGates
  BY DEF RegistryInv, LockInv, SignalInv, SignalsMatchGates, Critical, Adding,
         AddCalls, Changing, Matches
<1> QED
  BY <1>1, <1>2, <1>3, PTL DEF Spec

-----------------------------------------------------------------------------
(* The values of the gates. *)
LEMMA ValueInit == Init => ValueInv
<1> SUFFICES ASSUME Init PROVE ValueInv
  OBVIOUS
<1>1. \A a \in Admins : admin[a].pc = "idle"
  BY DEF Init, IdleAdmin
<1>2. \A g \in Gates : owner[g].pc = "stopped" /\ value[g] = -1 /\ cursor = -1
  BY DEF Init
<1> QED
  BY <1>1, <1>2 DEF ValueInv

(* AddGatingSequences is the only call that reads or stores a gate to set it. *)
LEMMA AdminStepStore ==
  ASSUME TypeInv, RegistryInv, NEW a \in Admins, OnlyMoves(a),
         \/ BeginClose(a) \/ BeginShutdown(a) \/ AdminStep(a)
         \/ \E g \in Gates : BeginAdd(a, g) \/ BeginRemove(a, g)
  PROVE  /\ UNCHANGED <<cursor, owner>>
         /\ \/ UNCHANGED value /\ admin'[a].pc # "store"
            \/ AddLoadCursor(a)
            \/ \E g \in Gates : AddStore(a, g)
<1> USE DEF AdminCalls
<1>1. UNCHANGED <<cursor, owner>>
  BY DEF AdminStep, BeginClose, BeginShutdown, BeginAdd, BeginRemove, AddLoadCursor,
         AddStore, AddSignal, AddEnlist, AddAppend, RemoveUnlist, RemoveSignal,
         CloseFirst, CloseAgain, CloseChannel, CloseSignal, RemoveGateSignals,
         ShutdownSignal, LoadBoundary, LoadSnapshot, DrainGate, EndDrain
<1>2. UNCHANGED value \/ \E g \in Gates : AddStore(a, g)
  BY DEF AdminStep, BeginClose, BeginShutdown, BeginAdd, BeginRemove, AddLoadCursor,
         AddSignal, AddEnlist, AddAppend, RemoveUnlist, RemoveSignal,
         CloseFirst, CloseAgain, CloseChannel, CloseSignal, RemoveGateSignals,
         ShutdownSignal, LoadBoundary, LoadSnapshot, DrainGate, EndDrain
<1>3. CASE BeginClose(a) \/ CloseFirst(a) \/ CloseChannel(a) \/ CloseSignal(a)
           \/ ShutdownSignal(a)
           \/ \E g \in Gates : AddSignal(a, g) \/ AddEnlist(a, g) \/ RemoveUnlist(a, g)
  <2>1. admin'[a].pc # "store"
    BY <1>3, PcMoves
    DEF BeginClose, CloseFirst, CloseChannel, CloseSignal, ShutdownSignal,
        AddSignal, AddEnlist, RemoveUnlist
  <2> QED
    BY <1>1, <1>2, <2>1
<1>4. CASE RemoveSignal(a) \/ CloseAgain(a) \/ RemoveGateSignals(a)
           \/ \E g \in Gates : AddAppend(a, g)
  <2>1. admin'[a].pc # "store"
    BY <1>4, IdleMoves DEF RemoveSignal, CloseAgain, RemoveGateSignals, AddAppend
  <2> QED
    BY <1>1, <1>2, <2>1
<1>5. CASE \/ LoadBoundary(a) \/ BeginShutdown(a) \/ LoadSnapshot(a) \/ EndDrain(a)
           \/ \E g \in Gates : DrainGate(a, g)
  <2>1. admin'[a].pc # "store"
    BY <1>5, AtMoves, ShutdownMoves, SnapshotMoves, EndDrainMoves, DrainMoves
    DEF LoadBoundary
  <2> QED
    BY <1>1, <1>2, <2>1
<1>6. ASSUME NEW g \in Gates, BeginAdd(a, g)
      PROVE  UNCHANGED value /\ admin'[a].pc # "store"
  <2>1. /\ admin' = [admin EXCEPT ![a] = [IdleAdmin EXCEPT !.pc = "add", !.gate = {g}]]
        /\ UNCHANGED value
    BY <1>6 DEF BeginAdd
  <2>2. "add" \in AdminCalls /\ {g} \in SUBSET Gates
    OBVIOUS
  <2>3. admin'[a].pc = "add"
    BY <2>1, <2>2, StartMoves, Zenon
  <2> QED
    BY <2>1, <2>3
<1>7. ASSUME NEW g \in Gates, BeginRemove(a, g)
      PROVE  UNCHANGED value /\ admin'[a].pc # "store"
  BY <1>7, BeginRemoveRegistry DEF BeginRemove
<1> QED
  BY <1>1, <1>3, <1>4, <1>5, <1>6, <1>7 DEF AdminStep

LEMMA AdminStepValue ==
  ASSUME TypeInv, RegistryInv, ValueInv, NEW a \in Admins, OnlyMoves(a),
         \/ BeginClose(a) \/ BeginShutdown(a) \/ AdminStep(a)
         \/ \E g \in Gates : BeginAdd(a, g) \/ BeginRemove(a, g)
  PROVE  ValueInv' /\ ValuesGrow /\ cursor <= cursor'
<1>1. /\ UNCHANGED <<cursor, owner>>
      /\ \A b \in Admins : b # a => admin'[b] = admin[b]
      /\ cursor \in Int /\ \A g \in Gates : value[g] \in Int
  BY AdminStepStore, Numbers DEF OnlyMoves
<1>2. CASE UNCHANGED value /\ admin'[a].pc # "store"
  BY <1>1, <1>2 DEF ValueInv, ValuesGrow
<1>3. CASE AddLoadCursor(a)
  <2>1. /\ UNCHANGED value /\ admin'[a].at = cursor
        /\ admin'[a].gate \subseteq Gates
    BY <1>3, AtMoves, AdminLocal DEF AddLoadCursor, AdminCalls
  <2> QED
    BY <1>1, <2>1 DEF ValueInv, ValuesGrow
<1>4. ASSUME NEW g \in Gates, AddStore(a, g)
      PROVE  ValueInv' /\ ValuesGrow /\ cursor <= cursor'
  <2>1. /\ admin'[a].pc = "restore" /\ admin[a].pc = "store" /\ g \in admin[a].gate
        /\ value' = [value EXCEPT ![g] = admin[a].at]
    BY <1>4, PcMoves DEF AddStore, AdminCalls
  <2>2. /\ value'[g] = admin[a].at /\ admin[a].at \in Int
        /\ \A h \in Gates : h # g => value'[h] = value[h]
    BY <2>1, AdminLocal DEF TypeInv, TypeOK
  <2>3. value[g] <= admin[a].at /\ admin[a].at <= cursor /\ owner[g].pc = "stopped"
    BY <2>1 DEF ValueInv, RegistryInv, AddInv, Adding, AddCalls
  <2>4. \A b \in Admins : admin'[b].pc # "store"
    <3>1. Critical(a)
      BY <2>1 DEF Critical, Adding, AddCalls
    <3> QED
      BY <1>1, <2>1, <3>1, Alone DEF RegistryInv, Critical, Adding, AddCalls
  <2> QED
    BY <1>1, <2>2, <2>3, <2>4 DEF ValueInv, ValuesGrow
<1> QED
  BY <1>2, <1>3, <1>4, AdminStepStore

LEMMA ProducerStepValue ==
  ASSUME TypeInv, ValueInv, NEW p \in Producers,
         CheckSealed(p) \/ ClaimStep(p) \/ CancelClaim(p)
  PROVE  ValueInv' /\ ValuesGrow /\ cursor <= cursor'
<1>1. UNCHANGED <<value, owner, admin>> /\ (cursor' = cursor \/ cursor' = cursor + 1)
  BY DEF CheckSealed, ClaimStep, CancelClaim, LoadCursor, LoadGateCache,
         PrepareWait, LoadList, LoadGate, Decide, Wake, CompareAndSwap
<1>2. cursor \in Int /\ \A g \in Gates : value[g] \in Int
  BY Numbers
<1>3. \A a \in Admins : admin[a].at \in Int
  BY AdminLocal
<1> QED
  BY <1>1, <1>2, <1>3 DEF ValueInv, ValuesGrow

LEMMA OwnerStepValue ==
  ASSUME TypeInv, RegistryInv, ValueInv, NEW g \in Gates, OwnerStep(g)
  PROVE  ValueInv' /\ ValuesGrow /\ cursor <= cursor'
<1>1. UNCHANGED <<cursor, admin>>
  BY DEF OwnerStep, StartOwner, StoreGate, SignalGate
<1>2. /\ cursor \in Int /\ \A h \in Gates : value[h] \in Int /\ owner[h].next \in Int
  BY Numbers, OwnerLocal
<1>3. \A h \in Gates : h # g => owner'[h] = owner[h] /\ value'[h] = value[h]
  BY OwnerMoves
<1>4. /\ value[g] <= value'[g] /\ value'[g] <= cursor /\ value'[g] \in Int
      /\ owner'[g].next = value'[g] + 1
      /\ owner[g].pc = "stopped" => value'[g] = value[g]
  <2>1. CASE StartOwner(g) /\ UNCHANGED value /\ owner'[g].next = value[g] + 1
    BY <1>2, <2>1 DEF ValueInv
  <2>2. CASE /\ owner[g].pc = "running" /\ owner'[g].next = value'[g] + 1
             /\ owner[g].next <= value'[g] /\ value'[g] <= cursor
    <3>1. owner[g].next = value[g] + 1
      BY <2>2 DEF ValueInv
    <3>2. value'[g] \in Int
      BY OwnerMoves, RegistryAssumption DEF Positions
    <3> QED
      BY <1>2, <2>2, <3>1, <3>2
  <2>3. CASE SignalGate(g) /\ UNCHANGED value /\ owner'[g].next = owner[g].next
    BY <1>2, <2>3 DEF ValueInv, SignalGate
  <2> QED
    BY <2>1, <2>2, <2>3, OwnerMoves
<1>5. ASSUME NEW a \in Admins, admin[a].pc = "store", NEW h \in admin[a].gate
      PROVE  value'[h] = value[h]
  <2>1. owner[h].pc = "stopped" /\ h \in Gates
    BY <1>5, AdminLocal DEF RegistryInv, AddInv, Adding, AddCalls
  <2> QED
    BY <1>3, <1>4, <2>1
<1> QED
  BY <1>1, <1>2, <1>3, <1>4, <1>5 DEF ValueInv, ValuesGrow

LEMMA ValueStep ==
  ASSUME TypeInv, RegistryInv, ValueInv, [Next]_vars
  PROVE  ValueInv' /\ ValuesGrow /\ cursor <= cursor'
<1>1. ASSUME NEW a \in Admins,
             \/ BeginClose(a) \/ BeginShutdown(a) \/ AdminStep(a)
             \/ \E g \in Gates : BeginAdd(a, g) \/ BeginRemove(a, g)
      PROVE  ValueInv' /\ ValuesGrow /\ cursor <= cursor'
  <2>1. OnlyMoves(a)
    BY <1>1, AdminStepRegistry
  <2> QED
    BY <1>1, <2>1, AdminStepValue
<1>2. CASE UNCHANGED vars
  BY <1>2, Numbers DEF vars, ValueInv, ValuesGrow
<1> QED
  BY <1>1, <1>2, ProducerStepValue, OwnerStepValue DEF Next

-----------------------------------------------------------------------------
(* The producers that wait. *)
LEMMA WaitInit == Init => WaitInv
BY DEF Init, WaitInv, WaitsFor, Waiting, IdleProducer

(* A registered gate signals, unless the ring's channel is closed. *)
LEMMA RegisteredSignals ==
  ASSUME RegistryInv, NEW g \in Registered
  PROVE  signals[g] \/ closedCh
<1>1. g \in Gates
  BY DEF Registered
<1>2. closeOnce = "done" => closedCh
  BY DEF RegistryInv, CloseInv
<1>3. CASE \A a \in Admins : ~Changing(a, g)
  BY <1>1, <1>2, <1>3 DEF RegistryInv, SignalInv, Matches
<1>4. CASE \E a \in Admins : Changing(a, g)
  BY <1>1, <1>2, <1>4 DEF RegistryInv, SignalInv
<1> QED
  BY <1>3, <1>4

(* Whoever stores into a gate that was too slow is about to signal. *)
LEMMA StoreReasons ==
  ASSUME TypeInv, RegistryInv, NEW g \in Gates,
         UNCHANGED <<gates, signals, closedCh>>,
         \A h \in Gates : h # g => value'[h] = value[h],
         \A h \in Gates : Storing(h) => Storing(h)', signals[g] => Storing(g)',
         \A a \in Admins : admin[a].pc \in {"unlist", "wake"} => admin'[a] = admin[a]
  PROVE  KeepsReasons
<1>1. Registered' = Registered
  BY DEF Registered
<1>2. Removing => Removing'
  BY DEF Removing
<1>3. ASSUME NEW wrap \in Int, Slow(wrap) \/ Pending PROVE Slow(wrap)' \/ Pending'
  <2>1. CASE Pending
    BY <1>2, <2>1 DEF Pending
  <2>2. CASE Slow(wrap)
    <3>1. PICK h \in Registered : value[h] < wrap
      BY <2>2 DEF Slow
    <3>2. h \in Gates
      BY DEF Registered
    <3>3. CASE h = g
      BY <3>1, <3>3, RegisteredSignals DEF Pending
    <3>4. CASE h # g
      BY <1>1, <3>1, <3>2, <3>4 DEF Slow
    <3> QED
      BY <3>3, <3>4
  <2> QED
    BY <1>3, <2>1, <2>2
<1> QED
  BY <1>1, <1>2, <1>3 DEF KeepsReasons

(* Steps that neither store a gate nor take a reason away. *)
LEMMA OtherReasons ==
  ASSUME UNCHANGED value, closedCh => closedCh',
         \A h \in Gates : Storing(h) => Storing(h)', Removing => Removing',
         Registered \subseteq Registered'
  PROVE  KeepsReasons
<1>1. \A wrap \in Int : Slow(wrap) => Slow(wrap)'
  BY DEF Slow
<1>2. Pending => Pending'
  BY DEF Pending
<1> QED
  BY <1>1, <1>2 DEF KeepsReasons

LEMMA OwnerReasons ==
  ASSUME TypeInv, RegistryInv, NEW g \in Gates, OwnerStep(g)
  PROVE  Fire \/ (UNCHANGED prod /\ KeepsReasons)
<1>1. UNCHANGED <<registry, lifecycle, admin>>
  BY DEF OwnerStep, StartOwner, StoreGate, SignalGate
<1>2. UNCHANGED <<gates, signals, closedCh>>
  BY <1>1 DEF registry, lifecycle
<1>3. \A h \in Gates : h # g => owner'[h] = owner[h] /\ value'[h] = value[h]
  BY OwnerMoves
<1>4. Registered' = Registered /\ (Removing => Removing')
  BY <1>1, <1>2 DEF Registered, Removing
<1>5. CASE StartOwner(g) /\ UNCHANGED value
  <2>1. owner[g].pc = "stopped" /\ UNCHANGED prod
    BY <1>5 DEF StartOwner
  <2>2. \A h \in Gates : Storing(h) => Storing(h)'
    BY <1>1, <1>2, <1>3, <2>1 DEF Storing
  <2> QED
    BY <1>2, <1>4, <1>5, <2>1, <2>2, OtherReasons
<1>6. CASE owner[g].pc = "running" /\ owner'[g].pc = "signal" /\ UNCHANGED prod
  <2>1. \A h \in Gates : Storing(h) => Storing(h)'
    BY <1>1, <1>2, <1>3, <1>6 DEF Storing
  <2>2. signals[g] => Storing(g)'
    BY <1>2, <1>6 DEF Storing
  <2> QED
    BY <1>1, <1>2, <1>3, <1>6, <2>1, <2>2, StoreReasons
<1>7. CASE SignalGate(g) /\ UNCHANGED value
  <2>1. CASE signals[g]
    BY <1>7, <2>1 DEF SignalGate
  <2>2. CASE ~signals[g]
    <3>1. UNCHANGED prod
      BY <1>7, <2>2 DEF SignalGate
    <3>2. \A h \in Gates : Storing(h) => Storing(h)'
      BY <1>1, <1>2, <1>3, <2>2 DEF Storing
    <3> QED
      BY <1>2, <1>4, <1>7, <3>1, <3>2, OtherReasons
  <2> QED
    BY <2>1, <2>2
<1> QED
  BY <1>5, <1>6, <1>7, OwnerMoves

LEMMA AdminReasons ==
  ASSUME TypeInv, RegistryInv, NEW a \in Admins, OnlyMoves(a),
         \/ BeginClose(a) \/ BeginShutdown(a) \/ AdminStep(a)
         \/ \E g \in Gates : BeginAdd(a, g) \/ BeginRemove(a, g)
  PROVE  Fire \/ (UNCHANGED prod /\ KeepsReasons)
<1>1. \A b \in Admins : b # a => admin'[b] = admin[b]
  BY DEF OnlyMoves
<1>2. ASSUME UNCHANGED <<value, owner, closedCh>>,
             admin[a].pc \notin {"restore", "unlist", "wake"},
             \A h \in Gates : signals[h] => signals'[h],
             Registered \subseteq Registered'
      PROVE  KeepsReasons
  <2>1. \A h \in Gates : Storing(h) => Storing(h)'
    BY <1>1, <1>2 DEF Storing
  <2>2. Removing => Removing'
    BY <1>1, <1>2 DEF Removing
  <2> QED
    BY <1>2, <2>1, <2>2, OtherReasons
<1>3. ASSUME Pending', Removing => Removing', Registered \subseteq Registered' \/ Removing'
      PROVE  KeepsReasons
  BY <1>3 DEF KeepsReasons
<1> USE DEF registry, lifecycle
<1>4. CASE \/ RemoveSignal(a) \/ CloseSignal(a) \/ ShutdownSignal(a)
  BY <1>4 DEF RemoveSignal, CloseSignal, ShutdownSignal
<1>5. ASSUME NEW g \in Gates, AddSignal(a, g)
      PROVE  Fire \/ (UNCHANGED prod /\ KeepsReasons)
  <2>1. CASE signals[g]
    BY <1>5, <2>1 DEF AddSignal
  <2>2. CASE ~signals[g]
    <3>1. /\ UNCHANGED <<prod, value, owner, signals, gates, closedCh>>
          /\ admin[a].pc = "restore" /\ g \in admin[a].gate
      BY <1>5, <2>2 DEF AddSignal
    <3>2. admin[a].gate = {g}
      BY <3>1 DEF RegistryInv, LockInv, Critical, Adding, AddCalls
    <3>3. \A h \in Gates : Storing(h) => Storing(h)'
      BY <1>1, <2>2, <3>1, <3>2 DEF Storing
    <3>4. Removing => Removing'
      BY <1>1, <3>1 DEF Removing
    <3>5. Registered' = Registered
      BY <3>1 DEF Registered
    <3> QED
      BY <3>1, <3>3, <3>4, <3>5, OtherReasons
  <2> QED
    BY <2>1, <2>2
<1>6. ASSUME NEW g \in Gates, AddStore(a, g)
      PROVE  UNCHANGED prod /\ KeepsReasons
  <2>1. /\ UNCHANGED <<prod, owner, signals, gates, closedCh>>
        /\ admin[a].pc = "store" /\ g \in admin[a].gate
        /\ admin'[a].pc = "restore" /\ admin'[a].gate = admin[a].gate
        /\ value' = [value EXCEPT ![g] = admin[a].at]
    BY <1>6, PcMoves DEF AddStore, AdminCalls
  <2>2. \A h \in Gates : h # g => value'[h] = value[h]
    BY <2>1 DEF TypeInv, TypeOK
  <2>3. \A h \in Gates : Storing(h) => Storing(h)'
    BY <1>1, <2>1 DEF Storing
  <2>4. signals[g] => Storing(g)'
    BY <2>1 DEF Storing
  <2>5. \A b \in Admins : admin[b].pc \in {"unlist", "wake"} => admin'[b] = admin[b]
    BY <1>1, <2>1
  <2> QED
    BY <2>1, <2>2, <2>3, <2>4, <2>5, StoreReasons
<1>7. ASSUME NEW g \in Gates, BeginRemove(a, g)
      PROVE  UNCHANGED prod /\ KeepsReasons
  <2>1. Removing'
    BY <1>7, BeginRemoveRegistry DEF Removing
  <2> QED
    BY <1>3, <1>7, <2>1 DEF BeginRemove, Pending
<1>8. ASSUME NEW g \in Gates, RemoveUnlist(a, g)
      PROVE  UNCHANGED prod /\ KeepsReasons
  <2>1. Removing'
    BY <1>8, RemoveUnlistRegistry DEF Removing
  <2> QED
    BY <1>3, <1>8, <2>1 DEF RemoveUnlist, Pending
<1>9. CASE CloseChannel(a) \/ RemoveGateSignals(a)
  <2>1. Pending'
    BY <1>9 DEF CloseChannel, RemoveGateSignals, Pending, RegistryInv, CloseInv
  <2>2. UNCHANGED <<gates, prod>> /\ admin[a].pc \in {"channel", "unhook"}
    BY <1>9 DEF CloseChannel, RemoveGateSignals
  <2>3. Registered' = Registered /\ (Removing => Removing')
    BY <1>1, <2>2 DEF Registered, Removing
  <2> QED
    BY <1>3, <2>1, <2>2, <2>3
<1>10. CASE \E g \in Gates : AddAppend(a, g)
  <2>1. Registered \subseteq Registered'
    BY <1>10, AddAppendRegistry
  <2>2. /\ UNCHANGED <<value, owner, closedCh, signals, prod>>
        /\ admin[a].pc = "append"
    BY <1>10 DEF AddAppend
  <2> QED
    BY <1>2, <2>1, <2>2
<1>11. ASSUME NEW g \in Gates, AddEnlist(a, g)
       PROVE  UNCHANGED prod /\ KeepsReasons
  <2>1. /\ UNCHANGED <<value, owner, closedCh, gates, prod>>
        /\ admin[a].pc = "enlist" /\ signals' = [signals EXCEPT ![g] = TRUE]
    BY <1>11 DEF AddEnlist
  <2>2. \A h \in Gates : signals[h] => signals'[h]
    BY <2>1 DEF TypeInv, TypeOK
  <2> QED
    BY <1>2, <2>1, <2>2 DEF Registered
<1>12. CASE \/ AddLoadCursor(a) \/ BeginClose(a) \/ CloseFirst(a) \/ CloseAgain(a)
            \/ BeginShutdown(a) \/ LoadBoundary(a) \/ LoadSnapshot(a) \/ EndDrain(a)
            \/ \E g \in Gates : DrainGate(a, g) \/ BeginAdd(a, g)
  <2>1. /\ UNCHANGED <<value, owner, closedCh, signals, gates, prod>>
        /\ admin[a].pc \notin {"restore", "unlist", "wake"}
    BY <1>12 DEF AddLoadCursor, BeginClose, CloseFirst, CloseAgain, BeginShutdown,
                 LoadBoundary, LoadSnapshot, EndDrain, DrainGate, BeginAdd
  <2> QED
    BY <1>2, <2>1 DEF Registered
<1> QED
  BY <1>4, <1>5, <1>6, <1>7, <1>8, <1>9, <1>10, <1>11, <1>12 DEF AdminStep

(* Closing the prepared channel ends every wait that has begun. *)
LEMMA FireWait ==
  ASSUME TypeInv, WaitInv, Fire
  PROVE  WaitInv'
<1> SUFFICES ASSUME NEW p \in Producers PROVE WaitsFor(p)'
  BY DEF WaitInv
<1>1. /\ prod'[p].pc = prod[p].pc /\ prod'[p].current = prod[p].current
      /\ prod'[p].minimum = prod[p].minimum
      /\ prod[p].pc \in {"list", "gates", "decide", "block"} => prod'[p].fired
  BY FireType
<1>2. WrapPoint(p)' = WrapPoint(p) /\ ~Waiting(p)'
  BY <1>1 DEF WrapPoint, Waiting
<1>3. prod[p].pc = "block" => prod[p].minimum < WrapPoint(p)
  BY DEF WaitInv, WaitsFor
<1> QED
  BY <1>1, <1>2, <1>3 DEF WaitsFor

LEMMA KeptWait ==
  ASSUME TypeInv, KeepsReasons, NEW p \in Producers, WaitsFor(p),
         prod'[p] = prod[p]
  PROVE  WaitsFor(p)'
<1>1. WrapPoint(p)' = WrapPoint(p) /\ WrapPoint(p) \in Int
  BY ProducerLocal DEF WrapPoint
<1>2. Waiting(p)' <=> Waiting(p)
  BY DEF Waiting
<1>3. Slow(WrapPoint(p)) \/ Pending => Slow(WrapPoint(p))' \/ Pending'
  BY <1>1 DEF KeepsReasons, Slow
<1>4. prod[p].unread \subseteq Registered \/ Removing =>
        prod[p].unread \subseteq Registered' \/ Removing'
  BY DEF KeepsReasons
<1> QED
  BY <1>1, <1>2, <1>3, <1>4 DEF WaitsFor

(* What a step of a producer leaves alone, and the others. *)
LEMMA ProducerMoves ==
  ASSUME TypeInv, NEW p \in Producers, CheckSealed(p) \/ ClaimStep(p) \/ CancelClaim(p)
  PROVE  /\ UNCHANGED <<value, registry, lifecycle, owner, admin>>
         /\ \A q \in Producers : q # p => prod'[q] = prod[q]
<1>1. prod \in [Producers -> ProducerState]
  BY DEF TypeInv, TypeOK
<1>2. UNCHANGED <<value, registry, lifecycle, owner, admin>>
  BY DEF CheckSealed, ClaimStep, CancelClaim, LoadCursor, LoadGateCache,
         PrepareWait, LoadList, LoadGate, Decide, Wake, CompareAndSwap
<1>3. PICK st : prod' = [prod EXCEPT ![p] = st]
  <2>1. CASE CheckSealed(p) \/ CancelClaim(p) \/ Wake(p) \/ CompareAndSwap(p)
    BY <2>1 DEF CheckSealed, CancelClaim, Wake, CompareAndSwap, Step
  <2>2. CASE LoadCursor(p) \/ LoadGateCache(p) \/ PrepareWait(p)
    BY <2>2 DEF LoadCursor, LoadGateCache, PrepareWait, Step
  <2>3. CASE LoadList(p) \/ Decide(p)
    BY <2>3 DEF LoadList, Decide, Step
  <2>4. CASE \E g \in Gates : LoadGate(p, g)
    BY <2>4 DEF LoadGate
  <2> QED
    BY <2>1, <2>2, <2>3, <2>4 DEF ClaimStep
<1> QED
  BY <1>1, <1>2, <1>3

(* The local states a claim passes through while it waits for capacity. *)
LEMMA LoadListMoves ==
  ASSUME TypeInv, NEW p \in Producers, LoadList(p)
  PROVE  /\ prod'[p].current = prod[p].current /\ prod'[p].unread = Registered
         /\ \/ /\ Registered = {} /\ prod'[p].pc = "decide"
               /\ prod'[p].minimum = prod[p].current
            \/ prod'[p].pc = "gates" /\ prod'[p].minimum = MaxSequence
<1> DEFINE min == IF Registered = {} THEN prod[p].current ELSE MaxSequence
           pc == IF Registered = {} THEN "decide" ELSE "gates"
           st == [prod[p] EXCEPT !.unread = Registered, !.minimum = min, !.pc = pc]
<1>1. prod[p] \in ProducerState /\ prod \in [Producers -> ProducerState]
  BY ProducerLocal DEF TypeInv, TypeOK
<1>2. prod' = [prod EXCEPT ![p] = st]
  BY DEF LoadList
<1>3. /\ st.current = prod[p].current /\ st.unread = Registered
      /\ st.minimum = min /\ st.pc = pc
  <2> HIDE DEF min, pc, Registered
  <2> QED
    BY <1>1 DEF ProducerState
<1> HIDE DEF st
<1>4. prod'[p] = st
  BY <1>1, <1>2
<1> QED
  BY <1>3, <1>4

LEMMA LoadGateMoves ==
  ASSUME TypeInv, NEW p \in Producers, NEW g \in Gates, LoadGate(p, g)
  PROVE  /\ prod[p].pc = "gates" /\ g \in prod[p].unread
         /\ prod'[p].current = prod[p].current
         /\ prod'[p].fired = prod[p].fired
         /\ prod'[p].unread = prod[p].unread \ {g}
         /\ prod'[p].pc = IF prod[p].unread = {g} THEN "decide" ELSE "gates"
         /\ prod'[p].minimum = IF value[g] < prod[p].minimum THEN value[g]
                               ELSE prod[p].minimum
<1> DEFINE min == IF value[g] < prod[p].minimum THEN value[g] ELSE prod[p].minimum
           pc == IF prod[p].unread = {g} THEN "decide" ELSE "gates"
           rest == prod[p].unread \ {g}
           st == [prod[p] EXCEPT !.unread = rest, !.minimum = min, !.pc = pc]
<1>1. prod[p] \in ProducerState /\ prod \in [Producers -> ProducerState]
  BY ProducerLocal DEF TypeInv, TypeOK
<1>2. prod' = [prod EXCEPT ![p] = st]
  BY DEF LoadGate
<1>3. /\ st.current = prod[p].current /\ st.unread = rest /\ st.fired = prod[p].fired
      /\ st.minimum = min /\ st.pc = pc
  <2> HIDE DEF min, pc, rest
  <2> QED
    BY <1>1 DEF ProducerState
<1> HIDE DEF st
<1>4. prod'[p] = st
  BY <1>1, <1>2
<1> QED
  BY <1>3, <1>4 DEF LoadGate

LEMMA DecideMoves ==
  ASSUME TypeInv, NEW p \in Producers, Decide(p)
  PROVE  /\ prod[p].pc = "decide"
         /\ prod'[p].current = prod[p].current
         /\ prod'[p].fired = prod[p].fired
         /\ prod'[p].minimum = prod[p].minimum
         /\ \/ /\ prod'[p].pc = "block" /\ WrapPoint(p) > prod[p].minimum
               /\ gateCache' = gateCache
            \/ /\ prod'[p].pc = "cas" /\ WrapPoint(p) <= prod[p].minimum
               /\ gateCache' = prod[p].minimum
<1>1. prod[p] \in ProducerState /\ prod \in [Producers -> ProducerState]
  BY ProducerLocal DEF TypeInv, TypeOK
<1>2. ASSUME NEW pc, Step(p, pc)
      PROVE  /\ prod'[p].pc = pc /\ prod'[p].current = prod[p].current
             /\ prod'[p].fired = prod[p].fired /\ prod'[p].minimum = prod[p].minimum
  BY <1>1, <1>2 DEF Step, ProducerState
<1>3. CASE WrapPoint(p) > prod[p].minimum /\ Step(p, "block") /\ UNCHANGED gateCache
  BY <1>2, <1>3 DEF Decide
<1>4. CASE /\ WrapPoint(p) <= prod[p].minimum
           /\ Step(p, "cas") /\ gateCache' = prod[p].minimum
  BY <1>2, <1>4 DEF Decide
<1> QED
  BY <1>3, <1>4 DEF Decide

(* Every other step of a producer ends where it does not wait. *)
LEMMA OtherMoves ==
  ASSUME TypeInv, NEW p \in Producers,
         \/ CheckSealed(p) \/ LoadCursor(p) \/ LoadGateCache(p) \/ PrepareWait(p)
         \/ Wake(p) \/ CancelClaim(p) \/ CompareAndSwap(p)
  PROVE  prod'[p].pc \in {"idle", "sealed", "cursor", "cache", "prepare", "list", "cas"}
<1>1. prod[p] \in ProducerState /\ prod \in [Producers -> ProducerState]
  BY ProducerLocal DEF TypeInv, TypeOK
<1>2. CASE CheckSealed(p) \/ LoadGateCache(p)
  BY <1>1, <1>2 DEF CheckSealed, LoadGateCache, Step, ProducerState, IdleProducer
<1>3. CASE LoadCursor(p) \/ PrepareWait(p)
  BY <1>1, <1>3 DEF LoadCursor, PrepareWait, ProducerState
<1>4. CASE Wake(p) \/ CancelClaim(p) \/ CompareAndSwap(p)
  BY <1>1, <1>4 DEF Wake, CancelClaim, CompareAndSwap, IdleProducer
<1> QED
  BY <1>2, <1>3, <1>4

LEMMA ProducerStepWait ==
  ASSUME TypeInv, WaitInv, NEW p \in Producers,
         CheckSealed(p) \/ ClaimStep(p) \/ CancelClaim(p)
  PROVE  WaitInv'
<1>1. UNCHANGED <<value, gates, signals, closedCh, owner, admin>>
  BY ProducerMoves DEF registry, lifecycle
<1>2. Registered' = Registered /\ (Removing' <=> Removing) /\ (Pending' <=> Pending)
  BY <1>1 DEF Registered, Removing, Pending, Storing
<1>3. ASSUME NEW q \in Producers, q # p PROVE WaitsFor(q)'
  <2>1. KeepsReasons
    BY <1>1, <1>2 DEF KeepsReasons, Slow
  <2> QED
    BY <1>3, <2>1, ProducerMoves, KeptWait DEF WaitInv
<1>4. WaitsFor(p)
  BY DEF WaitInv
<1>5. /\ WrapPoint(p) \in Int /\ prod[p].current \in Int /\ prod[p].minimum \in Int
      /\ BufferSize \in Int /\ BufferSize >= 1 /\ MaxSequence \in Int
      /\ \A g \in Gates : value[g] \in Int
      /\ prod[p].unread \subseteq Gates
  BY Numbers, ProducerLocal
<1>6. CASE \/ CheckSealed(p) \/ LoadCursor(p) \/ LoadGateCache(p) \/ PrepareWait(p)
           \/ Wake(p) \/ CancelClaim(p) \/ CompareAndSwap(p)
  <2>1. WaitsFor(p)'
    BY <1>6, OtherMoves DEF WaitsFor, Waiting
  <2> QED
    BY <1>3, <2>1 DEF WaitInv
<1>7. CASE LoadList(p)
  <2>1. prod[p].current < MaxSequence
    BY <1>7 DEF LoadList, TypeInv, CurrentBound, HasCurrent
  <2>2. /\ prod'[p].minimum \in {prod[p].current, MaxSequence}
        /\ prod'[p].pc \in {"gates", "decide"}
        /\ WrapPoint(p)' = prod[p].current + 1 - BufferSize
        /\ prod'[p].unread = Registered
    BY <1>7, LoadListMoves DEF WrapPoint
  <2>3. ~(prod'[p].minimum < WrapPoint(p)')
    BY <1>5, <2>1, <2>2
  <2>4. WaitsFor(p)'
    BY <1>2, <2>2, <2>3 DEF WaitsFor
  <2> QED
    BY <1>3, <2>4 DEF WaitInv
<1>8. ASSUME NEW g \in Gates, LoadGate(p, g) PROVE WaitInv'
  <2>1. /\ prod[p].pc = "gates" /\ g \in prod[p].unread
        /\ WrapPoint(p)' = WrapPoint(p) /\ prod'[p].fired = prod[p].fired
        /\ prod'[p].unread \subseteq prod[p].unread
        /\ prod'[p].pc \in {"gates", "decide"}
        /\ prod'[p].minimum \in {value[g], prod[p].minimum}
    BY <1>8, LoadGateMoves DEF WrapPoint
  <2>2. Waiting(p)' => Waiting(p)
    BY <2>1 DEF Waiting
  <2>3. ASSUME Waiting(p)', prod'[p].minimum < WrapPoint(p)'
        PROVE  Slow(WrapPoint(p))' \/ Pending'
    <3>1. Waiting(p) /\ (prod[p].unread \subseteq Registered \/ Removing)
      BY <1>4, <2>1, <2>2, <2>3 DEF WaitsFor
    <3>2. CASE prod'[p].minimum = prod[p].minimum
      BY <1>1, <1>2, <1>4, <2>1, <2>3, <3>1, <3>2 DEF WaitsFor, Slow
    <3>3. CASE prod'[p].minimum = value[g]
      BY <1>1, <1>2, <2>1, <2>3, <3>1, <3>3 DEF Slow, Pending
    <3> QED
      BY <2>1, <3>2, <3>3
  <2>4. Waiting(p)' => prod'[p].unread \subseteq Registered' \/ Removing'
    BY <1>2, <1>4, <2>1, <2>2 DEF WaitsFor
  <2>5. WaitsFor(p)'
    BY <2>1, <2>3, <2>4 DEF WaitsFor
  <2> QED
    BY <1>3, <2>5 DEF WaitInv
<1>9. CASE Decide(p)
  <2>1. /\ prod[p].pc = "decide" /\ WrapPoint(p)' = WrapPoint(p)
        /\ prod'[p].fired = prod[p].fired /\ prod'[p].minimum = prod[p].minimum
        /\ \/ prod'[p].pc = "block" /\ WrapPoint(p) > prod[p].minimum
           \/ prod'[p].pc = "cas"
    BY <1>9, DecideMoves DEF WrapPoint
  <2>2. Waiting(p)' => Waiting(p)
    BY <2>1 DEF Waiting
  <2>3. Slow(WrapPoint(p))' <=> Slow(WrapPoint(p))
    BY <1>1, <1>2, <2>1 DEF Slow
  <2>4. prod'[p].pc = "block" => prod'[p].minimum < WrapPoint(p)'
    BY <1>5, <2>1
  <2>5. WaitsFor(p)'
    BY <1>2, <1>4, <2>1, <2>2, <2>3, <2>4 DEF WaitsFor
  <2> QED
    BY <1>3, <2>5 DEF WaitInv
<1> QED
  BY <1>6, <1>7, <1>8, <1>9 DEF ClaimStep

LEMMA WaitStep ==
  ASSUME TypeInv, RegistryInv, WaitInv, [Next]_vars
  PROVE  WaitInv'
<1>1. ASSUME Fire \/ (UNCHANGED prod /\ KeepsReasons) PROVE WaitInv'
  BY <1>1, FireWait, KeptWait DEF WaitInv
<1>2. ASSUME NEW g \in Gates, OwnerStep(g) PROVE WaitInv'
  BY <1>1, <1>2, OwnerReasons
<1>3. ASSUME NEW a \in Admins,
             \/ BeginClose(a) \/ BeginShutdown(a) \/ AdminStep(a)
             \/ \E g \in Gates : BeginAdd(a, g) \/ BeginRemove(a, g)
      PROVE  WaitInv'
  <2>1. OnlyMoves(a)
    BY <1>3, AdminStepRegistry
  <2> QED
    BY <1>1, <1>3, <2>1, AdminReasons
<1>4. CASE UNCHANGED vars
  <2>1. UNCHANGED <<prod, value, gates, signals, closedCh, owner, admin>>
    BY <1>4 DEF vars, registry, lifecycle
  <2>2. KeepsReasons
    BY <2>1 DEF KeepsReasons, Slow, Pending, Removing, Storing, Registered
  <2> QED
    BY <1>1, <2>1, <2>2
<1> QED
  BY <1>2, <1>3, <1>4, ProducerStepWait DEF Next

(***************************************************************************)
(* No wake-up of a blocked producer is lost.  One that sleeps on a channel *)
(* nobody has closed has a registered gate that is too slow, or whoever    *)
(* made room is still about to signal, or the ring is closed: however      *)
(* stores, removals, repeated registrations and Close interleave with      *)
(* prepare, the reads of the gates and the wait.                           *)
(***************************************************************************)
THEOREM SleepersHaveAReason == Spec => []BlockedForAReason
<1> DEFINE Inv == TypeInv /\ RegistryInv /\ WaitInv
<1>1. Init => Inv
  BY TypeInit, RegistryInit, WaitInit
<1>2. Inv /\ [Next]_vars => Inv'
  BY RegistryStep, WaitStep
<1>3. Inv => BlockedForAReason
  BY DEF WaitInv, WaitsFor, Waiting, Slow, Pending, Storing, Removing, BlockedForAReason
<1> QED
  BY <1>1, <1>2, <1>3, PTL DEF Spec

-----------------------------------------------------------------------------
(* Shutdown. *)
LEMMA DrainInit == Init => DrainInv /\ QuietInv
<1> SUFFICES ASSUME Init PROVE DrainInv /\ QuietInv
  OBVIOUS
<1>1. \A a \in Admins : admin[a].pc = "idle" /\ admin[a].result = "none"
  BY DEF Init, IdleAdmin
<1>2. ~sealedAt.quiet
  BY DEF Init
<1> QED
  BY <1>1, <1>2 DEF DrainInv, Drains, Shutting, QuietInv

(* The ring is sealed once and for all. *)
LEMMA SealMoves ==
  ASSUME NEW a \in Admins,
         \/ BeginClose(a) \/ BeginShutdown(a) \/ AdminStep(a)
         \/ \E g \in Gates : BeginAdd(a, g) \/ BeginRemove(a, g)
  PROVE  /\ sealed => sealed'
         /\ UNCHANGED sealedAt \/ BeginShutdown(a)
         /\ UNCHANGED cursor /\ (UNCHANGED prod \/ Fire)
<1> USE DEF lifecycle
<1>1. CASE \/ BeginClose(a) \/ CloseFirst(a) \/ CloseAgain(a) \/ CloseChannel(a)
           \/ CloseSignal(a) \/ RemoveGateSignals(a)
  BY <1>1 DEF BeginClose, CloseFirst, CloseAgain, CloseChannel, CloseSignal,
              RemoveGateSignals
<1>2. CASE BeginShutdown(a)
  BY <1>2 DEF BeginShutdown
<1>3. CASE \/ ShutdownSignal(a) \/ LoadBoundary(a) \/ LoadSnapshot(a)
           \/ EndDrain(a) \/ \E g \in Gates : DrainGate(a, g)
  <2>1. UNCHANGED <<cursor, lifecycle>> /\ (UNCHANGED prod \/ Fire)
    BY <1>3 DEF ShutdownSignal, LoadBoundary, LoadSnapshot, EndDrain, DrainGate
  <2> QED
    BY <2>1
<1>4. CASE AddLoadCursor(a) \/ RemoveSignal(a)
  BY <1>4 DEF AddLoadCursor, RemoveSignal
<1>5. CASE \E g \in Gates : \/ BeginAdd(a, g) \/ AddStore(a, g) \/ AddSignal(a, g)
                            \/ AddEnlist(a, g) \/ AddAppend(a, g)
                            \/ BeginRemove(a, g) \/ RemoveUnlist(a, g)
  <2>1. UNCHANGED <<cursor, lifecycle>> /\ (UNCHANGED prod \/ Fire)
    BY <1>5 DEF BeginAdd, AddStore, AddSignal, AddEnlist, AddAppend, BeginRemove,
                RemoveUnlist
  <2> QED
    BY <2>1
<1> QED
  BY <1>1, <1>2, <1>3, <1>4, <1>5 DEF AdminStep

(* An administrator that does not move, while the gates advance. *)
LEMMA DrainKept ==
  ASSUME TypeInv, NEW a \in Admins, Drains(a), ValuesGrow, cursor <= cursor',
         \A g \in Gates : value'[g] \in Int, cursor' \in Int,
         admin'[a] = admin[a], sealed => sealed', UNCHANGED sealedAt \/ ~sealed
  PROVE  Drains(a)'
<1>1. Shutting(a)' <=> Shutting(a)
  BY DEF Shutting
<1>2. CASE ~Shutting(a)
  BY <1>1, <1>2 DEF Drains, Shutting
<1>3. CASE Shutting(a)
  <2>1. sealed /\ UNCHANGED sealedAt
    BY <1>3 DEF Drains
  <2>2. /\ sealedAt.cursor \in Int /\ cursor \in Int /\ admin[a].at \in Int
        /\ \A g \in Gates : value[g] \in Int
        /\ admin[a].gate \subseteq Gates
    BY Numbers, AdminLocal, RegistryAssumption DEF TypeInv, TypeOK, Positions
  <2> QED
    BY <1>1, <2>1, <2>2 DEF Drains, ValuesGrow
<1> QED
  BY <1>2, <1>3

(* The step of an administrator that is not in Shutdown's own code. *)
LEMMA DrainElsewhere ==
  ASSUME TypeInv, NEW a \in Admins, Drains(a), UNCHANGED <<cursor, sealedAt>>,
         sealed => sealed', ValuesGrow, \A g \in Gates : value'[g] \in Int,
         admin'[a].pc \notin {"shutdown", "boundary", "snapshot", "drain"},
         \/ admin'[a].result = "none"
         \/ /\ admin'[a].result = admin[a].result /\ admin'[a].gate = admin[a].gate
            /\ admin[a].pc \in Closers => admin'[a].pc \in Closers
  PROVE  Drains(a)'
<1>1. CASE admin'[a].result = "none"
  BY <1>1 DEF Drains, Shutting
<1>2. CASE /\ admin'[a].result = admin[a].result /\ admin'[a].gate = admin[a].gate
           /\ admin'[a].result # "none"
           /\ admin[a].pc \in Closers => admin'[a].pc \in Closers
  <2>1. /\ sealedAt.cursor \in Int /\ \A g \in Gates : value[g] \in Int
        /\ admin[a].gate \subseteq Gates
    BY Numbers, AdminLocal, RegistryAssumption DEF TypeInv, TypeOK, Positions
  <2> QED
    BY <1>2, <2>1 DEF Drains, Shutting, ValuesGrow
<1> QED
  BY <1>1, <1>2

LEMMA AdminStepDrain ==
  ASSUME TypeInv, RegistryInv, NEW a \in Admins, OnlyMoves(a), Drains(a), ValuesGrow,
         \A g \in Gates : value'[g] \in Int,
         \/ BeginClose(a) \/ BeginShutdown(a) \/ AdminStep(a)
         \/ \E g \in Gates : BeginAdd(a, g) \/ BeginRemove(a, g)
  PROVE  Drains(a)'
<1> USE DEF AdminCalls
<1>1. sealed => sealed'
  BY SealMoves
<1>2. UNCHANGED cursor /\ (UNCHANGED sealedAt \/ BeginShutdown(a))
  BY SealMoves
<1>3. /\ sealedAt.cursor \in Int /\ cursor \in Int /\ admin[a].at \in Int
      /\ \A g \in Gates : value[g] \in Int
      /\ admin[a].gate \subseteq Gates /\ admin[a].behind \in BOOLEAN
  BY Numbers, AdminLocal, RegistryAssumption DEF TypeInv, TypeOK, Positions
<1>4. admin[a].pc \notin Closers => admin[a].result = "none"
  BY DEF Drains
<1>5. CASE BeginShutdown(a)
  <2>1. /\ admin'[a].pc = "shutdown" /\ admin'[a].result = "none"
        /\ sealed' = TRUE /\ sealedAt'.cursor = cursor
    BY <1>5, ShutdownMoves DEF BeginShutdown
  <2> QED
    BY <1>2, <1>3, <2>1 DEF Drains, Shutting
<1>6. CASE ShutdownSignal(a)
  <2>1. /\ admin[a].pc = "shutdown" /\ admin'[a].pc = "boundary"
        /\ admin'[a].result = admin[a].result /\ UNCHANGED <<sealed, sealedAt>>
    BY <1>6, PcMoves DEF ShutdownSignal, lifecycle
  <2> QED
    BY <1>2, <1>4, <2>1 DEF Drains, Shutting, Closers
<1>7. CASE LoadBoundary(a)
  <2>1. /\ admin[a].pc = "boundary" /\ admin'[a].pc = "snapshot"
        /\ admin'[a].at = cursor
        /\ admin'[a].result = admin[a].result /\ UNCHANGED <<sealed, sealedAt>>
    BY <1>7, AtMoves DEF LoadBoundary, lifecycle
  <2> QED
    BY <1>2, <1>4, <2>1 DEF Drains, Shutting, Closers
<1>8. CASE LoadSnapshot(a)
  <2>1. /\ admin[a].pc = "snapshot" /\ admin'[a].pc = "drain"
        /\ admin'[a].at = admin[a].at /\ admin'[a].unread = admin'[a].gate
        /\ admin'[a].result = admin[a].result /\ UNCHANGED <<sealed, sealedAt>>
    BY <1>8, SnapshotMoves DEF LoadSnapshot, lifecycle
  <2> QED
    BY <1>2, <1>4, <2>1 DEF Drains, Shutting, Closers
<1>9. ASSUME NEW g \in Gates, DrainGate(a, g) PROVE Drains(a)'
  <2>1. /\ admin[a].pc = "drain" /\ admin'[a].pc = "drain"
        /\ admin'[a].at = admin[a].at /\ admin'[a].gate = admin[a].gate
        /\ admin'[a].unread = admin[a].unread \ {g}
        /\ admin'[a].result = admin[a].result /\ UNCHANGED <<sealed, sealedAt, value>>
    BY <1>9, DrainMoves DEF DrainGate, lifecycle
  <2>2. admin'[a].behind <=> admin[a].behind \/ value[g] < admin[a].at
    BY <1>9, DrainMoves
  <2>3. ASSUME NEW h \in admin[a].gate
        PROVE  h \in admin'[a].unread \/ admin'[a].behind \/ admin'[a].at <= value'[h]
    <3>1. h \in admin[a].unread \/ admin[a].behind \/ admin[a].at <= value[h]
      BY <2>1 DEF Drains
    <3>2. h = g => value[g] < admin[a].at \/ admin[a].at <= value[h]
      BY <1>3
    <3> QED
      BY <2>1, <2>2, <3>1, <3>2
  <2> QED
    BY <1>2, <1>4, <2>1, <2>3 DEF Drains, Shutting, Closers
<1>10. CASE EndDrain(a)
  <2>1. /\ admin[a].pc = "drain" /\ admin[a].unread = {}
        /\ admin'[a].at = admin[a].at /\ admin'[a].gate = admin[a].gate
        /\ UNCHANGED <<sealed, sealedAt, value>>
    BY <1>10, EndDrainMoves DEF EndDrain, lifecycle
  <2>2. CASE /\ admin'[a].pc = "seal" /\ admin'[a].result # "none"
             /\ admin'[a].result = "nil" => ~admin[a].behind
    <3>1. ASSUME admin'[a].result = "nil", NEW g \in admin[a].gate
          PROVE  sealedAt.cursor <= value[g]
      <4>1. admin[a].at <= value[g] /\ sealedAt.cursor <= admin[a].at
        BY <2>1, <2>2, <3>1 DEF Drains
      <4> QED
        BY <1>3, <4>1
    <3> QED
      BY <1>2, <2>1, <2>2, <3>1 DEF Drains, Shutting, Closers
  <2>3. CASE /\ admin'[a].pc = "drain" /\ admin'[a].unread = admin[a].gate
             /\ admin'[a].result = admin[a].result
    BY <1>2, <1>4, <2>1, <2>3 DEF Drains, Shutting, Closers
  <2> QED
    BY <1>10, <2>2, <2>3, EndDrainMoves
<1>11. ASSUME UNCHANGED sealedAt, sealed => sealed',
              admin'[a].pc \notin {"shutdown", "boundary", "snapshot", "drain"},
              \/ admin'[a].result = "none"
              \/ /\ admin'[a].result = admin[a].result /\ admin'[a].gate = admin[a].gate
                 /\ admin[a].pc \in Closers => admin'[a].pc \in Closers
       PROVE  Drains(a)'
  BY <1>2, <1>11, DrainElsewhere
<1> USE DEF Closers, lifecycle
<1>12. CASE BeginClose(a) \/ CloseFirst(a) \/ CloseChannel(a) \/ CloseSignal(a)
  BY <1>1, <1>11, <1>12, PcMoves DEF BeginClose, CloseFirst, CloseChannel, CloseSignal
<1>13. CASE \E g \in Gates : \/ AddStore(a, g) \/ AddSignal(a, g)
                             \/ AddEnlist(a, g) \/ RemoveUnlist(a, g)
  BY <1>1, <1>4, <1>11, <1>13, PcMoves DEF AddStore, AddSignal, AddEnlist, RemoveUnlist
<1>14. CASE \/ RemoveSignal(a) \/ CloseAgain(a) \/ RemoveGateSignals(a)
            \/ \E g \in Gates : AddAppend(a, g)
  BY <1>1, <1>11, <1>14, IdleMoves DEF RemoveSignal, CloseAgain, RemoveGateSignals, AddAppend
<1>15. CASE AddLoadCursor(a)
  BY <1>1, <1>4, <1>11, <1>15, AtMoves DEF AddLoadCursor
<1>16. ASSUME NEW g \in Gates, BeginAdd(a, g) PROVE Drains(a)'
  <2>1. /\ admin' = [admin EXCEPT ![a] = [IdleAdmin EXCEPT !.pc = "add", !.gate = {g}]]
        /\ UNCHANGED <<sealed, sealedAt>>
    BY <1>16 DEF BeginAdd
  <2>2. "add" \in AdminCalls /\ {g} \in SUBSET Gates
    OBVIOUS
  <2>3. admin'[a].pc = "add" /\ admin'[a].result = "none"
    BY <2>1, <2>2, StartMoves, Zenon
  <2> QED
    BY <1>11, <2>1, <2>3
<1>17. ASSUME NEW g \in Gates, BeginRemove(a, g) PROVE Drains(a)'
  BY <1>1, <1>11, <1>17, BeginRemoveRegistry DEF BeginRemove
<1> QED
  BY <1>5, <1>6, <1>7, <1>8, <1>9, <1>10, <1>12, <1>13, <1>14, <1>15, <1>16, <1>17
  DEF AdminStep

(* While the ring is sealed and every producer is idle, none of them moves. *)
LEMMA ProducerStepQuiet ==
  ASSUME QuietInv, NEW p \in Producers,
         CheckSealed(p) \/ ClaimStep(p) \/ CancelClaim(p)
  PROVE  ~sealedAt.quiet
BY DEF QuietInv, CheckSealed, ClaimStep, CancelClaim, LoadCursor, LoadGateCache,
       PrepareWait, LoadList, LoadGate, Decide, Wake, CompareAndSwap

LEMMA DrainStep ==
  ASSUME TypeInv, RegistryInv, ValueInv, DrainInv, QuietInv, TypeInv', [Next]_vars
  PROVE  DrainInv' /\ QuietInv'
<1>1. ValuesGrow /\ cursor <= cursor'
  BY ValueStep
<1>2. cursor' \in Int /\ \A g \in Gates : value'[g] \in Int
  BY RegistryAssumption DEF TypeInv, TypeOK, Positions
<1>3. ASSUME UNCHANGED <<admin, lifecycle>> PROVE DrainInv'
  BY <1>1, <1>2, <1>3, DrainKept DEF DrainInv, lifecycle
<1>4. ASSUME NEW p \in Producers, CheckSealed(p) \/ ClaimStep(p) \/ CancelClaim(p)
      PROVE  DrainInv' /\ QuietInv'
  <2>1. ~sealedAt.quiet /\ UNCHANGED <<admin, lifecycle>>
    BY <1>4, ProducerStepQuiet, ProducerMoves
  <2> QED
    BY <1>3, <2>1 DEF QuietInv, lifecycle
<1>5. ASSUME UNCHANGED prod \/ Fire
      PROVE  \A p \in Producers : prod'[p].pc = prod[p].pc
  BY <1>5, FireType
<1>6. ASSUME NEW g \in Gates, OwnerStep(g) PROVE DrainInv' /\ QuietInv'
  <2>1. UNCHANGED <<cursor, admin, lifecycle>> /\ (UNCHANGED prod \/ Fire)
    BY <1>6 DEF OwnerStep, StartOwner, StoreGate, SignalGate
  <2> QED
    BY <1>3, <1>5, <2>1 DEF QuietInv, lifecycle
<1>7. ASSUME NEW a \in Admins,
             \/ BeginClose(a) \/ BeginShutdown(a) \/ AdminStep(a)
             \/ \E g \in Gates : BeginAdd(a, g) \/ BeginRemove(a, g)
      PROVE  DrainInv' /\ QuietInv'
  <2>1. /\ OnlyMoves(a) /\ Drains(a)
        /\ \A b \in Admins : b # a => admin'[b] = admin[b]
    BY <1>7, AdminStepRegistry DEF OnlyMoves, DrainInv
  <2>2. /\ sealed => sealed'
        /\ UNCHANGED sealedAt \/ BeginShutdown(a)
        /\ UNCHANGED cursor /\ (UNCHANGED prod \/ Fire)
    BY <1>7, SealMoves
  <2>3. UNCHANGED sealedAt \/ ~sealed
    BY <2>2 DEF BeginShutdown
  <2>4. Drains(a)'
    BY <1>1, <1>2, <1>7, <2>1, AdminStepDrain
  <2>5. ASSUME NEW b \in Admins, b # a PROVE Drains(b)'
    BY <1>1, <1>2, <2>1, <2>2, <2>3, <2>5, DrainKept DEF DrainInv
  <2>6. QuietInv'
    <3>1. CASE BeginShutdown(a)
      <4>1. /\ sealed' = TRUE /\ sealedAt'.cursor = cursor
            /\ sealedAt'.quiet <=> \A p \in Producers : prod[p].pc = "idle"
        BY <3>1 DEF BeginShutdown
      <4> QED
        BY <1>5, <2>2, <4>1 DEF QuietInv
    <3>2. CASE UNCHANGED sealedAt
      BY <1>5, <2>2, <3>2 DEF QuietInv
    <3> QED
      BY <2>2, <3>1, <3>2
  <2> QED
    BY <2>4, <2>5, <2>6 DEF DrainInv
<1>8. CASE UNCHANGED vars
  BY <1>3, <1>8 DEF vars, QuietInv, lifecycle
<1> QED
  BY <1>4, <1>6, <1>7, <1>8 DEF Next

(***************************************************************************)
(* When Shutdown reports success, every gate of its snapshot has reached   *)
(* all that was claimed when it sealed the ring, and nothing more can be   *)
(* claimed if the publishers had returned by then: whatever claims,        *)
(* acknowledges, closes or changes the gates meanwhile.                    *)
(***************************************************************************)
THEOREM SuccessMeansDrained == Spec => []ShutdownDrains
<1> DEFINE Inv == TypeInv /\ RegistryInv /\ ValueInv /\ DrainInv /\ QuietInv
<1>1. Init => Inv
  BY TypeInit, RegistryInit, ValueInit, DrainInit
<1>2. Inv /\ [Next]_vars => Inv'
  BY RegistryStep, ValueStep, DrainStep
<1>3. Inv => ShutdownDrains
  BY DEF DrainInv, Drains, QuietInv, ShutdownDrains
<1> QED
  BY <1>1, <1>2, <1>3, PTL DEF Spec

-----------------------------------------------------------------------------
(* While no gate is added: registered gates only advance or go away. *)
LEMMA NobodyAddsStep ==
  ASSUME "Add" \notin Calls, TypeInv, RegistryInv, NobodyAdds, [Next]_vars
  PROVE  NobodyAdds' /\ Registered' \subseteq Registered
<1>1. ASSUME UNCHANGED <<gates, admin>> PROVE NobodyAdds' /\ Registered' \subseteq Registered
  BY <1>1 DEF NobodyAdds, Adding, Registered
<1>2. ASSUME NEW p \in Producers, CheckSealed(p) \/ ClaimStep(p) \/ CancelClaim(p)
      PROVE  UNCHANGED <<gates, admin>>
  BY <1>2, ProducerMoves DEF registry
<1>3. ASSUME NEW g \in Gates, OwnerStep(g) PROVE UNCHANGED <<gates, admin>>
  BY <1>3 DEF OwnerStep, StartOwner, StoreGate, SignalGate, registry
<1>4. ASSUME NEW a \in Admins,
             \/ BeginClose(a) \/ BeginShutdown(a) \/ AdminStep(a)
             \/ \E g \in Gates : BeginAdd(a, g) \/ BeginRemove(a, g)
      PROVE  NobodyAdds' /\ Registered' \subseteq Registered
  <2> USE DEF AdminCalls, AddCalls, registry
  <2>1. admin[a].pc \notin AddCalls /\ \A b \in Admins : b # a => admin'[b] = admin[b]
    BY <1>4, AdminStepRegistry DEF NobodyAdds, Adding, OnlyMoves
  <2>2. ASSUME admin'[a].pc \notin AddCalls, Registered' \subseteq Registered
        PROVE  NobodyAdds' /\ Registered' \subseteq Registered
    BY <2>1, <2>2 DEF NobodyAdds, Adding
  <2>3. ASSUME admin'[a].pc \notin AddCalls, UNCHANGED gates
        PROVE  NobodyAdds' /\ Registered' \subseteq Registered
    BY <2>2, <2>3 DEF Registered
  <2>4. CASE BeginClose(a) \/ CloseFirst(a) \/ CloseChannel(a) \/ CloseSignal(a)
             \/ ShutdownSignal(a) \/ \E g \in Gates : RemoveUnlist(a, g)
    BY <2>3, <2>4, PcMoves
    DEF BeginClose, CloseFirst, CloseChannel, CloseSignal, ShutdownSignal, RemoveUnlist
  <2>5. CASE RemoveSignal(a) \/ CloseAgain(a) \/ RemoveGateSignals(a)
    BY <2>3, <2>5, IdleMoves DEF RemoveSignal, CloseAgain, RemoveGateSignals
  <2>6. CASE \/ LoadBoundary(a) \/ BeginShutdown(a) \/ LoadSnapshot(a) \/ EndDrain(a)
             \/ \E g \in Gates : DrainGate(a, g)
    <3>1. admin'[a].pc \notin AddCalls
      BY <2>6, AtMoves, ShutdownMoves, SnapshotMoves, EndDrainMoves, DrainMoves
      DEF LoadBoundary
    <3> QED
      BY <2>3, <2>6, <3>1
      DEF LoadBoundary, BeginShutdown, LoadSnapshot, EndDrain, DrainGate
  <2>7. CASE \E g \in Gates : BeginRemove(a, g)
    BY <2>2, <2>7, BeginRemoveRegistry
  <2>8. CASE \/ AddLoadCursor(a)
             \/ \E g \in Gates : \/ AddStore(a, g) \/ AddSignal(a, g)
                                 \/ AddEnlist(a, g) \/ AddAppend(a, g)
    BY <2>1, <2>8 DEF AddLoadCursor, AddStore, AddSignal, AddEnlist, AddAppend
  <2>9. CASE \E g \in Gates : BeginAdd(a, g)
    BY <2>9 DEF BeginAdd
  <2> QED
    BY <1>4, <2>4, <2>5, <2>6, <2>7, <2>8, <2>9 DEF AdminStep
<1>5. CASE UNCHANGED vars
  BY <1>1, <1>5 DEF vars, registry
<1> QED
  BY <1>1, <1>2, <1>3, <1>4, <1>5 DEF Next

LEMMA ProtectInit == Init => ProtectInv /\ NobodyAdds
<1> SUFFICES ASSUME Init PROVE ProtectInv /\ NobodyAdds
  OBVIOUS
<1>1. \A p \in Producers : prod[p].pc = "idle"
  BY DEF Init, IdleProducer
<1>2. \A a \in Admins : admin[a].pc = "idle"
  BY DEF Init, IdleAdmin
<1>3. \A g \in Gates : value[g] = -1 /\ cursor = -1 /\ gateCache = -1
  BY DEF Init
<1>4. RegisteredProtected /\ CacheBehind
  BY <1>3, RegistryAssumption DEF RegisteredProtected, CacheBehind, Registered
<1> QED
  BY <1>1, <1>2, <1>4 DEF ProtectInv, MinimumBehind, Admitted, NobodyAdds, Adding, AddCalls

(* What is known about a claim that does not move. *)
LEMMA ProtectKept ==
  ASSUME TypeInv, ValuesGrow, \A g \in Gates : value'[g] \in Int,
         Registered' \subseteq Registered,
         NEW p \in Producers, MinimumBehind(p), Admitted(p),
         prod'[p].pc = prod[p].pc, prod'[p].current = prod[p].current,
         prod'[p].minimum = prod[p].minimum, prod'[p].unread = prod[p].unread
  PROVE  MinimumBehind(p)' /\ Admitted(p)'
<1>1. /\ prod[p].minimum \in Int /\ WrapPoint(p) \in Int /\ WrapPoint(p)' = WrapPoint(p)
      /\ \A g \in Gates : value[g] \in Int
      /\ Registered \subseteq Gates
  BY Numbers, ProducerLocal DEF WrapPoint, Registered
<1>2. \A g \in Registered' : g \in Registered /\ g \in Gates /\ value[g] <= value'[g]
  BY <1>1 DEF ValuesGrow
<1>3. MinimumBehind(p)'
  BY <1>1, <1>2 DEF MinimumBehind
<1>4. Admitted(p)'
  BY <1>1, <1>2 DEF Admitted
<1> QED
  BY <1>3, <1>4

(* Steps of consumers and administrators. *)
LEMMA ProtectOthers ==
  ASSUME TypeInv, ProtectInv, ValuesGrow, \A g \in Gates : value'[g] \in Int,
         Registered' \subseteq Registered, UNCHANGED <<cursor, gateCache>>,
         UNCHANGED prod \/ Fire
  PROVE  ProtectInv'
<1>1. \A p \in Producers :
        /\ prod'[p].pc = prod[p].pc /\ prod'[p].current = prod[p].current
        /\ prod'[p].minimum = prod[p].minimum /\ prod'[p].unread = prod[p].unread
  BY FireType
<1>2. \A p \in Producers : MinimumBehind(p)' /\ Admitted(p)'
  BY <1>1, ProtectKept DEF ProtectInv
<1>3. /\ cursor \in Int /\ gateCache \in Int /\ BufferSize \in Int
      /\ \A g \in Gates : value[g] \in Int
      /\ Registered \subseteq Gates
  BY Numbers DEF Registered
<1>4. \A g \in Registered' : g \in Registered /\ g \in Gates /\ value[g] <= value'[g]
  BY <1>3 DEF ValuesGrow
<1>5. RegisteredProtected' /\ CacheBehind'
  BY <1>3, <1>4 DEF ProtectInv, RegisteredProtected, CacheBehind
<1> QED
  BY <1>2, <1>5 DEF ProtectInv

LEMMA ProducerStepProtect ==
  ASSUME TypeInv, ProtectInv, NEW p \in Producers,
         CheckSealed(p) \/ ClaimStep(p) \/ CancelClaim(p)
  PROVE  ProtectInv'
<1>1. UNCHANGED <<value, gates>> /\ Registered' = Registered
  BY ProducerMoves DEF registry, Registered
<1>2. /\ cursor \in Int /\ gateCache \in Int /\ BufferSize \in Int /\ BufferSize >= 1
      /\ \A g \in Gates : value[g] \in Int
      /\ Registered \subseteq Gates
      /\ WrapPoint(p) \in Int /\ prod[p].current \in Int /\ prod[p].minimum \in Int
      /\ prod[p] \in ProducerState /\ prod \in [Producers -> ProducerState]
  BY Numbers, ProducerLocal DEF Registered, TypeInv, TypeOK
<1>3. ASSUME NEW q \in Producers, q # p PROVE MinimumBehind(q)' /\ Admitted(q)'
  <2>1. ValuesGrow /\ \A g \in Gates : value'[g] \in Int
    BY <1>1, <1>2 DEF ValuesGrow
  <2>2. prod'[q] = prod[q]
    BY <1>3, ProducerMoves
  <2>3. MinimumBehind(q) /\ Admitted(q) /\ Registered' \subseteq Registered
    BY <1>1 DEF ProtectInv
  <2> QED
    BY <2>1, <2>2, <2>3, ProtectKept
<1>4. ASSUME UNCHANGED <<cursor, gateCache>>, MinimumBehind(p)', Admitted(p)'
      PROVE  ProtectInv'
  BY <1>1, <1>3, <1>4 DEF ProtectInv, RegisteredProtected, CacheBehind
<1>5. CASE CheckSealed(p) \/ LoadCursor(p) \/ PrepareWait(p) \/ Wake(p) \/ CancelClaim(p)
  <2>1. prod'[p].pc \notin {"gates", "decide", "cas"}
    <3>1. CASE CheckSealed(p) \/ Wake(p) \/ CancelClaim(p)
      BY <1>2, <3>1 DEF CheckSealed, Wake, CancelClaim, Step, ProducerState, IdleProducer
    <3>2. CASE LoadCursor(p) \/ PrepareWait(p)
      BY <1>2, <3>2 DEF LoadCursor, PrepareWait, ProducerState
    <3> QED
      BY <1>5, <3>1, <3>2
  <2>2. UNCHANGED <<cursor, gateCache>>
    BY <1>5 DEF CheckSealed, LoadCursor, PrepareWait, Wake, CancelClaim
  <2> QED
    BY <1>4, <2>1, <2>2 DEF MinimumBehind, Admitted
<1>6. CASE LoadGateCache(p)
  <2>1. /\ UNCHANGED <<cursor, gateCache>> /\ prod'[p].current = prod[p].current
        /\ prod'[p].pc = "prepare" \/ (prod'[p].pc = "cas" /\ WrapPoint(p) <= gateCache)
    <3>1. PICK pc \in {"prepare", "cas"} :
            /\ Step(p, pc)
            /\ pc = "cas" => ~(WrapPoint(p) > gateCache)
      BY <1>6 DEF LoadGateCache
    <3>2. prod'[p].pc = pc /\ prod'[p].current = prod[p].current
      BY <1>2, <3>1 DEF Step, ProducerState
    <3> QED
      BY <1>2, <1>6, <3>1, <3>2 DEF LoadGateCache
  <2>2. WrapPoint(p)' = WrapPoint(p)
    BY <2>1 DEF WrapPoint
  <2>3. \A g \in Registered : gateCache <= value[g]
    BY DEF ProtectInv, CacheBehind
  <2>4. Admitted(p)'
    BY <1>1, <1>2, <2>1, <2>2, <2>3 DEF Admitted
  <2> QED
    BY <1>4, <2>1, <2>4 DEF MinimumBehind
<1>7. CASE LoadList(p)
  <2>1. /\ prod'[p].unread = Registered
        /\ prod'[p].pc = "decide" => Registered = {}
        /\ prod'[p].pc # "cas"
    BY <1>7, LoadListMoves
  <2>2. UNCHANGED <<cursor, gateCache>>
    BY <1>7 DEF LoadList
  <2> QED
    BY <1>1, <1>4, <2>1, <2>2 DEF MinimumBehind, Admitted
<1>8. ASSUME NEW g \in Gates, LoadGate(p, g) PROVE ProtectInv'
  <2>1. /\ prod[p].pc = "gates" /\ prod'[p].unread = prod[p].unread \ {g}
        /\ prod'[p].pc \in {"decide", "gates"}
        /\ prod'[p].pc = "decide" => prod[p].unread = {g}
        /\ UNCHANGED <<cursor, gateCache>>
    BY <1>8, LoadGateMoves DEF LoadGate
  <2>2. /\ prod'[p].minimum \in Int
        /\ prod'[p].minimum <= value[g] /\ prod'[p].minimum <= prod[p].minimum
    BY <1>2, <1>8, LoadGateMoves
  <2>3. \A h \in Registered : h \in prod[p].unread \/ prod[p].minimum <= value[h]
    BY <2>1 DEF ProtectInv, MinimumBehind
  <2>4. \A h \in Registered : h \in prod'[p].unread \/ prod'[p].minimum <= value[h]
    BY <1>2, <2>1, <2>2, <2>3
  <2>5. prod'[p].pc = "decide" => prod'[p].unread = {}
    BY <2>1
  <2> QED
    BY <1>1, <1>4, <2>1, <2>4, <2>5 DEF MinimumBehind, Admitted
<1>9. CASE Decide(p)
  <2>1. /\ prod[p].pc = "decide" /\ UNCHANGED cursor
        /\ prod'[p].current = prod[p].current
        /\ \/ prod'[p].pc = "block" /\ gateCache' = gateCache
           \/ /\ prod'[p].pc = "cas" /\ WrapPoint(p) <= prod[p].minimum
              /\ gateCache' = prod[p].minimum
    BY <1>9, DecideMoves DEF Decide
  <2>2. \A g \in Registered : prod[p].minimum <= value[g]
    BY <2>1 DEF ProtectInv, MinimumBehind
  <2>3. WrapPoint(p)' = WrapPoint(p)
    BY <2>1 DEF WrapPoint
  <2>4. MinimumBehind(p)' /\ Admitted(p)'
    BY <1>1, <1>2, <2>1, <2>2, <2>3 DEF MinimumBehind, Admitted
  <2>5. RegisteredProtected' /\ CacheBehind'
    BY <1>1, <2>1, <2>2 DEF ProtectInv, RegisteredProtected, CacheBehind
  <2> QED
    BY <1>3, <2>4, <2>5 DEF ProtectInv
<1>10. CASE CompareAndSwap(p)
  <2>1. /\ UNCHANGED gateCache /\ prod[p].pc = "cas"
        /\ cursor' = cursor \/ (cursor' = cursor + 1 /\ cursor = prod[p].current)
    BY <1>10 DEF CompareAndSwap
  <2>2. prod'[p].pc \in {"idle", "sealed"}
    BY <1>2, <1>10 DEF CompareAndSwap, IdleProducer
  <2>3. MinimumBehind(p)' /\ Admitted(p)'
    BY <2>2 DEF MinimumBehind, Admitted
  <2>4. \A g \in Registered : prod[p].current + 1 - BufferSize <= value[g]
    BY <2>1 DEF ProtectInv, Admitted, WrapPoint
  <2>5. RegisteredProtected'
    BY <1>1, <1>2, <2>1, <2>4 DEF ProtectInv, RegisteredProtected
  <2>6. CacheBehind'
    BY <1>1, <2>1 DEF ProtectInv, CacheBehind
  <2> QED
    BY <1>3, <2>3, <2>5, <2>6 DEF ProtectInv
<1> QED
  BY <1>5, <1>6, <1>7, <1>8, <1>9, <1>10 DEF ClaimStep

LEMMA ProtectStep ==
  ASSUME "Add" \notin Calls, TypeInv, RegistryInv, ValueInv, NobodyAdds, ProtectInv,
         TypeInv', [Next]_vars
  PROVE  ProtectInv'
<1>1. ValuesGrow /\ \A g \in Gates : value'[g] \in Int
  BY ValueStep, RegistryAssumption DEF TypeInv, TypeOK, Positions
<1>2. Registered' \subseteq Registered
  BY NobodyAddsStep
<1>3. ASSUME NEW g \in Gates, OwnerStep(g) PROVE ProtectInv'
  <2>1. UNCHANGED <<cursor, gateCache>> /\ (UNCHANGED prod \/ Fire)
    BY <1>3 DEF OwnerStep, StartOwner, StoreGate, SignalGate
  <2> QED
    BY <1>1, <1>2, <2>1, ProtectOthers
<1>4. ASSUME NEW a \in Admins,
             \/ BeginClose(a) \/ BeginShutdown(a) \/ AdminStep(a)
             \/ \E g \in Gates : BeginAdd(a, g) \/ BeginRemove(a, g)
      PROVE  ProtectInv'
  <2>1. UNCHANGED gateCache
    BY <1>4
    DEF AdminStep, BeginClose, BeginShutdown, BeginAdd, BeginRemove, AddLoadCursor,
        AddStore, AddSignal, AddEnlist, AddAppend, RemoveUnlist, RemoveSignal,
        CloseFirst, CloseAgain, CloseChannel, CloseSignal, RemoveGateSignals,
        ShutdownSignal, LoadBoundary, LoadSnapshot, DrainGate, EndDrain
  <2>2. UNCHANGED cursor /\ (UNCHANGED prod \/ Fire)
    BY <1>4, SealMoves
  <2> QED
    BY <1>1, <1>2, <2>1, <2>2, ProtectOthers
<1>5. CASE UNCHANGED vars
  BY <1>1, <1>2, <1>5, ProtectOthers DEF vars
<1> QED
  BY <1>3, <1>4, <1>5, ProducerStepProtect DEF Next

(***************************************************************************)
(* No claim laps a registered gate, while gates are removed at runtime and *)
(* the ring is closed or shut down.  Without the hypothesis this is false: *)
(* a gate that is added while producers claim may be lapped before it is   *)
(* on the list they read.                                                  *)
(***************************************************************************)
THEOREM RemovalsNeverLap ==
  ASSUME "Add" \notin Calls
  PROVE  Spec => []RegisteredProtected
<1> DEFINE Inv == TypeInv /\ RegistryInv /\ ValueInv /\ NobodyAdds /\ ProtectInv
<1>1. Init => Inv
  BY TypeInit, RegistryInit, ValueInit, ProtectInit
<1>2. Inv /\ [Next]_vars => Inv'
  BY RegistryStep, ValueStep, NobodyAddsStep, ProtectStep
<1>3. Inv => RegisteredProtected
  BY DEF ProtectInv
<1> QED
  BY <1>1, <1>2, <1>3, PTL DEF Spec
=============================================================================
