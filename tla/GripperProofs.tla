--------------------------- MODULE GripperProofs ----------------------------
(***************************************************************************)
(* Proofs about Gripper for every set of callers and every bound: a ladder *)
(* or a reconnect that holds the gate shares the dispatcher's registers    *)
(* with one command at most.                                               *)
(***************************************************************************)
EXTENDS Gripper, FiniteSetTheorems, TLAPS

\* A command is a number wherever it is: with its caller, queued or being worked on.
CallerPlaces == {"idle", "refuse", "latch", "clear", "forget", "enqueue", "submitted",
                 "waiting"}
WorkerPlaces == {"idle", "check", "modifier", "action", "trigger", "settle", "poll",
                 "result", "latch"}

TypeInv ==
    /\ recovering \in BOOLEAN
    /\ submitted \in Nat
    /\ caller \in [Callers -> [pc : CallerPlaces, command : Nat]]
    /\ queue \in Seq(Nat)
    /\ worker \in [pc : WorkerPlaces, command : Nat, success : BOOLEAN]

\* The command past _execute's check, and the registers not written yet.
Writing == worker.pc \in {"modifier", "action", "trigger"}

\* All that has leaked under this gate is one command, and as long as the gate is up a
\* worker that still has a register to write is at work on that very command: it
\* passed the check before the gate rose, and none passes while it is up.
LeakInv == \E m \in Nat :
    /\ leaked \subseteq {m}
    /\ recovering /\ Writing => worker.command = m

-----------------------------------------------------------------------------

LEMMA TypeInit == Init => TypeInv
  <1> SUFFICES ASSUME Init PROVE TypeInv
    OBVIOUS
  <1>1. caller \in [Callers -> [pc : CallerPlaces, command : Nat]]
    BY DEF Init, CallerPlaces
  <1>2. worker \in [pc : WorkerPlaces, command : Nat, success : BOOLEAN]
    BY DEF Init, WorkerPlaces
  <1>3. recovering \in BOOLEAN
    BY DEF Init
  <1>4. submitted \in Nat
    BY DEF Init
  <1>5. queue \in Seq(Nat)
    <2>1. queue = <<>>
      BY DEF Init
    <2> QED
      BY <2>1
  <1> QED
    BY <1>1, <1>2, <1>3, <1>4, <1>5 DEF TypeInv

\* What a caller does keeps commands numbers.
LEMMA CallerTyped ==
    ASSUME TypeInv, NEW u \in Callers,
           \/ Submit(u) \/ Refuse(u) \/ Latch(u) \/ Clear(u) \/ Forget(u)
           \/ Enqueue(u) \/ Wait(u) \/ Return(u) \/ Leave(u)
    PROVE  TypeInv'
  <1> USE DEF TypeInv
  <1>0. caller[u] \in [pc : CallerPlaces, command : Nat]
    OBVIOUS
  <1>1. ASSUME NEW from, NEW to \in CallerPlaces, Move(u, from, to)
        PROVE  caller' \in [Callers -> [pc : CallerPlaces, command : Nat]]
    BY <1>0, <1>1 DEF Move
  <1>2. CASE Submit(u)
    <2>1. submitted' \in Nat /\ UNCHANGED <<recovering, queue, worker>>
      BY <1>2 DEF Submit, gateVars, workerVars
    <2>2. PICK to \in CallerPlaces :
             caller' = [caller EXCEPT ![u] = [pc |-> to, command |-> submitted']]
      BY <1>2 DEF Submit, CallerPlaces
    <2>3. caller' \in [Callers -> [pc : CallerPlaces, command : Nat]]
      BY <2>1, <2>2
    <2> QED
      BY <2>1, <2>3
  <1>3. CASE Enqueue(u)
    <2>1. UNCHANGED <<recovering, submitted, worker>>
      BY <1>3 DEF Enqueue, gateVars
    <2>2. queue' \in Seq(Nat)
      <3>1. caller[u].command \in Nat /\ queue \in Seq(Nat)
        BY <1>0
      <3>2. queue' = queue \/ queue' = Append(queue, caller[u].command)
        BY <1>3 DEF Enqueue
      <3> HIDE DEF TypeInv
      <3>3. Append(queue, caller[u].command) \in Seq(Nat)
        BY <3>1
      <3> QED
        BY <3>1, <3>2, <3>3
    <2>3. caller' \in [Callers -> [pc : CallerPlaces, command : Nat]]
      BY <1>1, <1>3 DEF Enqueue, CallerPlaces
    <2> QED
      BY <2>1, <2>2, <2>3
  <1>4. CASE \/ Refuse(u) \/ Latch(u) \/ Clear(u) \/ Forget(u)
             \/ Wait(u) \/ Return(u) \/ Leave(u)
    <2>1. UNCHANGED <<recovering, submitted, queue, worker>>
      BY <1>4 DEF Refuse, Latch, Clear, Forget, Wait, Return, Leave, gateVars, workerVars
    <2>2. \E from, to : to \in CallerPlaces /\ Move(u, from, to)
      BY <1>4 DEF Refuse, Latch, Clear, Forget, Wait, Return, Leave, CallerPlaces
    <2>3. caller' \in [Callers -> [pc : CallerPlaces, command : Nat]]
      BY <1>1, <2>2
    <2> QED
      BY <2>1, <2>3
  <1> QED
    BY <1>2, <1>3, <1>4

\* A step of the worker from one place to another keeps its command.
LEMMA WorkerMoves ==
    ASSUME TypeInv, NEW from, NEW to \in WorkerPlaces, NEW ok \in BOOLEAN,
           Step(from, to) \/ Verdict(from, ok)
    PROVE  /\ worker' \in [pc : WorkerPlaces, command : Nat, success : BOOLEAN]
           /\ worker'.command = worker.command
           /\ worker'.pc = to \/ worker'.pc = "result"
  BY DEF TypeInv, Step, Verdict, WorkerPlaces

\* What the worker does to the registers, the gate and the ledger, action by action.
LEMMA WorkStep ==
    ASSUME TypeInv, Work
    PROVE  /\ TypeInv' /\ recovering' = recovering
           /\ \/ leaked' = leaked /\ ~Writing'
              \/ leaked' = leaked /\ Writing' /\ ~recovering
              \/ /\ Writing /\ worker'.command = worker.command
                 /\ leaked' \subseteq leaked \union {worker.command}
                 /\ ~recovering => leaked' = leaked
  <1>1. CASE Take
    <2>1. Head(queue) \in Nat /\ queue' \in Seq(Nat)
      BY <1>1 DEF Take, TypeInv
    <2>2. UNCHANGED <<recovering, submitted, caller, leaked>> /\ worker'.pc = "check"
      BY <1>1 DEF Take, KeepOthers, gateVars
    <2>3. worker' \in [pc : WorkerPlaces, command : Nat, success : BOOLEAN]
      BY <1>1, <2>1 DEF Take, WorkerPlaces
    <2> QED
      BY <2>1, <2>2, <2>3 DEF TypeInv, Writing
  <1>2. CASE Check
    <2>1. UNCHANGED <<recovering, submitted, caller, queue, leaked>>
      BY <1>2 DEF Check, KeepOthers, gateVars
    <2>2. worker' \in [pc : WorkerPlaces, command : Nat, success : BOOLEAN]
      BY <1>2, WorkerMoves DEF Check, WorkerPlaces
    <2>3. recovering => worker'.pc = "result"
      BY <1>2 DEF Check, Verdict, TypeInv
    <2> QED
      BY <2>1, <2>2, <2>3 DEF TypeInv, Writing
  <1>3. CASE WriteModifier \/ WriteAction \/ WriteTrigger
    <2>1. UNCHANGED <<recovering, submitted, caller, queue>>
      BY <1>3 DEF WriteModifier, WriteAction, WriteTrigger, Write, KeepOthers, gateVars
    <2>2. leaked' = IF recovering THEN leaked \union {worker.command} ELSE leaked
      BY <1>3 DEF WriteModifier, WriteAction, WriteTrigger, Write
    <2>3. \/ Step("modifier", "action") \/ Verdict("modifier", FALSE)
          \/ Step("action", "trigger") \/ Verdict("action", FALSE)
          \/ Step("trigger", "settle") \/ Verdict("trigger", FALSE)
      BY <1>3 DEF WriteModifier, WriteAction, WriteTrigger, Write
    <2>4. {"action", "trigger", "settle"} \subseteq WorkerPlaces
      BY DEF WorkerPlaces
    <2>5. /\ worker' \in [pc : WorkerPlaces, command : Nat, success : BOOLEAN]
          /\ worker'.command = worker.command
      BY <2>3, <2>4, WorkerMoves
    <2>6. Writing
      BY <2>3 DEF Writing, Step, Verdict
    <2> QED
      BY <2>1, <2>2, <2>5, <2>6 DEF TypeInv
  <1>4. CASE Settle \/ Poll \/ StoreResult \/ SetLatch
    <2>1. UNCHANGED <<recovering, submitted, caller, queue, leaked>>
      BY <1>4 DEF Settle, Poll, StoreResult, SetLatch, KeepOthers, gateVars
    <2>2. PICK from, to, ok : /\ to \in {"poll", "latch", "idle"} /\ ok \in BOOLEAN
                              /\ Step(from, to) \/ Verdict(from, ok)
      BY <1>4 DEF Settle, Poll, StoreResult, SetLatch
    <2>3. to \in WorkerPlaces
      BY <2>2 DEF WorkerPlaces
    <2>4. /\ worker' \in [pc : WorkerPlaces, command : Nat, success : BOOLEAN]
          /\ worker'.pc = to \/ worker'.pc = "result"
      BY <2>2, <2>3, WorkerMoves
    <2> QED
      BY <2>1, <2>2, <2>4 DEF TypeInv, Writing
  <1> QED
    BY <1>1, <1>2, <1>3, <1>4 DEF Work

\* Everything else leaves the worker's thread alone, and the ledger too, but for the
\* raise of the gate, which begins a new one.
LEMMA OtherStep ==
    ASSUME TypeInv, [Next]_vars, ~Work
    PROVE  /\ TypeInv' /\ worker' = worker
           /\ \/ leaked' = leaked /\ (recovering' => recovering)
              \/ leaked' = {}
  <1>1. CASE \E u \in Callers : Submit(u) \/ Refuse(u) \/ Latch(u) \/ Clear(u) \/ Forget(u)
                                \/ Enqueue(u) \/ Wait(u) \/ Return(u) \/ Leave(u)
    <2>1. TypeInv'
      BY <1>1, CallerTyped
    <2>2. UNCHANGED <<worker, leaked, recovering>>
      BY <1>1 DEF Submit, Refuse, Latch, Clear, Forget, Enqueue, Wait, Return, Leave, gateVars,
                  workerVars
    <2> QED
      BY <2>1, <2>2
  <1>2. CASE Shutdown
    BY <1>2 DEF Shutdown, TypeInv, gateVars
  <1>3. CASE SignalStop \/ Dispatch \/ RaiseGate \/ Probe \/ LowerGate
    <2>1. UNCHANGED <<submitted, caller, queue, worker>>
      BY <1>3 DEF SignalStop, Dispatch, RaiseGate, Probe, LowerGate, KeepDriver, workerVars
    <2>2. /\ recovering' \in BOOLEAN
          /\ \/ leaked' = leaked /\ (recovering' => recovering)
             \/ leaked' = {}
      <3>1. CASE SignalStop \/ Dispatch \/ Probe
        BY <3>1 DEF SignalStop, Dispatch, Probe, gateVars, TypeInv
      <3>2. CASE RaiseGate \/ LowerGate
        BY <3>2 DEF RaiseGate, LowerGate
      <3> QED
        BY <1>3, <3>1, <3>2
    <2> QED
      BY <2>1, <2>2 DEF TypeInv
  <1>4. CASE UNCHANGED vars
    BY <1>4 DEF vars, TypeInv
  <1> QED
    BY <1>1, <1>2, <1>3, <1>4 DEF Next

LEMMA TypeStep ==
    ASSUME TypeInv, [Next]_vars
    PROVE  TypeInv'
  BY WorkStep, OtherStep

LEMMA LeakInit == Init => LeakInv
  BY DEF Init, LeakInv

LEMMA LeakStep ==
    ASSUME TypeInv, LeakInv, [Next]_vars
    PROVE  LeakInv'
  <1>1. PICK m \in Nat : leaked \subseteq {m} /\ (recovering /\ Writing => worker.command = m)
    BY DEF LeakInv
  <1>2. CASE Work
    <2>1. CASE leaked' = leaked /\ ~Writing'
      BY <1>1, <2>1 DEF LeakInv
    <2>2. CASE leaked' = leaked /\ Writing' /\ ~recovering
      BY <1>1, <1>2, <2>2, WorkStep DEF LeakInv
    <2>3. CASE /\ Writing /\ worker'.command = worker.command
               /\ leaked' \subseteq leaked \union {worker.command}
               /\ ~recovering => leaked' = leaked
      BY <1>1, <1>2, <2>3, WorkStep DEF LeakInv
    <2> QED
      BY <1>2, <2>1, <2>2, <2>3, WorkStep
  <1>3. CASE ~Work
    <2>1. worker' = worker /\ (Writing' <=> Writing)
      BY <1>3, OtherStep DEF Writing
    <2>2. CASE leaked' = leaked /\ (recovering' => recovering)
      BY <1>1, <2>1, <2>2 DEF LeakInv
    <2>3. CASE leaked' = {}
      <3>1. worker.command \in Nat
        BY DEF TypeInv
      <3> QED
        BY <2>1, <2>3, <3>1 DEF LeakInv
    <2> QED
      BY <1>3, <2>2, <2>3, OtherStep
  <1> QED
    BY <1>2, <1>3

LEMMA LeakIsOne ==
    ASSUME LeakInv
    PROVE  OneLeak
  <1>1. PICK m \in Nat : leaked \subseteq {m}
    BY DEF LeakInv
  <1>2. leaked = {} \/ leaked = {m}
    BY <1>1
  <1>3. Cardinality({}) = 0 /\ Cardinality({m}) = 1
    BY FS_EmptySet, FS_Singleton
  <1> QED
    BY <1>2, <1>3 DEF OneLeak

\* While a recovery ladder or reconnect() holds the fail-fast gate, at most one command
\* of the worker still writes the dispatcher's registers, whatever is queued or
\* submitted meanwhile and however often the gate rises: the check of _execute, made
\* again on the worker's own thread, is enough.
THEOREM LeaksOnce == Spec => []OneLeak
  <1>1. Init => TypeInv /\ LeakInv
    BY TypeInit, LeakInit
  <1>2. TypeInv /\ LeakInv /\ [Next]_vars => (TypeInv /\ LeakInv)'
    BY TypeStep, LeakStep
  <1>3. LeakInv => OneLeak
    BY LeakIsOne
  <1> QED
    BY <1>1, <1>2, <1>3, PTL DEF Spec
=============================================================================
