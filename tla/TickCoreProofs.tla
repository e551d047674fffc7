--------------------------- MODULE TickCoreProofs ---------------------------
(***************************************************************************)
(* Proofs about TickCore for every value of its constants.  One inductive  *)
(* invariant per concern (mode and health, motions, gates, wire, recovery  *)
(* evidence), each preserved by every step given the ones before it.       *)
(***************************************************************************)
EXTENDS TickCore, TLAPS

\* Mode and health.  Only a trajectory arms the force guard, and whatever
\* leaves a trajectory for a fault or a brake has disarmed it; that is why a
\* force trip cannot take a faulted core out of its fault mode.
ModeInv ==
    /\ FaultLatched
    /\ ~streaming => mode \in {"STREAM_DOWN", "RX_SILENT"} /\ stage # "rx"
    /\ streaming => mode # "STREAM_DOWN"
    /\ recoverPending => streaming /\ mode \in FaultModes
    /\ forceArmed => mode \in {"HOLD", "CAPTURE", "TRAJECTORY"}

\* Motions.  The slot's RUNNING motion is open and is the one being played; a
\* moving mode plays an open motion.
MotionInv ==
    /\ status = "RUNNING" => slot \in Motions /\ outcome[slot] = "RUNNING"
    /\ RunningIsPlayed
    /\ mode \in MovingModes => playing \in Motions /\ outcome[playing] = "RUNNING"

-----------------------------------------------------------------------------
(* Facts about the operators.                                              *)

\* Every gate maps to a latched reason (FaultReason, tick_core.cpp:244-256).
LEMMA FaultOfGate == \A g \in KillGates : FaultOf[g] \in FaultReason \ {"NONE"}
  BY DEF KillGates, FaultOf, FaultReason

\* The slew clip stays on the position range and within one step.
LEMMA TowardBound ==
    ASSUME NEW a \in Positions, NEW b \in Positions, NEW step \in Nat
    PROVE  /\ Toward(a, b, step) \in Positions
           /\ Distance(Toward(a, b, step), a) <= step
  BY PositionAssumption DEF Toward, Distance, Positions

\* The soft-limit clamp stays on the position range.
LEMMA ClampType == \A d \in Positions : Clamp(d) \in Positions
  BY PositionAssumption DEF Clamp, Positions

\* A counter that is reset is within its range.
LEMMA Zeros ==
    /\ 0 \in 0..MaxPhase /\ 0 \in 0..(DwellTicks - 1) /\ 0 \in 0..DeadmanTicks
    /\ 0 \in 0..ParkTicks /\ 0 \in 0..LostTicks /\ 0 \in Positions
  BY TicksAssumption, PositionAssumption DEF Positions

\* A saturating counter stays within its cap.
LEMMA CountToType ==
    ASSUME NEW cap \in Nat \ {0}, NEW n \in 0..cap
    PROVE  CountTo(n, cap) \in 1..cap
  BY DEF CountTo

-----------------------------------------------------------------------------
(* Type correctness.                                                       *)

LEMMA ResolvedType ==
    ASSUME DataOK, NEW st \in MotionStatus
    PROVE  Resolved(st) \in [Motions -> MotionStatus]
  BY DEF DataOK, Resolved

LEMMA ResolveActiveType ==
    ASSUME DataOK, NEW st \in MotionStatus, ResolveActive(st)
    PROVE  /\ outcome' \in [Motions -> MotionStatus]
           /\ status' \in MotionStatus
           /\ slot' \in Motions \cup {NoMotion}
  BY ResolvedType DEF DataOK, ResolveActive

LEMMA SlotTypes ==
    ASSUME DataOK, NEW m \in Motions, NEW st \in MotionStatus,
           TakeSlot(m, st) \/ RejectInSlot(m)
    PROVE  /\ outcome' \in [Motions -> MotionStatus]
           /\ status' \in MotionStatus
           /\ slot' \in Motions \cup {NoMotion}
  <1>1. "PREEMPTED" \in MotionStatus /\ "REJECTED" \in MotionStatus
    BY DEF MotionStatus, Terminal
  <1> QED
    BY <1>1, ResolvedType DEF TakeSlot, RejectInSlot, DataOK

LEMMA EmitType ==
    ASSUME DataOK, NEW d \in Positions, Emit(d)
    PROVE  /\ stage' = "idle" /\ qCmd' \in Positions
           /\ tx' \in Positions \cup {NoTx}
           /\ Distance(qCmd', qCmd) <= SlewStep
  <1>1. Clamp(d) \in Positions /\ qCmd \in Positions /\ SlewStep \in Nat
    BY ClampType, PositionAssumption DEF DataOK
  <1>2. /\ Toward(qCmd, Clamp(d), SlewStep) \in Positions
        /\ Distance(Toward(qCmd, Clamp(d), SlewStep), qCmd) <= SlewStep
    BY <1>1, TowardBound
  <1> QED
    BY <1>2 DEF Emit

LEMMA ReanchorType == DataOK => Reanchor \in Positions
  BY PositionAssumption DEF DataOK, Reanchor, Toward, Positions

\* The Boolean flags, one action at a time.
LEMMA FlagsStep == FlagsOK /\ [Next]_vars => FlagsOK'
  <1> SUFFICES ASSUME FlagsOK, [Next]_vars PROVE FlagsOK'
    OBVIOUS
  <1> USE ZenonT(60) DEF healthVars, slotVars, planVars, guardVars, rxVars, beatVars,
                    wireVars, history, GoHold, Disarm, FlagsOK
  <1>1. CASE RequestRecover
    BY <1>1 DEF RequestRecover
  <1>2. CASE Begin
    BY <1>2 DEF Begin, BeginStreaming
  <1>3. CASE Ingest
    BY <1>3 DEF Ingest, IngestRx, EnterFault
  <1>4. CASE NoRx
    BY <1>4 DEF NoRx
  <1>5. CASE Control
    <2> PICK ops \in SUBSET (Ops \ {"recover"}) : ControlOps(ops)
      BY <1>5 DEF Control
    <2>1. CASE "stop" \in ops
      BY <2>1 DEF ControlOps, StopRequested, BeginBrake
    <2>2. CASE "stop" \notin ops
      BY <2>2 DEF ControlOps, HoldRequested, BeginBrake
    <2> QED
      BY <2>1, <2>2
  <1>6. CASE RxSilence
    BY <1>6 DEF RxSilence, EnterRxSilent, EnterFault
  <1>7. CASE Deadman
    BY <1>7 DEF Deadman, EnterFault
  <1>8. CASE SupervisorLiveness
    BY <1>8 DEF SupervisorLiveness, EnterFault
  <1>9. CASE \E over \in BOOLEAN : ForceGuard(over)
    BY <1>9 DEF ForceGuard, BeginBrake
  <1>10. CASE RecoveryDwell
    BY <1>10 DEF RecoveryDwell, RecoveryComplete, LeaveFault
  <1>11. CASE Consume
    <2>1. CASE ConsumeNone
      BY <2>1 DEF ConsumeNone, ConsumeFrame
    <2>2. ASSUME NEW m \in Motions, NEW kind \in TargetKinds, NEW current, NEW superseded,
                 NEW splices, ConsumeReject(m, kind, current, superseded, splices)
          PROVE  FlagsOK'
      BY <2>2 DEF ConsumeReject, ConsumeFrame
    <2>3. ASSUME NEW m \in Motions, ConsumeHold(m) PROVE FlagsOK'
      BY <2>3 DEF ConsumeHold, ConsumeFrame
    <2>4. ASSUME NEW m \in Motions, ConsumeBrake(m) PROVE FlagsOK'
      BY <2>4 DEF ConsumeBrake, ConsumeFrame
    <2>5. ASSUME NEW m \in Motions, ConsumeServo(m) PROVE FlagsOK'
      BY <2>5 DEF ConsumeServo, ConsumeFrame
    <2>6. ASSUME NEW m \in Motions, NEW deadman \in BOOLEAN, NEW force \in BOOLEAN,
                 ConsumeTrajectory(m, deadman, force)
          PROVE  FlagsOK'
      BY <2>6 DEF ConsumeTrajectory, ConsumeFrame
    <2> QED
      BY <1>11, <2>1, <2>2, <2>3, <2>4, <2>5, <2>6 DEF Consume
  <1>12. CASE Dispatch
    <2> USE DEF Emit, KeepHealth, Continue, NextPhase
    <2>1. CASE DispatchPark \/ DispatchHold \/ DispatchReanchor
      BY <2>1 DEF DispatchPark, DispatchHold, DispatchReanchor
    <2>2. CASE DispatchError
      BY <2>2 DEF DispatchError, EnterFault
    <2>3. ASSUME NEW d \in Positions, DispatchCapture(d) PROVE FlagsOK'
      BY <2>3 DEF DispatchCapture
    <2>4. ASSUME NEW d \in Positions, DispatchPlay(d) PROVE FlagsOK'
      BY <2>4 DEF DispatchPlay
    <2>5. ASSUME NEW d \in Positions, DispatchSettle(d) PROVE FlagsOK'
      BY <2>5 DEF DispatchSettle
    <2>6. ASSUME NEW d \in Positions, DispatchServo(d) PROVE FlagsOK'
      BY <2>6 DEF DispatchServo
    <2>7. ASSUME NEW d \in Positions, DispatchBrake(d) PROVE FlagsOK'
      BY <2>7 DEF DispatchBrake
    <2>8. ASSUME NEW d \in Positions, DispatchRamp(d) PROVE FlagsOK'
      BY <2>8 DEF DispatchRamp
    <2> HIDE DEF FlagsOK
    <2> QED
      BY <1>12, <2>1, <2>2, <2>3, <2>4, <2>5, <2>6, <2>7, <2>8 DEF Dispatch
  <1>13. CASE UNCHANGED vars
    BY <1>13 DEF vars
  <1> QED
    BY <1>1, <1>2, <1>3, <1>4, <1>5, <1>6, <1>7, <1>8, <1>9, <1>10, <1>11, <1>12, <1>13
    DEF Next, Tick, Guards

\* Everything else.
LEMMA DataStep == DataOK /\ [Next]_vars => DataOK'
  <1> SUFFICES ASSUME DataOK, [Next]_vars PROVE DataOK'
    OBVIOUS
  <1> USE DEF healthVars, slotVars, planVars, guardVars, rxVars, beatVars, wireVars, history
  <1>a. /\ {"FAULTED", "STOPPED", "PREEMPTED", "DONE", "RUNNING", "SETTLE_TIMEOUT"}
              \subseteq MotionStatus
        /\ {"NONE", "RX_SILENT", "RX_DEGRADED", "WATCHDOG_EXPIRED", "SUPERVISOR_LOST",
            "INTERNAL"} \subseteq FaultReason
        /\ {"idle", "rx", "control", "silence", "deadman", "liveness", "force", "dwell",
            "consume", "dispatch"} \subseteq Stages
        /\ {"HOLD", "CAPTURE", "TRAJECTORY", "SERVO", "BRAKE", "SAFE_FOLLOW", "RX_SILENT"}
              \subseteq Mode
        /\ {"none", "play", "blend", "settle", "ramp", "reanchor"} \subseteq Phases
        /\ {"RxSilent", "RxDegraded"} \subseteq Conditions /\ KillGates \subseteq Conditions
    BY DEF MotionStatus, Terminal, FaultReason, Stages, Mode, Phases, Conditions
  <1>b. ASSUME NEW cause \in FaultReason, NEW st \in MotionStatus, EnterFault(cause, st)
        PROVE  /\ outcome' \in [Motions -> MotionStatus] /\ status' \in MotionStatus
               /\ slot' \in Motions \cup {NoMotion} /\ playing' \in Motions \cup {NoMotion}
               /\ mode' \in Mode /\ phase' \in Phases /\ left' \in 0..MaxPhase
               /\ fault' \in FaultReason /\ allClear' \in 0..(DwellTicks - 1)
    BY <1>a, <1>b, ResolveActiveType, Zeros DEF EnterFault, Plan
  <1>c. ASSUME NEW st \in MotionStatus, BeginBrake(st)
        PROVE  /\ outcome' \in [Motions -> MotionStatus] /\ status' \in MotionStatus
               /\ slot' \in Motions \cup {NoMotion} /\ playing' \in Motions \cup {NoMotion}
               /\ mode' \in Mode /\ phase' \in Phases /\ left' \in 0..MaxPhase
    BY <1>a, <1>c, ResolveActiveType DEF BeginBrake, Plan
  <1>1. CASE RequestRecover
    BY <1>1, Zeros DEF RequestRecover, DataOK
  <1>2. CASE Begin
    BY <1>2, <1>a, Zeros DEF Begin, BeginStreaming, DataOK
  <1>3. CASE Ingest
    <2> PICK g \in GateInputs, q \in Positions : IngestRx(g, q)
      BY <1>3 DEF Ingest
    <2>1. g \subseteq KillGates
      BY GateAssumption
    <2>2. CASE streaming /\ g \ lastGates # {}
      <3> PICK top \in g \ lastGates : EnterFault(FaultOf[top], "FAULTED")
        BY <2>2 DEF IngestRx
      <3>1. FaultOf[top] \in FaultReason
        BY <2>1, FaultOfGate
      <3> QED
        BY <1>a, <1>b, <2>1, <3>1, Zeros DEF IngestRx, DataOK
    <2>3. CASE ~(streaming /\ g \ lastGates # {})
      BY <1>a, <2>1, <2>3, Zeros DEF IngestRx, DataOK
    <2> QED
      BY <2>2, <2>3
  <1>4. CASE NoRx
    BY <1>4, <1>a, CountToType, TicksAssumption DEF NoRx, DataOK
  <1>5. CASE Control
    <2> PICK ops \in SUBSET (Ops \ {"recover"}) : ControlOps(ops)
      BY <1>5 DEF Control
    <2>1. CASE "stop" \in ops
      BY <2>1, <1>a, <1>c, ResolveActiveType, Zeros DEF ControlOps, StopRequested, DataOK
    <2>2. CASE "stop" \notin ops
      BY <2>2, <1>a, <1>c, Zeros DEF ControlOps, HoldRequested, DataOK
    <2> QED
      BY <2>1, <2>2
  <1>6. CASE RxSilence
    <2>1. CASE EnterRxSilent
      BY <1>6, <2>1, <1>a, ResolveActiveType, Zeros DEF RxSilence, EnterRxSilent, DataOK
    <2>2. CASE EnterFault("RX_DEGRADED", "FAULTED")
               /\ conditions' = conditions \cup {"RxDegraded"}
      BY <1>6, <2>2, <1>a, <1>b DEF RxSilence, DataOK
    <2>3. CASE UNCHANGED <<healthVars, conditions, rxDegraded, slotVars, planVars, guardVars>>
      BY <1>6, <2>3, <1>a DEF RxSilence, DataOK
    <2> QED
      BY <1>6, <2>1, <2>2, <2>3 DEF RxSilence
  <1>7. CASE Deadman
    BY <1>7, <1>a, <1>b, CountToType, TicksAssumption DEF Deadman, DataOK
  <1>8. CASE SupervisorLiveness
    BY <1>8, <1>a, <1>b, CountToType, TicksAssumption DEF SupervisorLiveness, DataOK
  <1>9. CASE \E over \in BOOLEAN : ForceGuard(over)
    BY <1>9, <1>a, <1>c DEF ForceGuard, DataOK
  <1>10. CASE RecoveryDwell
    <2>1. CASE RecoveryComplete
      BY <1>10, <2>1, <1>a, Zeros DEF RecoveryDwell, RecoveryComplete, LeaveFault, GoHold, DataOK
    <2>2. CASE ~RecoveryComplete
      BY <1>10, <2>2, <1>a, TicksAssumption DEF RecoveryDwell, DwellSatisfied, DataOK
    <2> QED
      BY <2>1, <2>2
  <1>11. CASE Consume
    <2> USE DEF ConsumeFrame
    <2>1. CASE ConsumeNone
      BY <2>1, <1>a DEF ConsumeNone, DataOK
    <2>2. ASSUME NEW m \in Motions, NEW kind \in TargetKinds, NEW current, NEW superseded,
                 NEW splices, ConsumeReject(m, kind, current, superseded, splices)
          PROVE  DataOK'
      BY <2>2, <1>a, SlotTypes DEF ConsumeReject, DataOK
    <2>3. ASSUME NEW m \in Motions, ConsumeHold(m) PROVE DataOK'
      BY <2>3, <1>a, SlotTypes DEF ConsumeHold, Plan, DataOK
    <2>4. ASSUME NEW m \in Motions, ConsumeBrake(m) PROVE DataOK'
      BY <2>4, <1>a, SlotTypes DEF ConsumeBrake, Plan, DataOK
    <2>5. ASSUME NEW m \in Motions, ConsumeServo(m) PROVE DataOK'
      BY <2>5, <1>a, SlotTypes, Zeros DEF ConsumeServo, DataOK
    <2>6. ASSUME NEW m \in Motions, NEW deadman \in BOOLEAN, NEW force \in BOOLEAN,
                 ConsumeTrajectory(m, deadman, force)
          PROVE  DataOK'
      BY <2>6, <1>a, SlotTypes, Zeros DEF ConsumeTrajectory, Plan, DataOK
    <2> QED
      BY <1>11, <2>1, <2>2, <2>3, <2>4, <2>5, <2>6 DEF Consume
  <1>12. CASE Dispatch
    <2>a. ASSUME NEW d \in Positions, Emit(d)
          PROVE  /\ stage' \in Stages /\ qCmd' \in Positions /\ tx' \in Positions \cup {NoTx}
                 /\ UNCHANGED <<conditions, ticksSinceKick, rxVars, ticksSinceBeat, inherited>>
      BY <2>a, <1>a, EmitType DEF Emit
    <2>b. Continue => left' \in 0..MaxPhase /\ UNCHANGED <<mode, playing, phase>>
      BY TicksAssumption DEF Continue, DataOK
    <2> USE DEF KeepHealth
    <2>1. CASE DispatchPark \/ DispatchHold \/ DispatchReanchor
      BY <2>1, <2>a, ReanchorType DEF DispatchPark, DispatchHold, DispatchReanchor, DataOK
    <2>2. CASE DispatchError
      BY <2>2, <2>a, <1>a, <1>b DEF DispatchError, DataOK
    <2>3. ASSUME NEW d \in Positions, DispatchCapture(d) PROVE DataOK'
      BY <2>3, <2>a, <2>b, <1>a DEF DispatchCapture, DataOK
    <2>4. ASSUME NEW d \in Positions, DispatchPlay(d) PROVE DataOK'
      BY <2>4, <2>a, <2>b, <1>a DEF DispatchPlay, NextPhase, DataOK
    <2>5. ASSUME NEW d \in Positions, DispatchSettle(d) PROVE DataOK'
      BY <2>5, <2>a, <2>b, <1>a, ResolveActiveType, Zeros DEF DispatchSettle, GoHold, DataOK
    <2>6. ASSUME NEW d \in Positions, DispatchServo(d) PROVE DataOK'
      BY <2>6, <2>a DEF DispatchServo, DataOK
    <2>7. ASSUME NEW d \in Positions, DispatchBrake(d) PROVE DataOK'
      BY <2>7, <2>a, <2>b, <1>a, ResolveActiveType, Zeros DEF DispatchBrake, GoHold, DataOK
    <2>8. ASSUME NEW d \in Positions, DispatchRamp(d) PROVE DataOK'
      BY <2>8, <2>a, <2>b, <1>a DEF DispatchRamp, NextPhase, DataOK
    <2> QED
      BY <1>12, <2>1, <2>2, <2>3, <2>4, <2>5, <2>6, <2>7, <2>8 DEF Dispatch
  <1>13. CASE UNCHANGED vars
    BY <1>13 DEF vars, DataOK
  <1> QED
    BY <1>1, <1>2, <1>3, <1>4, <1>5, <1>6, <1>7, <1>8, <1>9, <1>10, <1>11, <1>12, <1>13
    DEF Next, Tick, Guards

\* Every reachable state of the tick core is well typed, in particular every
\* tick counter stays within its threshold (TickCore's members).
THEOREM TypeCorrect == Spec => []TypeOK
  <1>1. Init => TypeOK
    <2>1. Init => FlagsOK
      BY Zenon DEF Init, FlagsOK
    <2>2. Init => DataOK
      BY Zeros DEF Init, DataOK, Stages, Mode, FaultReason, MotionStatus, Phases, KillGates
    <2> QED
      BY <2>1, <2>2 DEF TypeOK
  <1>2. TypeOK /\ [Next]_vars => TypeOK'
    BY FlagsStep, DataStep DEF TypeOK
  <1> QED
    BY <1>1, <1>2, PTL DEF Spec

-----------------------------------------------------------------------------
(* Mode and health.                                                        *)

\* Entering a fault re-establishes the invariant from any streaming state.
LEMMA EnterFaultMode ==
    ASSUME NEW cause \in FaultReason \ {"NONE"}, NEW st, EnterFault(cause, st),
           streaming' = TRUE
    PROVE  ModeInv'
  BY DEF EnterFault, Plan, Disarm, ModeInv, FaultLatched, FaultModes

LEMMA ModeStep == TypeOK /\ ModeInv /\ [Next]_vars => ModeInv'
  <1> SUFFICES ASSUME TypeOK, ModeInv, [Next]_vars PROVE ModeInv'
    OBVIOUS
  <1> USE DEF healthVars, slotVars, planVars, guardVars, rxVars, beatVars, wireVars,
              history, MovingModes, FaultModes
  <1>a. {"RX_DEGRADED", "WATCHDOG_EXPIRED", "SUPERVISOR_LOST", "INTERNAL"}
           \subseteq FaultReason \ {"NONE"}
    BY DEF FaultReason
  <1>b. streaming \in BOOLEAN /\ recoverPending \in BOOLEAN /\ forceArmed \in BOOLEAN
    BY DEF TypeOK, FlagsOK
  <1>c. ASSUME NEW st, BeginBrake(st), UNCHANGED <<streaming, fault, recoverPending>>,
               mode \notin FaultModes \cup {"STREAM_DOWN"}
        PROVE  ModeInv'
    BY <1>b, <1>c DEF BeginBrake, Plan, Disarm, ModeInv, FaultLatched
  <1>1. CASE RequestRecover
    BY <1>1, <1>b DEF RequestRecover, ModeInv, FaultLatched
  <1>2. CASE Begin
    BY <1>2, <1>b DEF Begin, BeginStreaming, ModeInv, FaultLatched
  <1>3. CASE Ingest
    <2> PICK g \in GateInputs, q \in Positions : IngestRx(g, q)
      BY <1>3 DEF Ingest
    <2>1. CASE streaming /\ g \ lastGates # {}
      <3> PICK top \in g \ lastGates : EnterFault(FaultOf[top], "FAULTED")
        BY <2>1 DEF IngestRx
      <3>1. FaultOf[top] \in FaultReason \ {"NONE"}
        BY GateAssumption, FaultOfGate
      <3> QED
        BY <2>1, <3>1, <1>b, EnterFaultMode DEF IngestRx
    <2>2. CASE ~(streaming /\ g \ lastGates # {})
      BY <2>2, <1>b DEF IngestRx, ModeInv, FaultLatched
    <2> QED
      BY <2>1, <2>2
  <1>4. CASE NoRx
    BY <1>4, <1>b DEF NoRx, ModeInv, FaultLatched
  <1>5. CASE Control
    <2> PICK ops \in SUBSET (Ops \ {"recover"}) : ControlOps(ops)
      BY <1>5 DEF Control
    <2>1. CASE "stop" \in ops
      BY <2>1, <1>b, <1>c DEF ControlOps, StopRequested, ModeInv, FaultLatched
    <2>2. CASE "stop" \notin ops
      BY <2>2, <1>b, <1>c DEF ControlOps, HoldRequested, ModeInv, FaultLatched
    <2> QED
      BY <2>1, <2>2
  <1>6. CASE RxSilence
    <2>1. CASE EnterRxSilent
      BY <1>6, <2>1, <1>b DEF RxSilence, EnterRxSilent, Disarm, ModeInv, FaultLatched
    <2>2. CASE DegradeDue /\ EnterFault("RX_DEGRADED", "FAULTED")
      <3>1. streaming' = TRUE
        BY <1>6, <2>2, <1>b DEF RxSilence, DegradeDue, ModeInv
      <3> QED
        BY <2>2, <3>1, <1>a, EnterFaultMode
    <2>3. CASE UNCHANGED <<healthVars, conditions, rxDegraded, slotVars, planVars, guardVars>>
      BY <1>6, <2>3, <1>b DEF RxSilence, ModeInv, FaultLatched
    <2> QED
      BY <1>6, <2>1, <2>2, <2>3 DEF RxSilence
  <1>7. CASE Deadman
    <2>1. CASE EnterFault("WATCHDOG_EXPIRED", "STOPPED") /\ mode = "TRAJECTORY"
      BY <1>7, <2>1, <1>a, <1>b, EnterFaultMode DEF Deadman, ModeInv
    <2>2. CASE UNCHANGED <<healthVars, slotVars, planVars, guardVars>>
      BY <1>7, <2>2, <1>b DEF Deadman, ModeInv, FaultLatched
    <2> QED
      BY <1>7, <2>1, <2>2 DEF Deadman
  <1>8. CASE SupervisorLiveness
    <2>1. CASE EnterFault("SUPERVISOR_LOST", "FAULTED") /\ streaming
      BY <1>8, <2>1, <1>a, <1>b, EnterFaultMode DEF SupervisorLiveness
    <2>2. CASE UNCHANGED <<lostLatched, healthVars, slotVars, planVars, guardVars>>
      BY <1>8, <2>2, <1>b DEF SupervisorLiveness, ModeInv, FaultLatched
    <2> QED
      BY <1>8, <2>1, <2>2 DEF SupervisorLiveness
  <1>9. CASE \E over \in BOOLEAN : ForceGuard(over)
    <2>1. CASE BeginBrake("STOPPED") /\ forceArmed
      BY <1>9, <2>1, <1>b, <1>c DEF ForceGuard, ModeInv
    <2>2. CASE UNCHANGED <<slotVars, planVars, guardVars>>
      BY <1>9, <2>2, <1>b DEF ForceGuard, ModeInv, FaultLatched
    <2> QED
      BY <1>9, <2>1, <2>2 DEF ForceGuard
  <1>10. CASE RecoveryDwell
    <2>1. CASE recoverPending /\ RecoveryComplete
      BY <1>10, <2>1, <1>b DEF RecoveryDwell, RecoveryComplete, LeaveFault, GoHold,
                               ModeInv, FaultLatched
    <2>2. CASE UNCHANGED <<fault, recoverPending, planVars>>
      BY <1>10, <2>2, <1>b DEF RecoveryDwell, ModeInv, FaultLatched
    <2> QED
      BY <1>10, <2>1, <2>2 DEF RecoveryDwell
  <1>11. CASE Consume
    <2> USE DEF ConsumeFrame, Submittable
    <2>1. CASE ConsumeNone
      BY <2>1, <1>b DEF ConsumeNone, ModeInv, FaultLatched
    <2>2. ASSUME NEW m \in Motions, NEW kind \in TargetKinds, NEW current, NEW superseded,
                 NEW splices, ConsumeReject(m, kind, current, superseded, splices)
          PROVE  ModeInv'
      BY <2>2, <1>b DEF ConsumeReject, ModeInv, FaultLatched
    <2>3. ASSUME NEW m \in Motions, ConsumeHold(m) PROVE ModeInv'
      BY <2>3, <1>b DEF ConsumeHold, Plan, Disarm, ModeInv, FaultLatched
    <2>4. ASSUME NEW m \in Motions, ConsumeBrake(m) PROVE ModeInv'
      BY <2>4, <1>b DEF ConsumeBrake, NotFaulted, Plan, Disarm, ModeInv, FaultLatched
    <2>5. ASSUME NEW m \in Motions, ConsumeServo(m) PROVE ModeInv'
      BY <2>5, <1>b DEF ConsumeServo, NotFaulted, ModeInv, FaultLatched
    <2>6. ASSUME NEW m \in Motions, NEW deadman \in BOOLEAN, NEW force \in BOOLEAN,
                 ConsumeTrajectory(m, deadman, force)
          PROVE  ModeInv'
      BY <2>6, <1>b DEF ConsumeTrajectory, NotFaulted, Plan, ModeInv, FaultLatched
    <2> QED
      BY <1>11, <2>1, <2>2, <2>3, <2>4, <2>5, <2>6 DEF Consume
  <1>12. CASE Dispatch
    <2>a. ASSUME NEW d, Emit(d) PROVE stage' = "idle" /\ UNCHANGED streaming
      BY <2>a DEF Emit
    <2> USE DEF KeepHealth, Continue
    <2>1. CASE DispatchPark \/ DispatchHold \/ DispatchReanchor
      BY <2>1, <2>a, <1>b DEF DispatchPark, DispatchHold, DispatchReanchor, ModeInv,
                              FaultLatched
    <2>2. CASE DispatchError
      <3>1. streaming' = TRUE
        BY <2>2, <2>a, <1>b DEF DispatchError, ModeInv
      <3> QED
        BY <2>2, <3>1, <1>a, EnterFaultMode DEF DispatchError
    <2>3. ASSUME NEW d \in Positions, DispatchCapture(d) PROVE ModeInv'
      BY <2>3, <2>a, <1>b DEF DispatchCapture, ModeInv, FaultLatched
    <2>4. ASSUME NEW d \in Positions, DispatchPlay(d) PROVE ModeInv'
      BY <2>4, <2>a, <1>b DEF DispatchPlay, NextPhase, ModeInv, FaultLatched
    <2>5. ASSUME NEW d \in Positions, DispatchSettle(d) PROVE ModeInv'
      BY <2>5, <2>a, <1>b DEF DispatchSettle, GoHold, ModeInv, FaultLatched
    <2>6. ASSUME NEW d \in Positions, DispatchServo(d) PROVE ModeInv'
      BY <2>6, <2>a, <1>b DEF DispatchServo, ModeInv, FaultLatched
    <2>7. ASSUME NEW d \in Positions, DispatchBrake(d) PROVE ModeInv'
      BY <2>7, <2>a, <1>b DEF DispatchBrake, GoHold, ModeInv, FaultLatched
    <2>8. ASSUME NEW d \in Positions, DispatchRamp(d) PROVE ModeInv'
      BY <2>8, <2>a, <1>b DEF DispatchRamp, NextPhase, ModeInv, FaultLatched
    <2> QED
      BY <1>12, <2>1, <2>2, <2>3, <2>4, <2>5, <2>6, <2>7, <2>8 DEF Dispatch
  <1>13. CASE UNCHANGED vars
    BY <1>13 DEF vars, ModeInv, FaultLatched
  <1> QED
    BY <1>1, <1>2, <1>3, <1>4, <1>5, <1>6, <1>7, <1>8, <1>9, <1>10, <1>11, <1>12, <1>13
    DEF Next, Tick, Guards

LEMMA ModeCorrect == Spec => []ModeInv
  <1>1. Init => ModeInv
    BY DEF Init, ModeInv, FaultLatched, FaultModes
  <1> QED
    BY <1>1, ModeStep, TypeCorrect, PTL DEF Spec

\* fault_ and the fault modes agree in every state of a streaming core, for
\* every threshold: no stop, hold, force trip, target or finished profile
\* takes a faulted core out of its mode without clearing the latch.
THEOREM FaultLatches == Spec => []FaultLatched
  <1>1. ModeInv => FaultLatched
    BY DEF ModeInv
  <1> QED
    BY <1>1, ModeCorrect, PTL

-----------------------------------------------------------------------------
(* Motions.                                                                *)

\* What OutcomeIsFinal says of one step.
KeepsOutcomes == \A m \in Motions : outcome[m] \in Terminal => outcome'[m] = outcome[m]

\* resolve_active touches only the motion that is RUNNING, and ends it.
LEMMA ResolveActiveMotion ==
    ASSUME DataOK, MotionInv, NEW st \in Terminal, ResolveActive(st)
    PROVE  status' # "RUNNING" /\ KeepsOutcomes
  BY DEF DataOK, MotionInv, ResolveActive, Resolved, KeepsOutcomes, Terminal

\* A motion that takes the slot was never resolved, and the one it displaces
\* was not either.
LEMMA TakeSlotMotion ==
    ASSUME DataOK, MotionInv, NEW m \in Motions, NEW st, outcome[m] = "PENDING",
           TakeSlot(m, st)
    PROVE  slot' = m /\ status' = st /\ outcome'[m] = st /\ KeepsOutcomes
  BY DEF DataOK, MotionInv, TakeSlot, Resolved, KeepsOutcomes, Terminal

\* A step that plays no motion afterwards and leaves none RUNNING in the slot.
LEMMA RestMotion ==
    ASSUME status' # "RUNNING", mode' \notin MovingModes
    PROVE  MotionInv'
  BY DEF MotionInv, RunningIsPlayed

\* A step that leaves the slot and what is played alone.
LEMMA SameMotion ==
    ASSUME MotionInv, UNCHANGED <<slotVars, playing, brakeIsMotion>>,
           mode' = mode \/ (mode' \in MovingModes /\ mode \in MovingModes)
    PROVE  MotionInv' /\ KeepsOutcomes
  BY DEF MotionInv, RunningIsPlayed, KeepsOutcomes, slotVars, MovingModes

LEMMA MotionStep ==
    TypeOK /\ ModeInv /\ MotionInv /\ [Next]_vars => MotionInv' /\ KeepsOutcomes
  <1> SUFFICES ASSUME TypeOK, ModeInv, MotionInv, [Next]_vars
               PROVE  MotionInv' /\ KeepsOutcomes
    OBVIOUS
  <1> USE DEF healthVars, slotVars, planVars, guardVars, rxVars, beatVars, wireVars, history
  <1>a. DataOK /\ {"FAULTED", "STOPPED", "PREEMPTED", "DONE", "SETTLE_TIMEOUT"} \subseteq Terminal
    BY DEF TypeOK, Terminal
  <1>b. ASSUME NEW cause, NEW st \in Terminal, EnterFault(cause, st)
        PROVE  MotionInv' /\ KeepsOutcomes
    BY <1>a, <1>b, ResolveActiveMotion, RestMotion DEF EnterFault, Plan, MovingModes
  <1>c. ASSUME NEW st \in Terminal, BeginBrake(st) PROVE MotionInv' /\ KeepsOutcomes
    BY <1>a, <1>c, ResolveActiveMotion, RestMotion DEF BeginBrake, Plan, MovingModes
  <1>d. ASSUME UNCHANGED slotVars, mode' = "HOLD", mode \in FaultModes \cup {"STREAM_DOWN"}
        PROVE  MotionInv' /\ KeepsOutcomes
    BY <1>d, RestMotion DEF MotionInv, RunningIsPlayed, MovingModes, FaultModes,
                            KeepsOutcomes
  <1>1. CASE RequestRecover
    BY <1>1, SameMotion DEF RequestRecover
  <1>2. CASE Begin
    BY <1>2, <1>d DEF Begin, BeginStreaming, ModeInv, FaultModes
  <1>3. CASE Ingest
    <2> PICK g \in GateInputs, q \in Positions : IngestRx(g, q)
      BY <1>3 DEF Ingest
    <2>1. CASE \E top \in g \ lastGates : EnterFault(FaultOf[top], "FAULTED")
      BY <2>1, <1>a, <1>b
    <2>2. CASE UNCHANGED <<fault, recoverPending, allClear, slotVars, planVars, guardVars>>
      BY <2>2, SameMotion
    <2> QED
      BY <2>1, <2>2 DEF IngestRx
  <1>4. CASE NoRx
    BY <1>4, SameMotion DEF NoRx
  <1>5. CASE Control
    <2> PICK ops \in SUBSET (Ops \ {"recover"}) : ControlOps(ops)
      BY <1>5 DEF Control
    <2>1. CASE UNCHANGED <<slotVars, planVars, guardVars>>
      BY <2>1, SameMotion
    <2>2. CASE \E st \in {"STOPPED", "PREEMPTED"} : BeginBrake(st)
      BY <2>2, <1>a, <1>c
    <2>3. CASE mode = "BRAKE" /\ ResolveActive("STOPPED") /\ UNCHANGED mode
      BY <2>3, <1>a, ResolveActiveMotion, RestMotion DEF MovingModes
    <2> QED
      BY <2>1, <2>2, <2>3 DEF ControlOps, StopRequested, HoldRequested
  <1>6. CASE RxSilence
    <2>1. CASE EnterRxSilent
      BY <2>1, <1>a, ResolveActiveMotion, RestMotion DEF EnterRxSilent, MovingModes
    <2>2. CASE EnterFault("RX_DEGRADED", "FAULTED")
      BY <2>2, <1>a, <1>b
    <2>3. CASE UNCHANGED <<healthVars, conditions, rxDegraded, slotVars, planVars, guardVars>>
      BY <2>3, SameMotion
    <2> QED
      BY <1>6, <2>1, <2>2, <2>3 DEF RxSilence
  <1>7. CASE Deadman
    BY <1>7, <1>a, <1>b, SameMotion DEF Deadman
  <1>8. CASE SupervisorLiveness
    BY <1>8, <1>a, <1>b, SameMotion DEF SupervisorLiveness
  <1>9. CASE \E over \in BOOLEAN : ForceGuard(over)
    BY <1>9, <1>a, <1>c, SameMotion DEF ForceGuard
  <1>10. CASE RecoveryDwell
    <2>1. CASE recoverPending /\ RecoveryComplete
      BY <1>10, <2>1, <1>d DEF RecoveryDwell, RecoveryComplete, LeaveFault, GoHold, ModeInv
    <2>2. CASE UNCHANGED planVars
      BY <1>10, <2>2, SameMotion DEF RecoveryDwell
    <2> QED
      BY <1>10, <2>1, <2>2 DEF RecoveryDwell
  <1>11. CASE Consume
    <2> USE DEF Submittable
    <2>1. CASE ConsumeNone
      BY <2>1, SameMotion DEF ConsumeNone
    <2>2. ASSUME NEW m \in Motions, NEW kind \in TargetKinds, NEW current, NEW superseded,
                 NEW splices, ConsumeReject(m, kind, current, superseded, splices)
          PROVE  MotionInv' /\ KeepsOutcomes
      BY <2>2, <1>a DEF ConsumeReject, RejectInSlot, DataOK, MotionInv, RunningIsPlayed,
                        KeepsOutcomes, Terminal
    <2>3. ASSUME NEW m \in Motions, ConsumeHold(m) PROVE MotionInv' /\ KeepsOutcomes
      <3>1. status' # "RUNNING" /\ KeepsOutcomes
        BY <2>3, <1>a, TakeSlotMotion DEF ConsumeHold
      <3> QED
        BY <2>3, <3>1, RestMotion DEF ConsumeHold, Plan, MovingModes
    <2>4. ASSUME NEW m \in Motions, ConsumeBrake(m) PROVE MotionInv' /\ KeepsOutcomes
      <3>1. slot' = m /\ status' = "RUNNING" /\ outcome'[m] = "RUNNING" /\ KeepsOutcomes
        BY <2>4, <1>a, TakeSlotMotion DEF ConsumeBrake
      <3> QED
        BY <2>4, <3>1 DEF ConsumeBrake, Plan, MotionInv, RunningIsPlayed, MovingModes
    <2>5. ASSUME NEW m \in Motions, ConsumeServo(m) PROVE MotionInv' /\ KeepsOutcomes
      <3>1. slot' = m /\ status' = "RUNNING" /\ outcome'[m] = "RUNNING" /\ KeepsOutcomes
        BY <2>5, <1>a, TakeSlotMotion DEF ConsumeServo
      <3> QED
        BY <2>5, <3>1 DEF ConsumeServo, MotionInv, RunningIsPlayed, MovingModes
    <2>6. ASSUME NEW m \in Motions, NEW deadman \in BOOLEAN, NEW force \in BOOLEAN,
                 ConsumeTrajectory(m, deadman, force)
          PROVE  MotionInv' /\ KeepsOutcomes
      <3>1. slot' = m /\ status' = "RUNNING" /\ outcome'[m] = "RUNNING" /\ KeepsOutcomes
        BY <2>6, <1>a, TakeSlotMotion DEF ConsumeTrajectory
      <3> QED
        BY <2>6, <3>1 DEF ConsumeTrajectory, Plan, MotionInv, RunningIsPlayed, MovingModes
    <2> QED
      BY <1>11, <2>1, <2>2, <2>3, <2>4, <2>5, <2>6 DEF Consume
  <1>12. CASE Dispatch
    <2> USE DEF Continue
    <2>1. CASE DispatchPark \/ DispatchHold \/ DispatchReanchor
      BY <2>1, SameMotion DEF DispatchPark, DispatchHold, DispatchReanchor
    <2>2. CASE DispatchError
      BY <2>2, <1>a, <1>b DEF DispatchError
    <2>3. ASSUME NEW d \in Positions, DispatchCapture(d) PROVE MotionInv' /\ KeepsOutcomes
      BY <2>3, SameMotion DEF DispatchCapture, MovingModes
    <2>4. ASSUME NEW d \in Positions, DispatchPlay(d) PROVE MotionInv' /\ KeepsOutcomes
      BY <2>4, SameMotion DEF DispatchPlay, NextPhase
    <2>5. ASSUME NEW d \in Positions, DispatchSettle(d) PROVE MotionInv' /\ KeepsOutcomes
      <3>1. CASE UNCHANGED slotVars /\ Continue
        BY <3>1, SameMotion
      <3>2. CASE GoHold /\ \E st \in {"DONE", "SETTLE_TIMEOUT"} : ResolveActive(st)
        BY <3>2, <1>a, ResolveActiveMotion, RestMotion DEF GoHold, MovingModes
      <3> QED
        BY <2>5, <3>1, <3>2 DEF DispatchSettle
    <2>6. ASSUME NEW d \in Positions, DispatchServo(d) PROVE MotionInv' /\ KeepsOutcomes
      BY <2>6, SameMotion DEF DispatchServo
    <2>7. ASSUME NEW d \in Positions, DispatchBrake(d) PROVE MotionInv' /\ KeepsOutcomes
      <3>1. CASE UNCHANGED slotVars /\ Continue
        BY <3>1, SameMotion
      <3>2. CASE GoHold /\ ResolveActive("DONE")
        BY <3>2, <1>a, ResolveActiveMotion, RestMotion DEF GoHold, MovingModes
      <3>3. CASE GoHold /\ ~brakeIsMotion /\ UNCHANGED slotVars
        BY <2>7, <3>3, RestMotion DEF DispatchBrake, GoHold, MotionInv, RunningIsPlayed,
                                      MovingModes, KeepsOutcomes
      <3> QED
        BY <2>7, <3>1, <3>2, <3>3 DEF DispatchBrake
    <2>8. ASSUME NEW d \in Positions, DispatchRamp(d) PROVE MotionInv' /\ KeepsOutcomes
      BY <2>8, SameMotion DEF DispatchRamp, NextPhase
    <2> QED
      BY <1>12, <2>1, <2>2, <2>3, <2>4, <2>5, <2>6, <2>7, <2>8 DEF Dispatch
  <1>13. CASE UNCHANGED vars
    BY <1>13, SameMotion DEF vars
  <1> QED
    BY <1>1, <1>2, <1>3, <1>4, <1>5, <1>6, <1>7, <1>8, <1>9, <1>10, <1>11, <1>12, <1>13
    DEF Next, Tick, Guards

LEMMA MotionCorrect == Spec => []MotionInv
  <1>1. Init => MotionInv
    BY DEF Init, MotionInv, RunningIsPlayed, MovingModes
  <1> QED
    BY <1>1, MotionStep, TypeCorrect, ModeCorrect, PTL DEF Spec

\* A RUNNING slot is always the motion being played, whatever preempts, stops,
\* rejects or faults in between.
THEOREM RunningPlayed == Spec => []RunningIsPlayed
  <1>1. MotionInv => RunningIsPlayed
    BY DEF MotionInv
  <1> QED
    BY <1>1, MotionCorrect, PTL

\* No profile of a motion with a terminal event is ever played.
THEOREM PlayedOpen == Spec => []PlayedIsOpen
  <1>1. MotionInv => PlayedIsOpen
    BY DEF MotionInv, PlayedIsOpen
  <1> QED
    BY <1>1, MotionCorrect, PTL

\* The slot, the profile being played and the outcomes callers see agree in every
\* reachable state.
THEOREM SlotMatches == Spec => []SlotMatchesProfile
  <1>1. RunningIsPlayed /\ PlayedIsOpen => SlotMatchesProfile
    BY DEF SlotMatchesProfile
  <1> QED
    BY <1>1, RunningPlayed, PlayedOpen, PTL

\* A motion's terminal event is its last: no path resolves it twice.
THEOREM OutcomesFinal == Spec => OutcomeIsFinal
  <1>1. TypeOK /\ ModeInv /\ MotionInv /\ [Next]_vars
           => [\A m \in Motions : outcome[m] \in Terminal => outcome'[m] = outcome[m]]_vars
    BY MotionStep DEF KeepsOutcomes
  <1> QED
    BY <1>1, TypeCorrect, ModeCorrect, MotionCorrect, PTL DEF Spec, OutcomeIsFinal

-----------------------------------------------------------------------------
(***************************************************************************)
(* Gates, the wire, the park and the evidence of a recovery: what TickCore *)
(* guarantees of them for every value of its constants.  Each section has  *)
(* one inductive invariant, preserved given the ones above.                *)
(***************************************************************************)

\* Gates.  While streaming the kill conditions are the last gates seen, and
\* without a latched fault those were all inherited.
GateInv ==
    /\ (streaming /\ stage # "rx") => conditions \cap KillGates = lastGates
    /\ (~streaming \/ fault = "NONE") => lastGates \subseteq inherited

\* Wire.  The anchor is what was last sent; a parked core that still shows a
\* transmitted window is inside the tick that parked it; a silent wire of a
\* streaming core means the park, an anchor on the measured pose, or a fault
\* entered this tick that no pending recovery can clear.
InTick == {"deadman", "liveness", "force", "dwell", "consume", "dispatch"}

WireInv ==
    /\ tx # NoTx => qCmd = tx /\ streaming
    /\ (mode = "RX_SILENT" /\ tx # NoTx) => ticksSinceRx >= ParkTicks /\ stage \in InTick
    /\ (streaming /\ tx = NoTx /\ mode # "RX_SILENT") =>
          /\ stage # "idle"
          /\ \/ fault = "NONE" /\ qCmd = qMeas
             \/ mode = "SAFE_FOLLOW" /\ ~recoverPending

\* Silence.  Past the silence ladder of a tick that has lasted the park time, a
\* core is parked, or SUPERVISOR_LOST took it out of the park in this tick.
LossInv ==
    /\ (stage \in InTick /\ streaming /\ ticksSinceRx >= ParkTicks) =>
          \/ mode = "RX_SILENT"
          \/ /\ mode = "SAFE_FOLLOW" /\ ~recoverPending
             /\ fault = "SUPERVISOR_LOST" /\ lostLatched
    /\ SilentTxOnlyOnLoss

\* Recovery evidence.  A dwell that has heard nothing since it was asked for
\* has counted no more ticks than the silence has lasted.
Counting == {"control", "silence", "deadman", "liveness", "force", "dwell"}

HeardInv ==
    (recoverPending /\ ~heardSinceAsk) =>
        /\ mode = "SAFE_FOLLOW" =>
              /\ allClear <= ticksSinceRx
              /\ stage \in Counting => allClear < ticksSinceRx
              /\ ticksSinceRx >= ParkTicks =>
                    stage \in {"control", "silence"} \/ (stage = "idle" /\ allClear = 0)
        /\ stage \in Counting => ticksSinceRx > 0
        /\ stage # "rx"

-----------------------------------------------------------------------------
(* Gates.                                                                  *)

\* A step that ingests no packet and clears no fault.
LEMMA SameGates ==
    ASSUME GateInv, UNCHANGED <<streaming, lastGates, inherited>>,
           stage = "rx" => stage' = "rx",
           conditions' \cap KillGates = conditions \cap KillGates,
           fault' = "NONE" => fault = "NONE"
    PROVE  GateInv'
  BY DEF GateInv

\* The two RX conditions are not kill gates.
LEMMA RxNotKill ==
    /\ "RxSilent" \notin KillGates /\ "RxDegraded" \notin KillGates
  BY DEF KillGates

LEMMA GateStep == TypeOK /\ ModeInv /\ GateInv /\ [Next]_vars => GateInv'
  <1> SUFFICES ASSUME TypeOK, ModeInv, GateInv, [Next]_vars PROVE GateInv'
    OBVIOUS
  <1> USE DEF healthVars, slotVars, planVars, guardVars, rxVars, beatVars, wireVars, history
  <1>a. {"RX_DEGRADED", "WATCHDOG_EXPIRED", "SUPERVISOR_LOST", "INTERNAL", "RX_SILENT"}
           \subseteq FaultReason \ {"NONE"}
    BY DEF FaultReason
  <1>b. ASSUME NEW cause \in FaultReason \ {"NONE"}, NEW st, EnterFault(cause, st)
        PROVE  fault' # "NONE"
    BY <1>b DEF EnterFault
  <1>1. CASE RequestRecover
    BY <1>1, SameGates DEF RequestRecover
  <1>2. CASE Begin
    BY <1>2 DEF Begin, BeginStreaming, GateInv
  <1>3. CASE Ingest
    <2> PICK g \in GateInputs, q \in Positions : IngestRx(g, q)
      BY <1>3 DEF Ingest
    <2>1. g \subseteq KillGates /\ lastGates' = g /\ streaming' = streaming
      BY GateAssumption DEF IngestRx
    <2>2. streaming => conditions' \cap KillGates = g
      BY <2>1, RxNotKill DEF IngestRx
    <2>3. CASE ~streaming
      BY <2>1, <2>3 DEF IngestRx, GateInv
    <2>4. CASE streaming /\ g \ lastGates # {}
      <3> PICK top \in g \ lastGates : EnterFault(FaultOf[top], "FAULTED")
        BY <2>4 DEF IngestRx
      <3>1. fault' # "NONE"
        BY <2>1, <1>b, FaultOfGate
      <3> QED
        BY <2>1, <2>2, <2>4, <3>1 DEF GateInv
    <2>5. CASE streaming /\ g \ lastGates = {}
      <3>1. fault' = fault /\ inherited' = inherited \cap g
        BY <2>5 DEF IngestRx
      <3> QED
        BY <2>1, <2>2, <2>5, <3>1 DEF GateInv
    <2> QED
      BY <2>3, <2>4, <2>5
  <1>4. CASE NoRx
    BY <1>4, SameGates DEF NoRx
  <1>5. CASE Control
    BY <1>5, SameGates DEF Control, ControlOps
  <1>6. CASE RxSilence
    <2>1. UNCHANGED <<streaming, lastGates, inherited>> /\ stage # "rx"
      BY <1>6 DEF RxSilence
    <2>2. conditions' \cap KillGates = conditions \cap KillGates
      BY <1>6, RxNotKill DEF RxSilence, EnterRxSilent
    <2>3. fault' = "NONE" => fault = "NONE"
      BY <1>6, <1>a, <1>b DEF RxSilence, EnterRxSilent
    <2> QED
      BY <2>1, <2>2, <2>3, SameGates
  <1>7. CASE Deadman
    BY <1>7, <1>a, <1>b, SameGates DEF Deadman
  <1>8. CASE SupervisorLiveness
    BY <1>8, <1>a, <1>b, SameGates DEF SupervisorLiveness
  <1>9. CASE \E over \in BOOLEAN : ForceGuard(over)
    BY <1>9, SameGates DEF ForceGuard
  <1>10. CASE RecoveryDwell
    <2>1. UNCHANGED <<streaming, lastGates, inherited>> /\ stage = "dwell" /\ stage' = "consume"
      BY <1>10 DEF RecoveryDwell
    <2>2. CASE recoverPending /\ AllClear /\ RecoveryComplete
      <3>1. streaming /\ conditions \cap KillGates = {} /\ lastGates = {}
        BY <2>1, <2>2 DEF AllClear, ModeInv, GateInv
      <3>2. conditions' \cap KillGates = {}
        BY <2>2, <3>1 DEF RecoveryComplete, LeaveFault
      <3> QED
        BY <2>1, <3>1, <3>2 DEF GateInv
    <2>3. CASE UNCHANGED <<fault, conditions>>
      BY <2>1, <2>3, SameGates
    <2> QED
      BY <1>10, <2>2, <2>3 DEF RecoveryDwell
  <1>11. CASE Consume
    BY <1>11, SameGates DEF Consume, ConsumeNone, ConsumeReject, ConsumeHold, ConsumeBrake,
            ConsumeServo, ConsumeTrajectory, ConsumeFrame, Submittable
  <1>12. CASE Dispatch
    <2>1. ASSUME NEW d, Emit(d), stage = "dispatch", fault' = "NONE" => fault = "NONE"
          PROVE  GateInv'
      BY <2>1, SameGates DEF Emit
    <2>2. CASE DispatchError
      BY <2>2, <2>1, <1>a, <1>b DEF DispatchError
    <2>3. CASE DispatchPark \/ DispatchHold \/ DispatchReanchor
      BY <2>3, <2>1 DEF DispatchPark, DispatchHold, DispatchReanchor, KeepHealth
    <2>4. CASE \E d \in Positions : DispatchCapture(d) \/ DispatchPlay(d) \/ DispatchSettle(d)
                  \/ DispatchServo(d) \/ DispatchBrake(d) \/ DispatchRamp(d)
      BY <2>4, <2>1 DEF DispatchCapture, DispatchPlay, DispatchSettle, DispatchServo,
              DispatchBrake, DispatchRamp, KeepHealth
    <2> QED
      BY <1>12, <2>2, <2>3, <2>4 DEF Dispatch
  <1>13. CASE UNCHANGED vars
    BY <1>13, SameGates DEF vars
  <1> QED
    BY <1>1, <1>2, <1>3, <1>4, <1>5, <1>6, <1>7, <1>8, <1>9, <1>10, <1>11, <1>12, <1>13
    DEF Next, Tick, Guards

LEMMA GateCorrect == Spec => []GateInv
  <1>1. Init => GateInv
    BY DEF Init, GateInv
  <1> QED
    BY <1>1, GateStep, TypeCorrect, ModeCorrect, PTL DEF Spec

\* A kill gate that is up without a latched fault was up before streaming
\* began: process_gates has killed on every other one, and the dwell never
\* completes under one.
THEOREM KillGatesFault == Spec => []KillGateFaults
  <1>1. GateInv => KillGateFaults
    BY DEF GateInv, KillGateFaults
  <1> QED
    BY <1>1, GateCorrect, PTL
-----------------------------------------------------------------------------
(* The wire.                                                               *)

\* A window closed by Emit transmits the anchor, or is silent in the park.
LEMMA EmitWire ==
    ASSUME TypeOK, NEW d \in Positions, Emit(d)
    PROVE  /\ WireInv'
           /\ tx' # NoTx => tx' = qCmd' /\ streaming /\ mode' # "RX_SILENT"
           /\ Distance(qCmd', qCmd) <= SlewStep
  <1>1. /\ stage' = "idle" /\ qCmd' \in Positions /\ Distance(qCmd', qCmd) <= SlewStep
    BY EmitType DEF TypeOK
  <1>2. qCmd' # NoTx
    BY <1>1, PositionAssumption DEF Positions, NoTx
  <1>3. /\ UNCHANGED streaming
        /\ (streaming /\ mode' # "RX_SILENT") => tx' = qCmd'
        /\ ~(streaming /\ mode' # "RX_SILENT") => tx' = NoTx
    BY DEF Emit, Transmitting
  <1> QED
    BY <1>1, <1>2, <1>3 DEF WireInv

\* Within a tick, a step that keeps anchor, wire and measured pose, and leaves
\* the park only for a fresh fault.
LEMMA SameWire ==
    ASSUME WireInv, UNCHANGED <<streaming, qCmd, tx, qMeas>>, stage' # "idle",
           mode' = "RX_SILENT" =>
              \/ mode = "RX_SILENT" /\ ticksSinceRx' = ticksSinceRx
                 /\ (stage \in InTick => stage' \in InTick)
              \/ ticksSinceRx' >= ParkTicks /\ stage' \in InTick,
           mode' # "RX_SILENT" =>
              \/ mode' = "SAFE_FOLLOW" /\ ~recoverPending'
              \/ mode \notin FaultModes /\ fault' = fault
              \/ mode = "SAFE_FOLLOW" /\ UNCHANGED <<mode, fault, recoverPending>>
    PROVE  WireInv'
  BY DEF WireInv, FaultModes

LEMMA WireStep == TypeOK /\ ModeInv /\ WireInv /\ [Next]_vars => WireInv'
  <1> SUFFICES ASSUME TypeOK, ModeInv, WireInv, [Next]_vars PROVE WireInv'
    OBVIOUS
  <1> USE DEF healthVars, slotVars, planVars, guardVars, rxVars, beatVars, wireVars, history
  <1>b. ASSUME NEW cause, NEW st, EnterFault(cause, st)
        PROVE  mode' = "SAFE_FOLLOW" /\ ~recoverPending'
    BY <1>b DEF EnterFault, Plan
  <1>c. ASSUME NEW st, BeginBrake(st) PROVE mode' = "BRAKE"
    BY <1>c DEF BeginBrake, Plan
  <1>1. CASE RequestRecover
    BY <1>1 DEF RequestRecover, WireInv
  <1>2. CASE Begin
    BY <1>2 DEF Begin, BeginStreaming, WireInv
  <1>3. CASE Ingest
    <2> PICK g \in GateInputs, q \in Positions : IngestRx(g, q)
      BY <1>3 DEF Ingest
    <2>1. /\ stage \in {"idle", "rx"} /\ stage' = "control" /\ UNCHANGED <<qCmd, tx, streaming>>
          /\ stage = "rx" => qMeas' = qMeas
      BY DEF IngestRx
    <2>2. \/ mode' = "SAFE_FOLLOW" /\ ~recoverPending'
          \/ UNCHANGED <<mode, fault, recoverPending>>
      BY <1>b DEF IngestRx
    <2> QED
      BY <2>1, <2>2 DEF WireInv, InTick
  <1>4. CASE NoRx
    BY <1>4 DEF NoRx, WireInv, InTick
  <1>5. CASE Control
    <2> PICK ops \in SUBSET (Ops \ {"recover"}) : ControlOps(ops)
      BY <1>5 DEF Control
    <2>1. \/ UNCHANGED mode \/ (mode \notin FaultModes /\ mode' = "BRAKE")
      BY <1>c DEF ControlOps, StopRequested, HoldRequested, MovingModes, FaultModes
    <2> QED
      BY <2>1 DEF ControlOps, WireInv, FaultModes, InTick
  <1>6. CASE RxSilence
    <2>1. CASE ParkDue /\ EnterRxSilent
      BY <1>6, <2>1, SameWire DEF RxSilence, ParkDue, EnterRxSilent, InTick
    <2>2. CASE EnterFault("RX_DEGRADED", "FAULTED")
      BY <1>6, <2>2, <1>b, SameWire DEF RxSilence
    <2>3. CASE UNCHANGED <<healthVars, planVars>>
      BY <1>6, <2>3, SameWire DEF RxSilence, InTick, FaultModes
    <2> QED
      BY <1>6, <2>1, <2>2, <2>3 DEF RxSilence
  <1>7. CASE Deadman
    BY <1>7, <1>b, SameWire DEF Deadman, InTick, FaultModes
  <1>8. CASE SupervisorLiveness
    BY <1>8, <1>b, SameWire DEF SupervisorLiveness, InTick, FaultModes
  <1>9. CASE \E over \in BOOLEAN : ForceGuard(over)
    BY <1>9, <1>c, SameWire DEF ForceGuard, ModeInv, InTick, FaultModes
  <1>10. CASE RecoveryDwell
    <2>1. CASE recoverPending /\ AllClear /\ RecoveryComplete
      <3>1. streaming /\ mode \in FaultModes /\ fault # "NONE"
        BY <2>1 DEF ModeInv, FaultLatched
      <3>2. /\ UNCHANGED <<streaming, tx, qMeas, ticksSinceRx>> /\ stage' = "consume"
            /\ mode' = "HOLD" /\ fault' = "NONE"
            /\ qCmd' = IF mode = "RX_SILENT" THEN qMeas ELSE qCmd
        BY <1>10, <2>1 DEF RecoveryDwell, RecoveryComplete, LeaveFault, GoHold
      <3>3. CASE mode = "RX_SILENT"
        <4>1. tx = NoTx
          BY <2>1, <3>3, TicksAssumption DEF AllClear, WireInv
        <4> QED
          BY <3>1, <3>2, <3>3, <4>1 DEF WireInv
      <3>4. CASE mode = "SAFE_FOLLOW"
        BY <2>1, <3>1, <3>2, <3>4 DEF WireInv
      <3> QED
        BY <3>1, <3>3, <3>4 DEF FaultModes
    <2>2. CASE UNCHANGED <<fault, recoverPending, qCmd, planVars>>
      BY <1>10, <2>2, SameWire DEF RecoveryDwell, InTick, FaultModes
    <2> QED
      BY <1>10, <2>1, <2>2 DEF RecoveryDwell
  <1>11. CASE Consume
    <2>1. /\ stage = "consume" /\ stage' = "dispatch"
          /\ UNCHANGED <<healthVars, streaming, rxVars, wireVars>>
      BY <1>11 DEF Consume, ConsumeNone, ConsumeReject, ConsumeHold, ConsumeBrake,
              ConsumeServo, ConsumeTrajectory, ConsumeFrame, Submittable
    <2>2. \/ UNCHANGED mode
          \/ mode \notin FaultModes /\ mode' # "RX_SILENT"
      BY <1>11 DEF Consume, ConsumeNone, ConsumeReject, ConsumeHold, ConsumeBrake,
              ConsumeServo, ConsumeTrajectory, NotFaulted, Plan, MovingModes, FaultModes
    <2> QED
      BY <2>1, <2>2, SameWire DEF InTick, FaultModes
  <1>12. CASE Dispatch
    <2>1. qMeas \in Positions /\ qCmd \in Positions /\ Reanchor \in Positions
      BY ReanchorType DEF TypeOK, DataOK
    <2>2. \E d \in Positions : Emit(d)
      BY <1>12, <2>1 DEF Dispatch, DispatchPark, DispatchHold, DispatchError, DispatchReanchor,
              DispatchCapture, DispatchPlay, DispatchSettle, DispatchServo, DispatchBrake,
              DispatchRamp
    <2> QED
      BY <2>2, EmitWire
  <1>13. CASE UNCHANGED vars
    BY <1>13 DEF vars, WireInv
  <1> QED
    BY <1>1, <1>2, <1>3, <1>4, <1>5, <1>6, <1>7, <1>8, <1>9, <1>10, <1>11, <1>12, <1>13
    DEF Next, Tick, Guards

LEMMA WireCorrect == Spec => []WireInv
  <1>1. Init => WireInv
    BY DEF Init, WireInv
  <1> QED
    BY <1>1, WireStep, TypeCorrect, ModeCorrect, PTL DEF Spec

\* What a step may do to the wire.
LEMMA TxStep ==
    ASSUME TypeOK, ModeInv, WireInv, [Next]_vars, tx' # tx
    PROVE  \E d \in Positions : /\ Emit(d) /\ stage = "dispatch"
                                /\ fault' = "NONE" => fault = "NONE"
  <1> USE DEF healthVars, slotVars, planVars, guardVars, rxVars, beatVars, wireVars, history
  <1>1. Dispatch
    BY DEF Next, Tick, Guards, vars, RequestRecover, Begin, BeginStreaming, Ingest, IngestRx,
           NoRx, Control, ControlOps, RxSilence, Deadman, SupervisorLiveness, ForceGuard,
           RecoveryDwell, Consume, ConsumeNone, ConsumeReject, ConsumeHold, ConsumeBrake,
           ConsumeServo, ConsumeTrajectory, ConsumeFrame
  <1>2. qMeas \in Positions /\ qCmd \in Positions /\ Reanchor \in Positions
    BY ReanchorType DEF TypeOK, DataOK
  <1>3. CASE DispatchError
    BY <1>2, <1>3 DEF DispatchError, EnterFault
  <1>4. CASE DispatchPark \/ DispatchHold \/ DispatchReanchor
    BY <1>2, <1>4 DEF DispatchPark, DispatchHold, DispatchReanchor, KeepHealth
  <1>5. CASE \E d \in Positions : DispatchCapture(d) \/ DispatchPlay(d) \/ DispatchSettle(d)
                \/ DispatchServo(d) \/ DispatchBrake(d) \/ DispatchRamp(d)
    BY <1>5 DEF DispatchCapture, DispatchPlay, DispatchSettle, DispatchServo,
            DispatchBrake, DispatchRamp, KeepHealth
  <1> QED
    BY <1>1, <1>3, <1>4, <1>5 DEF Dispatch

\* No two consecutive transmitted windows differ by more than the slew step,
\* whatever mode change, fault entry, clamp or re-anchor lies between them.
THEOREM WireIsContinuous == Spec => WireContinuity
  <1>1. TypeOK /\ ModeInv /\ WireInv /\ [Next]_vars
           => [tx # NoTx /\ tx' # NoTx => Distance(tx', tx) <= SlewStep]_vars
    <2> SUFFICES ASSUME TypeOK, ModeInv, WireInv, [Next]_vars, tx # NoTx, tx' # NoTx
                 PROVE  Distance(tx', tx) <= SlewStep
      OBVIOUS
    <2>1. CASE tx' = tx
      <3>1. tx \in Positions
        BY DEF TypeOK, DataOK
      <3> QED
        BY <2>1, <3>1, PositionAssumption DEF Distance, Positions
    <2>2. CASE tx' # tx
      BY <2>2, TxStep, EmitWire DEF WireInv
    <2> QED
      BY <2>1, <2>2
  <1> QED
    BY <1>1, TypeCorrect, ModeCorrect, WireCorrect, PTL DEF Spec, WireContinuity

\* A healthy core that starts or resumes transmitting does so next to the pose
\* it measures in that tick: begin_streaming and the dwell seed the anchor, and
\* nothing moves it in between.
THEOREM ResumeIsMeasured == Spec => ResumesAtMeasured
  <1>1. TypeOK /\ ModeInv /\ WireInv /\ [Next]_vars
           => [tx = NoTx /\ tx' # NoTx /\ fault' = "NONE"
                  => Distance(tx', qMeas) <= SlewStep]_vars
    <2> SUFFICES ASSUME TypeOK, ModeInv, WireInv, [Next]_vars, tx = NoTx, tx' # NoTx,
                        fault' = "NONE"
                 PROVE  Distance(tx', qMeas) <= SlewStep
      OBVIOUS
    <2> PICK d \in Positions : /\ Emit(d) /\ stage = "dispatch"
                               /\ fault' = "NONE" => fault = "NONE"
      BY TxStep
    <2>1. tx' = qCmd' /\ streaming /\ Distance(qCmd', qCmd) <= SlewStep
      BY EmitWire
    <2>2. qCmd = qMeas
      BY <2>1 DEF WireInv, ModeInv, FaultLatched, FaultModes
    <2> QED
      BY <2>1, <2>2
  <1> QED
    BY <1>1, TypeCorrect, ModeCorrect, WireCorrect, PTL DEF Spec, ResumesAtMeasured

-----------------------------------------------------------------------------
(* Silence.                                                                *)

LEMMA LossStep == TypeOK /\ ModeInv /\ LossInv /\ [Next]_vars => LossInv'
  <1> SUFFICES ASSUME TypeOK, ModeInv, LossInv, [Next]_vars PROVE LossInv'
    OBVIOUS
  <1> USE DEF healthVars, slotVars, planVars, guardVars, rxVars, beatVars, wireVars, history,
              InTick, FaultModes, MovingModes, SilentTxOnlyOnLoss
  <1>1. CASE RequestRecover
    BY <1>1 DEF RequestRecover, LossInv
  <1>2. CASE Begin
    BY <1>2 DEF Begin, BeginStreaming, LossInv
  <1>3. CASE Ingest
    BY <1>3 DEF Ingest, IngestRx, LossInv
  <1>4. CASE NoRx
    BY <1>4 DEF NoRx, LossInv
  <1>5. CASE Control
    <2>1. stage' = "silence"
      BY <1>5 DEF Control, ControlOps
    <2> QED
      BY <2>1 DEF LossInv
  <1>6. CASE RxSilence
    <2>1. stage' = "deadman" /\ UNCHANGED <<streaming, ticksSinceRx>>
      BY <1>6 DEF RxSilence
    <2>2. ticksSinceRx >= ParkTicks => mode' = "RX_SILENT"
      <3> SUFFICES ASSUME ticksSinceRx >= ParkTicks PROVE mode' = "RX_SILENT"
        OBVIOUS
      <3>1. ~DegradeDue
        BY TicksAssumption DEF DegradeDue, TypeOK, DataOK
      <3> QED
        BY <1>6, <3>1 DEF RxSilence, ParkDue, EnterRxSilent
    <2> QED
      BY <2>1, <2>2 DEF LossInv
  <1>7. CASE Deadman
    BY <1>7 DEF Deadman, LossInv
  <1>8. CASE SupervisorLiveness
    <2>1. CASE lostLatched' = TRUE /\ EnterFault("SUPERVISOR_LOST", "FAULTED")
      BY <1>8, <2>1 DEF SupervisorLiveness, EnterFault, Plan, LossInv
    <2>2. CASE UNCHANGED <<lostLatched, healthVars, slotVars, planVars, guardVars>>
      BY <1>8, <2>2 DEF SupervisorLiveness, LossInv
    <2> QED
      BY <1>8, <2>1, <2>2 DEF SupervisorLiveness
  <1>9. CASE \E over \in BOOLEAN : ForceGuard(over)
    BY <1>9 DEF ForceGuard, ModeInv, LossInv
  <1>10. CASE RecoveryDwell
    <2>1. CASE recoverPending /\ AllClear /\ RecoveryComplete
      <3>1. /\ streaming /\ stage = "dwell" /\ stage' = "consume"
            /\ UNCHANGED <<streaming, ticksSinceRx>>
        BY <1>10, <2>1 DEF RecoveryDwell, ModeInv
      <3>2. ~(ticksSinceRx >= ParkTicks)
        BY <2>1, <3>1, TicksAssumption DEF AllClear, LossInv
      <3> QED
        BY <3>1, <3>2 DEF LossInv
    <2>2. CASE UNCHANGED <<fault, recoverPending, lostLatched, planVars>>
      BY <1>10, <2>2 DEF RecoveryDwell, LossInv
    <2> QED
      BY <1>10, <2>1, <2>2 DEF RecoveryDwell
  <1>11. CASE Consume
    <2>1. /\ stage = "consume" /\ stage' = "dispatch"
          /\ UNCHANGED <<healthVars, streaming, rxVars, beatVars>>
      BY <1>11 DEF Consume, ConsumeNone, ConsumeReject, ConsumeHold, ConsumeBrake,
              ConsumeServo, ConsumeTrajectory, ConsumeFrame, Submittable
    <2>2. mode \in FaultModes => UNCHANGED mode
      BY <1>11 DEF Consume, ConsumeNone, ConsumeReject, ConsumeHold, ConsumeBrake,
              ConsumeServo, ConsumeTrajectory, NotFaulted
    <2> QED
      BY <2>1, <2>2 DEF LossInv
  <1>12. CASE Dispatch
    <2>1. stage = "dispatch"
      BY <1>12 DEF Dispatch, DispatchPark, DispatchHold, DispatchError, DispatchReanchor,
              DispatchCapture, DispatchPlay, DispatchSettle, DispatchServo, DispatchBrake,
              DispatchRamp
    <2>2. mode \in FaultModes => UNCHANGED <<mode, fault>>
      BY <1>12 DEF Dispatch, DispatchPark, DispatchHold, DispatchError, DispatchReanchor,
              DispatchCapture, DispatchPlay, DispatchSettle, DispatchServo, DispatchBrake,
              DispatchRamp, KeepHealth, Continue, NextPhase
    <2>3. qMeas \in Positions /\ qCmd \in Positions /\ Reanchor \in Positions
      BY ReanchorType DEF TypeOK, DataOK
    <2>4. \E d \in Positions : Emit(d)
      BY <1>12, <2>3 DEF Dispatch, DispatchPark, DispatchHold, DispatchError, DispatchReanchor,
              DispatchCapture, DispatchPlay, DispatchSettle, DispatchServo, DispatchBrake,
              DispatchRamp
    <2>5. /\ tx' # NoTx => streaming /\ mode' # "RX_SILENT"
          /\ stage' = "idle" /\ UNCHANGED <<ticksSinceRx, lostLatched>>
      BY <2>4, EmitWire DEF Emit
    <2> QED
      BY <2>1, <2>2, <2>5 DEF LossInv
  <1>13. CASE UNCHANGED vars
    BY <1>13 DEF vars, LossInv
  <1> QED
    BY <1>1, <1>2, <1>3, <1>4, <1>5, <1>6, <1>7, <1>8, <1>9, <1>10, <1>11, <1>12, <1>13
    DEF Next, Tick, Guards

\* A core that has heard nothing for the park time transmits only in the window
\* in which SUPERVISOR_LOST un-parked it.
THEOREM SilentTxIsLoss == Spec => []SilentTxOnlyOnLoss
  <1>1. Init => LossInv
    BY DEF Init, LossInv, SilentTxOnlyOnLoss, InTick
  <1>2. LossInv => SilentTxOnlyOnLoss
    BY DEF LossInv
  <1> QED
    BY <1>1, <1>2, LossStep, TypeCorrect, ModeCorrect, PTL DEF Spec
-----------------------------------------------------------------------------
(* Recovery evidence.                                                      *)

\* A step that asks for no recovery, counts nothing and enters no fault mode.
LEMMA SameHeard ==
    ASSUME HeardInv, UNCHANGED <<ticksSinceRx, heardSinceAsk, allClear>>,
           recoverPending' => recoverPending, mode' = "SAFE_FOLLOW" => mode = "SAFE_FOLLOW",
           stage' \in Counting => stage \in Counting, stage' # "rx",
           stage' # "idle" \/ stage \in {"idle", "dispatch"},
           stage \in {"control", "silence"} /\ mode' = "SAFE_FOLLOW" =>
              stage' = "silence" \/ ~(ticksSinceRx >= ParkTicks),
           stage = "idle" => stage' = "idle"
    PROVE  HeardInv'
  BY DEF HeardInv

LEMMA HeardStep ==
    ASSUME DwellTicks >= ParkTicks
    PROVE  TypeOK /\ ModeInv /\ HeardInv /\ [Next]_vars
              => /\ HeardInv'
                 /\ streaming /\ fault # "NONE" /\ fault' = "NONE" => heardSinceAsk
  <1> DEFINE Evidence == streaming /\ fault # "NONE" /\ fault' = "NONE" => heardSinceAsk
  <1> SUFFICES ASSUME TypeOK, ModeInv, HeardInv, [Next]_vars PROVE HeardInv' /\ Evidence
    OBVIOUS
  <1> USE DEF healthVars, slotVars, planVars, guardVars, rxVars, beatVars, wireVars, history,
              Counting, FaultModes, MovingModes
  <1>a. /\ ticksSinceRx \in 0..ParkTicks /\ allClear \in 0..(DwellTicks - 1)
        /\ ParkTicks \in Nat \ {0} /\ DwellTicks \in Nat \ {0}
    BY TicksAssumption DEF TypeOK, DataOK
  <1>b. ASSUME NEW cause \in FaultReason \ {"NONE"}, NEW st, EnterFault(cause, st)
        PROVE  HeardInv' /\ Evidence
    BY <1>b DEF EnterFault, HeardInv
  <1>c. {"RX_DEGRADED", "WATCHDOG_EXPIRED", "SUPERVISOR_LOST", "INTERNAL"}
           \subseteq FaultReason \ {"NONE"}
    BY DEF FaultReason
  <1>1. CASE RequestRecover
    BY <1>1, <1>a DEF RequestRecover, HeardInv
  <1>2. CASE Begin
    BY <1>2 DEF Begin, BeginStreaming, ModeInv, HeardInv
  <1>3. CASE Ingest
    <2> PICK g \in GateInputs, q \in Positions : IngestRx(g, q)
      BY <1>3 DEF Ingest
    <2>1. CASE \E top \in g \ lastGates : EnterFault(FaultOf[top], "FAULTED")
      BY <2>1, <1>b, FaultOfGate, GateAssumption
    <2>2. CASE UNCHANGED fault
      BY <2>2 DEF IngestRx, HeardInv
    <2> QED
      BY <2>1, <2>2 DEF IngestRx
  <1>4. CASE NoRx
    <2>1. CASE ticksSinceRx < ParkTicks
      BY <1>4, <2>1, <1>a DEF NoRx, CountTo, HeardInv
    <2>2. CASE ticksSinceRx = ParkTicks
      BY <1>4, <2>2, <1>a DEF NoRx, CountTo, HeardInv
    <2> QED
      BY <1>a, <2>1, <2>2
  <1>5. CASE Control
    <2> PICK ops \in SUBSET (Ops \ {"recover"}) : ControlOps(ops)
      BY <1>5 DEF Control
    <2>1. mode' = mode \/ mode' = "BRAKE"
      BY DEF ControlOps, StopRequested, HoldRequested, BeginBrake, Plan
    <2>2. /\ UNCHANGED <<fault, ticksSinceRx, heardSinceAsk, allClear, recoverPending>>
          /\ stage = "control" /\ stage' = "silence"
      BY DEF ControlOps
    <2> QED
      BY <2>1, <2>2, SameHeard
  <1>6. CASE RxSilence
    <2>1. /\ stage = "silence" /\ stage' = "deadman"
          /\ UNCHANGED <<ticksSinceRx, heardSinceAsk>>
      BY <1>6 DEF RxSilence
    <2>2. CASE ParkDue /\ EnterRxSilent
      BY <2>1, <2>2, SameHeard DEF EnterRxSilent
    <2>3. CASE EnterFault("RX_DEGRADED", "FAULTED")
      BY <2>3, <1>b, <1>c
    <2>4. CASE ~ParkDue /\ UNCHANGED <<healthVars, planVars>>
      BY <2>1, <2>4, SameHeard DEF ParkDue
    <2> QED
      BY <1>6, <2>2, <2>3, <2>4 DEF RxSilence
  <1>7. CASE Deadman
    BY <1>7, <1>b, <1>c, SameHeard DEF Deadman
  <1>8. CASE SupervisorLiveness
    BY <1>8, <1>b, <1>c, SameHeard DEF SupervisorLiveness
  <1>9. CASE \E over \in BOOLEAN : ForceGuard(over)
    <2>1. mode' = mode \/ mode' = "BRAKE"
      BY <1>9 DEF ForceGuard, BeginBrake, Plan
    <2>2. /\ UNCHANGED <<fault, ticksSinceRx, heardSinceAsk, allClear, recoverPending>>
          /\ stage = "force" /\ stage' = "dwell"
      BY <1>9 DEF ForceGuard
    <2> QED
      BY <2>1, <2>2, SameHeard
  <1>10. CASE RecoveryDwell
    <2>1. /\ stage = "dwell" /\ stage' = "consume"
          /\ UNCHANGED <<ticksSinceRx, heardSinceAsk>>
      BY <1>10 DEF RecoveryDwell
    <2>2. CASE recoverPending /\ AllClear /\ DwellSatisfied /\ RecoveryComplete
      <3>1. heardSinceAsk
        <4> SUFFICES ASSUME ~heardSinceAsk PROVE FALSE
          OBVIOUS
        <4>1. ticksSinceRx > 0
          BY <2>1, <2>2 DEF HeardInv
        <4>2. mode = "SAFE_FOLLOW"
          BY <2>2, <4>1 DEF AllClear, ModeInv
        <4>3. allClear < ticksSinceRx /\ ~(ticksSinceRx >= ParkTicks)
          BY <2>1, <2>2, <4>2 DEF HeardInv
        <4> QED
          BY <2>2, <4>3, <1>a DEF DwellSatisfied
      <3>2. recoverPending' = FALSE
        BY <2>2 DEF RecoveryComplete, LeaveFault
      <3> QED
        BY <3>1, <3>2 DEF HeardInv
    <2>3. CASE ~recoverPending /\ UNCHANGED <<fault, recoverPending>>
      BY <2>3 DEF HeardInv
    <2>4. CASE recoverPending /\ UNCHANGED <<fault, recoverPending, mode>>
               /\ allClear' \in {0, allClear + 1}
      BY <2>1, <2>4, <1>a DEF HeardInv
    <2> QED
      BY <1>10, <2>2, <2>3, <2>4, Zenon DEF RecoveryDwell
  <1>11. CASE Consume
    <2>1. /\ stage = "consume" /\ stage' = "dispatch"
          /\ UNCHANGED <<healthVars, rxVars, history>>
      BY <1>11 DEF Consume, ConsumeNone, ConsumeReject, ConsumeHold, ConsumeBrake,
              ConsumeServo, ConsumeTrajectory, ConsumeFrame, Submittable
    <2>2. mode' = mode \/ mode' # "SAFE_FOLLOW"
      BY <1>11 DEF Consume, ConsumeNone, ConsumeReject, ConsumeHold, ConsumeBrake,
              ConsumeServo, ConsumeTrajectory, Plan
    <2> QED
      BY <2>1, <2>2, SameHeard
  <1>12. CASE Dispatch
    <2>1. CASE DispatchError
      BY <2>1, <1>b, <1>c DEF DispatchError
    <2>2. ASSUME NEW d, Emit(d), stage = "dispatch", KeepHealth, mode' = mode \/ mode' # "SAFE_FOLLOW"
          PROVE  HeardInv' /\ Evidence
      BY <2>2, SameHeard DEF Emit, KeepHealth
    <2>3. CASE DispatchPark \/ DispatchHold \/ DispatchReanchor
      BY <2>3, <2>2 DEF DispatchPark, DispatchHold, DispatchReanchor
    <2>4. CASE \E d \in Positions : DispatchCapture(d) \/ DispatchPlay(d) \/ DispatchSettle(d)
                  \/ DispatchServo(d) \/ DispatchBrake(d) \/ DispatchRamp(d)
      BY <2>4, <2>2 DEF DispatchCapture, DispatchPlay, DispatchSettle, DispatchServo,
              DispatchBrake, DispatchRamp, Continue, NextPhase, GoHold
    <2> QED
      BY <1>12, <2>1, <2>3, <2>4 DEF Dispatch
  <1>13. CASE UNCHANGED vars
    BY <1>13 DEF vars, HeardInv
  <1> QED
    BY <1>1, <1>2, <1>3, <1>4, <1>5, <1>6, <1>7, <1>8, <1>9, <1>10, <1>11, <1>12, <1>13
    DEF Next, Tick, Guards

\* When the dwell is at least as long as the park time (both are 500 ms in the
\* code), no recovery completes on silence alone: a packet has arrived since
\* recover() was last asked for.
THEOREM RecoveryHeard ==
    ASSUME DwellTicks >= ParkTicks
    PROVE  Spec => RecoveryHeardController
  <1>1. Init => HeardInv
    BY DEF Init, HeardInv
  <1>2. TypeOK /\ ModeInv /\ HeardInv /\ [Next]_vars => HeardInv'
    BY HeardStep
  <1>3. TypeOK /\ ModeInv /\ HeardInv /\ [Next]_vars
           => [streaming /\ fault # "NONE" /\ fault' = "NONE" => heardSinceAsk]_vars
    BY HeardStep
  <1> QED
    BY <1>1, <1>2, <1>3, TypeCorrect, ModeCorrect, PTL DEF Spec, RecoveryHeardController

-----------------------------------------------------------------------------
(***************************************************************************)
(* TickCore implements CoreContract for every value of its constants: the  *)
(* initial state maps to the contract's, and every step of the tick maps   *)
(* to a step of the contract or to a stutter.                              *)
(***************************************************************************)

\* The four states of the contract, under the refinement mapping.
LEMMA HealthIs ==
    ASSUME TypeOK, ModeInv
    PROVE  /\ ~streaming => ContractHealth = "down"
           /\ streaming => (ContractHealth = "ok" <=> mode \notin FaultModes)
           /\ streaming => (ContractHealth = "faulted" <=> mode = "SAFE_FOLLOW")
           /\ streaming => (ContractHealth = "parked" <=> mode = "RX_SILENT")
  BY DEF ContractHealth, ModeInv, FaultLatched, FaultModes

LEMMA ContractInit == Init => Contract!Init
  BY DEF Init, Contract!Init, ContractHealth, MovingModes

\* A fault entered in a streaming core, in mid-tick or at the end of a window.
LEMMA FaultMaps ==
    ASSUME NEW cause \in FaultReason \ {"NONE"}, NEW st, EnterFault(cause, st),
           streaming, streaming' = streaming,
           tx' = tx \/ tx' # NoTx
    PROVE  Contract!Next
  <1>1. ContractHealth # "down" /\ ContractHealth' = "faulted"
    BY DEF EnterFault, Plan, ContractHealth
  <1>2. mode' = "SAFE_FOLLOW" /\ recoverPending' = FALSE
    BY DEF EnterFault, Plan
  <1>3. Contract!Fault
    BY <1>1, <1>2 DEF Contract!Fault, Contract!MayTransmit, Contract!Transmits, MovingModes
  <1> QED
    BY <1>3 DEF Contract!Next

\* A healthy core may start or end a profile between two windows.
LEMMA MoveMaps ==
    ASSUME streaming, fault = "NONE", UNCHANGED <<streaming, fault, recoverPending, tx>>
    PROVE  Contract!Next
  <1>1. ContractHealth = "ok" /\ ContractHealth' = "ok"
    BY DEF ContractHealth
  <1>2. CASE mode' \in MovingModes \cup {"BRAKE"}
    BY <1>1, <1>2 DEF Contract!Next, Contract!Move
  <1>3. CASE mode' \notin MovingModes \cup {"BRAKE"}
    BY <1>1, <1>3 DEF Contract!Next, Contract!Rest, Contract!MayTransmit
  <1> QED
    BY <1>2, <1>3

\* Nothing the contract can see has changed.
LEMMA StillMaps ==
    ASSUME UNCHANGED <<streaming, fault, mode, recoverPending, tx>>
    PROVE  UNCHANGED Contract!contractVars
  BY DEF Contract!contractVars, ContractHealth

\* A window is closed: it transmits unless the core is down or parked, and it
\* may have ended the profile.
LEMMA WindowMaps ==
    ASSUME TypeOK, ModeInv, NEW d \in Positions, Emit(d), UNCHANGED <<fault, recoverPending>>,
           mode' = mode \/ (mode \notin FaultModes \cup {"STREAM_DOWN"} /\ mode' \notin FaultModes),
           mode' \in MovingModes \cup {"BRAKE"} => mode \in MovingModes \cup {"BRAKE"}
    PROVE  Contract!Next
  <1>1. UNCHANGED streaming /\ qCmd' \in Positions
    BY EmitType DEF Emit, TypeOK
  <1>2. qCmd' # NoTx
    BY <1>1, PositionAssumption DEF Positions, NoTx
  <1>3. (tx' # NoTx) <=> (streaming /\ mode' # "RX_SILENT")
    BY <1>2 DEF Emit, Transmitting
  <1>4. ContractHealth' = ContractHealth
    BY <1>1 DEF ContractHealth, ModeInv, FaultLatched, FaultModes
  <1>5. ContractHealth \in {"ok", "faulted"} <=> (streaming /\ mode' # "RX_SILENT")
    BY HealthIs DEF FaultModes, ModeInv, ContractHealth
  <1>6. (tx' # NoTx) = (ContractHealth \in {"ok", "faulted"})
    BY <1>3, <1>5
  <1>7. CASE (mode' \in MovingModes \cup {"BRAKE"}) <=> (mode \in MovingModes \cup {"BRAKE"})
    BY <1>4, <1>6, <1>7 DEF Contract!Next, Contract!Window, Contract!Transmits
  <1>8. CASE mode' \notin MovingModes \cup {"BRAKE"}
    BY <1>4, <1>6, <1>8 DEF Contract!Next, Contract!Rest, Contract!MayTransmit, Contract!Transmits
  <1> QED
    BY <1>7, <1>8

LEMMA ContractStep ==
    TypeOK /\ ModeInv /\ [Next]_vars => [Contract!Next]_(Contract!contractVars)
  <1> SUFFICES ASSUME TypeOK, ModeInv, [Next]_vars
               PROVE  Contract!Next \/ UNCHANGED Contract!contractVars
    OBVIOUS
  <1> USE DEF healthVars, slotVars, planVars, guardVars, rxVars, beatVars, wireVars, history
  <1>a. {"RX_DEGRADED", "WATCHDOG_EXPIRED", "SUPERVISOR_LOST", "INTERNAL"}
           \subseteq FaultReason \ {"NONE"}
    BY DEF FaultReason
  <1>b. mode \notin FaultModes \cup {"STREAM_DOWN"} => streaming /\ fault = "NONE"
    BY DEF ModeInv, FaultLatched, FaultModes, TypeOK, FlagsOK
  <1>c. streaming \in BOOLEAN /\ recoverPending \in BOOLEAN
    BY DEF TypeOK, FlagsOK
  <1>1. CASE RequestRecover
    <2>1. ContractHealth \in {"faulted", "parked"}
      BY <1>1, HealthIs DEF RequestRecover, FaultModes
    <2>2. ContractHealth' = ContractHealth
      BY <1>1 DEF RequestRecover, ContractHealth
    <2> QED
      BY <1>1, <2>1, <2>2 DEF RequestRecover, Contract!Next, Contract!Ask
  <1>2. CASE Begin
    BY <1>2 DEF Begin, BeginStreaming, ContractHealth, MovingModes, Contract!Next, Contract!Start
  <1>3. CASE Ingest
    <2> PICK g \in GateInputs, q \in Positions : IngestRx(g, q)
      BY <1>3 DEF Ingest
    <2>1. CASE streaming /\ \E top \in g \ lastGates : EnterFault(FaultOf[top], "FAULTED")
      BY <2>1, FaultMaps, FaultOfGate, GateAssumption DEF IngestRx
    <2>2. CASE UNCHANGED <<fault, recoverPending, mode>>
      BY <2>2, StillMaps DEF IngestRx
    <2> QED
      BY <2>1, <2>2 DEF IngestRx
  <1>4. CASE NoRx
    BY <1>4, StillMaps DEF NoRx
  <1>5. CASE Control
    <2> PICK ops \in SUBSET (Ops \ {"recover"}) : ControlOps(ops)
      BY <1>5 DEF Control
    <2>1. UNCHANGED <<streaming, fault, recoverPending, tx>>
      BY DEF ControlOps
    <2>2. mode' = mode \/ mode \in MovingModes \cup {"HOLD"}
      BY DEF ControlOps, StopRequested, HoldRequested
    <2> QED
      BY <2>1, <2>2, <1>b, MoveMaps, StillMaps DEF MovingModes, FaultModes
  <1>6. CASE RxSilence
    <2>1. CASE ParkDue /\ EnterRxSilent
      <3>1. /\ UNCHANGED <<streaming, recoverPending, tx>>
            /\ mode' = "RX_SILENT" /\ mode # "RX_SILENT" /\ fault' = "RX_SILENT"
        BY <1>6, <2>1 DEF RxSilence, ParkDue, EnterRxSilent
      <3>2. CASE streaming
        <4>1. ContractHealth \in {"ok", "faulted"} /\ ContractHealth' = "parked"
          BY <3>1, <3>2 DEF ContractHealth, ModeInv, FaultLatched, FaultModes
        <4> QED
          BY <3>1, <4>1 DEF Contract!Next, Contract!Park, MovingModes
      <3>3. CASE ~streaming
        <4>1. ContractHealth' = ContractHealth
          BY <3>1, <3>3 DEF ContractHealth
        <4>2. mode = "STREAM_DOWN"
          BY <3>1, <3>3 DEF ModeInv
        <4> QED
          BY <3>1, <4>1, <4>2 DEF Contract!contractVars, MovingModes
      <3> QED
        BY <3>2, <3>3
    <2>2. CASE DegradeDue /\ EnterFault("RX_DEGRADED", "FAULTED")
      BY <1>6, <2>2, <1>a, <1>b, FaultMaps DEF RxSilence, DegradeDue, MovingModes, FaultModes
    <2>3. CASE UNCHANGED <<healthVars, planVars>>
      BY <1>6, <2>3, StillMaps DEF RxSilence
    <2> QED
      BY <1>6, <2>1, <2>2, <2>3 DEF RxSilence
  <1>7. CASE Deadman
    <2>1. CASE mode = "TRAJECTORY" /\ EnterFault("WATCHDOG_EXPIRED", "STOPPED")
      BY <1>7, <2>1, <1>a, <1>b, FaultMaps DEF Deadman, FaultModes
    <2>2. CASE UNCHANGED <<healthVars, planVars>>
      BY <1>7, <2>2, StillMaps DEF Deadman
    <2> QED
      BY <1>7, <2>1, <2>2 DEF Deadman
  <1>8. CASE SupervisorLiveness
    <2>1. CASE streaming /\ EnterFault("SUPERVISOR_LOST", "FAULTED")
      BY <1>8, <2>1, <1>a, FaultMaps DEF SupervisorLiveness
    <2>2. CASE UNCHANGED <<healthVars, planVars>>
      BY <1>8, <2>2, StillMaps DEF SupervisorLiveness
    <2> QED
      BY <1>8, <2>1, <2>2 DEF SupervisorLiveness
  <1>9. CASE \E over \in BOOLEAN : ForceGuard(over)
    <2>1. UNCHANGED <<streaming, fault, recoverPending, tx>>
      BY <1>9 DEF ForceGuard
    <2>2. mode' = mode \/ mode \notin FaultModes \cup {"STREAM_DOWN"}
      BY <1>9 DEF ForceGuard, ModeInv, FaultModes
    <2> QED
      BY <2>1, <2>2, <1>b, MoveMaps, StillMaps
  <1>10. CASE RecoveryDwell
    <2>1. CASE recoverPending /\ RecoveryComplete
      <3>1. /\ streaming' = streaming /\ tx' = tx /\ fault' = "NONE" /\ recoverPending' = FALSE
            /\ mode' = "HOLD"
        BY <1>10, <2>1 DEF RecoveryDwell, RecoveryComplete, LeaveFault, GoHold
      <3>2. ContractHealth' = "ok"
        BY <2>1, <3>1 DEF ContractHealth, ModeInv
      <3> QED
        BY <2>1, <3>1, <3>2, <1>c DEF Contract!Next, Contract!Recover, MovingModes
    <2>2. CASE UNCHANGED <<fault, recoverPending, planVars>>
      BY <1>10, <2>2, StillMaps DEF RecoveryDwell
    <2> QED
      BY <1>10, <2>1, <2>2 DEF RecoveryDwell
  <1>11. CASE Consume
    <2>1. UNCHANGED <<streaming, fault, recoverPending, tx>>
      BY <1>11 DEF Consume, ConsumeNone, ConsumeReject, ConsumeHold, ConsumeBrake,
              ConsumeServo, ConsumeTrajectory, ConsumeFrame
    <2>2. mode' = mode \/ (streaming /\ fault = "NONE")
      BY <1>11, <1>b DEF Consume, ConsumeNone, ConsumeReject, ConsumeHold, ConsumeBrake,
              ConsumeServo, ConsumeTrajectory, Submittable, NotFaulted, MovingModes, FaultModes
    <2> QED
      BY <2>1, <2>2, MoveMaps, StillMaps
  <1>12. CASE Dispatch
    <2>1. CASE DispatchError
      <3>1. streaming /\ UNCHANGED streaming
        BY <2>1, <1>b DEF DispatchError, Emit, FaultModes
      <3>2. qCmd' # NoTx
        BY <2>1, EmitType, PositionAssumption DEF DispatchError, TypeOK, DataOK, Positions, NoTx
      <3>3. tx' # NoTx
        BY <2>1, <3>1, <3>2 DEF DispatchError, EnterFault, Plan, Emit, Transmitting
      <3> QED
        BY <2>1, <3>1, <3>3, <1>a, FaultMaps DEF DispatchError
    <2>2. CASE DispatchPark \/ DispatchHold \/ DispatchReanchor
      <3>1. qMeas \in Positions /\ qCmd \in Positions /\ Reanchor \in Positions
        BY ReanchorType DEF TypeOK, DataOK
      <3> QED
        BY <2>2, <3>1, WindowMaps DEF DispatchPark, DispatchHold, DispatchReanchor, KeepHealth
    <2>3. CASE \E d \in Positions : DispatchCapture(d) \/ DispatchPlay(d) \/ DispatchSettle(d)
                  \/ DispatchServo(d) \/ DispatchBrake(d) \/ DispatchRamp(d)
      BY <2>3, WindowMaps DEF DispatchCapture, DispatchPlay, DispatchSettle, DispatchServo,
              DispatchBrake, DispatchRamp, KeepHealth, Continue, NextPhase, GoHold,
              MovingModes, FaultModes
    <2> QED
      BY <1>12, <2>1, <2>2, <2>3 DEF Dispatch
  <1>13. CASE UNCHANGED vars
    BY <1>13, StillMaps DEF vars
  <1> QED
    BY <1>1, <1>2, <1>3, <1>4, <1>5, <1>6, <1>7, <1>8, <1>9, <1>10, <1>11, <1>12, <1>13
    DEF Next, Tick, Guards

\* The tick core implements its contract: whatever the thresholds, the gates and
\* the targets, a fault is left only by a recovery asked for after it was
\* entered, motion starts only in health, and TX follows health.
THEOREM ImplementsContract == Spec => ContractHolds
  <1> QED
    BY ContractInit, ContractStep, TypeCorrect, ModeCorrect, PTL
    DEF Spec, ContractHolds, Contract!Spec
=============================================================================
