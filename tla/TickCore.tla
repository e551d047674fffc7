------------------------------ MODULE TickCore ------------------------------
(***************************************************************************)
(* The 125 Hz motion tick (src/cpp/rt_core/tick_core.{hpp,cpp}): the mode  *)
(* machine, the latched fault, the gates, the RX-silence ladder, the       *)
(* watchdogs, the recovery dwell, the mailbox consume and the commanded    *)
(* anchor.  TickCore::tick is one call on the RT thread; `stage' walks its *)
(* numbered steps in the order of the code, one action per handler, and    *)
(* each step chooses its own input where the code reads it.                *)
(*                                                                         *)
(* Abstractions.  Elapsed time is counted in ticks, as in the code, with   *)
(* small thresholds.  One joint stands for six, its position is a small    *)
(* integer, and the sample a motion profile yields is any position.  How   *)
(* long a profile runs is chosen when it is planned (at most MaxPhase      *)
(* ticks).  The epoch is kept as the difference that consume compares: a   *)
(* target is `current' when its stamp is the epoch at the start of the     *)
(* tick, and `bumped' says that the epoch has moved since.                 *)
(***************************************************************************)
EXTENDS Integers, FiniteSets

CONSTANTS
    Motions,      \* motion ids; each is submitted at most once
    NoMotion,     \* "no id": the empty active-motion slot
    TargetKinds,  \* the kinds of Target the callers submit
    GateInputs,   \* the sets of kill gates a status packet may show
    Ops,          \* the control operations in use: stop, hold, kick, beat, recover
    BlindTicks,   \* rx_silence_blind_hold_ms: silence that kills a motion
    ParkTicks,    \* rx_silent_park_ms: silence that parks TX
    DwellTicks,   \* antiflap_dwell_ms: clear ticks that complete a recovery
    LostTicks,    \* supervisor_lost_s: beatless ticks that fault
    DeadmanTicks, \* Target::deadman_s: unkicked ticks that fault
    MaxPhase,     \* bound on the ticks one phase of a profile takes
    MaxPos,       \* positions are 0..MaxPos
    SlewStep,     \* the slew limiter's step per tick
    FollowStep,   \* SAFE_FOLLOW's re-anchor step per tick
    Deadband,     \* drift below which SAFE_FOLLOW leaves the anchor alone
    PosHi         \* soft limit: a commanded position is clamped to 0..PosHi

ASSUME NoMotionAssumption == NoMotion \notin Motions

ASSUME TicksAssumption ==
    /\ BlindTicks \in Nat \ {0}
    /\ ParkTicks \in Nat \ {0}
    /\ BlindTicks <= ParkTicks
    /\ DwellTicks \in Nat \ {0}
    /\ LostTicks \in Nat \ {0}
    /\ DeadmanTicks \in Nat \ {0}
    /\ MaxPhase \in Nat

ASSUME PositionAssumption ==
    /\ MaxPos \in Nat
    /\ SlewStep \in Nat
    /\ FollowStep \in Nat
    /\ Deadband \in Nat
    /\ PosHi \in 0..MaxPos

-----------------------------------------------------------------------------
KillGates == {"e_stopped", "in_error", "tp_enabled", "contact_stop_active",
              "safety_clamp", "motion_not_possible"}

\* kKillMask is KillGates; the other two condition bits the core acts on.
Conditions == KillGates \cup {"RxDegraded", "RxSilent"}

ASSUME GateAssumption == GateInputs \subseteq SUBSET KillGates

FaultOf == [e_stopped |-> "E_STOP", in_error |-> "IN_ERROR",
            tp_enabled |-> "TEACH_MODE", contact_stop_active |-> "CONTACT_STOP",
            safety_clamp |-> "SAFETY_CLAMP",
            motion_not_possible |-> "MOTION_NOT_POSSIBLE"]

Severity == [e_stopped |-> 1, in_error |-> 2, tp_enabled |-> 3,
             contact_stop_active |-> 4, safety_clamp |-> 5,
             motion_not_possible |-> 6]

FaultReason == {"NONE", "E_STOP", "IN_ERROR", "TEACH_MODE", "CONTACT_STOP",
                "SAFETY_CLAMP", "MOTION_NOT_POSSIBLE", "RX_SILENT",
                "RX_DEGRADED", "WATCHDOG_EXPIRED", "SUPERVISOR_LOST", "INTERNAL"}

Mode == {"STREAM_DOWN", "HOLD", "CAPTURE", "TRAJECTORY", "SERVO", "BRAKE",
         "SAFE_FOLLOW", "RX_SILENT"}

MovingModes == {"CAPTURE", "TRAJECTORY", "SERVO"}
FaultModes  == {"SAFE_FOLLOW", "RX_SILENT"}

Terminal == {"DONE", "SETTLE_TIMEOUT", "STOPPED", "PREEMPTED", "FAULTED", "REJECTED"}
MotionStatus == {"PENDING", "RUNNING"} \cup Terminal

Stages == {"idle", "rx", "control", "silence", "deadman", "liveness", "force",
           "dwell", "consume", "dispatch"}

Phases == {"none", "play", "blend", "settle", "ramp", "reanchor"}

Positions == 0..MaxPos
NoTx == -1     \* the last window transmitted nothing

VARIABLES
    stage,          \* the step of tick() that runs next; "idle" between ticks
    \* mode and health
    mode, fault, conditions, streaming, recoverPending, allClear, bumped,
    \* the active-motion slot, and the last event emitted for each motion
    slot, status, outcome,
    \* the profile being played: whose it is, its sub-phase, its ticks left
    playing, phase, left, brakeIsMotion,
    \* per-motion guards
    deadmanArmed, ticksSinceKick, forceArmed,
    \* what the controller last said
    ticksSinceRx, rxDegraded, lastGates, qMeas,
    \* supervisor liveness
    hbArmed, ticksSinceBeat, lostLatched,
    \* the commanded anchor, and what the last window transmitted
    qCmd, tx,
    \* history: gates asserted without a break since before streaming began,
    \* and whether a packet arrived since recover() was last requested
    inherited, heardSinceAsk

healthVars == <<fault, recoverPending, allClear, bumped>>
slotVars   == <<slot, status, outcome>>
planVars   == <<mode, playing, phase, left, brakeIsMotion>>
guardVars  == <<deadmanArmed, forceArmed>>
rxVars     == <<ticksSinceRx, lastGates, qMeas>>
beatVars   == <<hbArmed, ticksSinceBeat, lostLatched>>
wireVars   == <<qCmd, tx>>
history    == <<inherited, heardSinceAsk>>

vars == <<stage, healthVars, conditions, streaming, slotVars, planVars,
          guardVars, ticksSinceKick, rxVars, rxDegraded, beatVars, wireVars,
          history>>

FlagsOK ==
    /\ streaming \in BOOLEAN /\ recoverPending \in BOOLEAN /\ bumped \in BOOLEAN
    /\ brakeIsMotion \in BOOLEAN /\ deadmanArmed \in BOOLEAN /\ forceArmed \in BOOLEAN
    /\ rxDegraded \in BOOLEAN /\ hbArmed \in BOOLEAN /\ lostLatched \in BOOLEAN
    /\ heardSinceAsk \in BOOLEAN

DataOK ==
    /\ stage \in Stages
    /\ mode \in Mode
    /\ fault \in FaultReason
    /\ conditions \subseteq Conditions
    /\ allClear \in 0..(DwellTicks - 1)
    /\ slot \in Motions \cup {NoMotion}
    /\ status \in MotionStatus
    /\ outcome \in [Motions -> MotionStatus]
    /\ playing \in Motions \cup {NoMotion}
    /\ phase \in Phases
    /\ left \in 0..MaxPhase
    /\ ticksSinceKick \in 0..DeadmanTicks
    /\ ticksSinceRx \in 0..ParkTicks
    /\ lastGates \subseteq KillGates
    /\ qMeas \in Positions
    /\ ticksSinceBeat \in 0..LostTicks
    /\ qCmd \in Positions
    /\ tx \in Positions \cup {NoTx}
    /\ inherited \subseteq KillGates

TypeOK == FlagsOK /\ DataOK

Init ==
    /\ stage = "idle"
    /\ mode = "STREAM_DOWN" /\ fault = "NONE" /\ conditions = {}
    /\ streaming = FALSE /\ recoverPending = FALSE /\ allClear = 0 /\ bumped = FALSE
    /\ slot = NoMotion /\ status = "PENDING"
    /\ outcome = [m \in Motions |-> "PENDING"]
    /\ playing = NoMotion /\ phase = "none" /\ left = 0 /\ brakeIsMotion = FALSE
    /\ deadmanArmed = FALSE /\ ticksSinceKick = 0 /\ forceArmed = FALSE
    /\ ticksSinceRx = 0 /\ rxDegraded = FALSE /\ qMeas = 0
    /\ lastGates = {"motion_not_possible"}
    /\ hbArmed = FALSE /\ ticksSinceBeat = 0 /\ lostLatched = FALSE
    /\ qCmd = 0 /\ tx = NoTx
    /\ inherited = lastGates /\ heardSinceAsk = FALSE

-----------------------------------------------------------------------------
(* Helpers shared by the steps.                                            *)

\* A counter that is only compared with `>= cap' need not run past it.
CountTo(n, cap) == IF n < cap THEN n + 1 ELSE cap

\* resolve_active: the running motion, if any, gets its one terminal event.
BugResolvesAgain(st) == IF slot # NoMotion THEN [outcome EXCEPT ![slot] = st] ELSE outcome

Resolved(st) == IF status = "RUNNING" THEN [outcome EXCEPT ![slot] = st] ELSE outcome

ResolveActive(st) ==
    /\ outcome' = Resolved(st)
    /\ status' = IF status = "RUNNING" THEN st ELSE status
    /\ UNCHANGED slot

\* consume's accepting paths: preempt the displaced motion, then take the slot.
TakeSlot(m, st) ==
    /\ outcome' = [Resolved("PREEMPTED") EXCEPT ![m] = st]
    /\ slot' = m
    /\ status' = st

\* consume's rejecting paths: the slot is overwritten and nothing is resolved.
RejectInSlot(m) ==
    /\ outcome' = [outcome EXCEPT ![m] = "REJECTED"]
    /\ slot' = m
    /\ status' = "REJECTED"

BugForceStaysArmed == deadmanArmed' = FALSE /\ UNCHANGED forceArmed

Disarm == deadmanArmed' = FALSE /\ forceArmed' = FALSE

Plan(md, m, ph) ==
    /\ mode' = md
    /\ playing' = m
    /\ phase' = ph
    /\ left' \in 0..MaxPhase

GoHold ==
    /\ mode' = "HOLD" /\ playing' = NoMotion /\ phase' = "none" /\ left' = 0
    /\ brakeIsMotion' = FALSE

\* The deceleration a begin_brake seeds tracks no motion.
BeginBrake(st) ==
    /\ ResolveActive(st)
    /\ Plan("BRAKE", NoMotion, "none")
    /\ brakeIsMotion' = FALSE
    /\ Disarm

EnterFault(cause, st) ==
    /\ bumped' = TRUE
    /\ fault' = cause
    /\ ResolveActive(st)
    /\ Plan("SAFE_FOLLOW", NoMotion, "ramp")
    /\ recoverPending' = FALSE /\ allClear' = 0
    /\ Disarm
    /\ UNCHANGED brakeIsMotion

\* The park keeps recover_pending_ and all_clear_ticks_.
EnterRxSilent ==
    /\ bumped' = TRUE
    /\ fault' = "RX_SILENT"
    /\ conditions' = conditions \cup {"RxSilent"}
    /\ ResolveActive("FAULTED")
    /\ mode' = "RX_SILENT" /\ playing' = NoMotion /\ phase' = "none" /\ left' = 0
    /\ Disarm
    /\ UNCHANGED <<recoverPending, allClear, brakeIsMotion>>

-----------------------------------------------------------------------------
(* Between ticks: what RealtimeCore does before it calls tick().           *)

\* recover() is only taken in the two fault modes; it restarts the dwell.  The
\* supervisor calls it on a core whose stream is up.
RequestRecover ==
    /\ stage = "idle" /\ "recover" \in Ops /\ streaming
    /\ mode \in FaultModes
    /\ recoverPending' = TRUE /\ allClear' = 0
    /\ heardSinceAsk' = FALSE
    /\ UNCHANGED <<stage, fault, bumped, conditions, streaming, slotVars, planVars,
                   guardVars, ticksSinceKick, rxVars, rxDegraded, beatVars,
                   wireVars, inherited>>

\* The first packet that shows motion_possible seeds the anchor; that window
\* has a packet, so the tick that follows ingests one, of an arm that stands
\* still because nothing has been streamed to it yet.
BeginStreaming(q) ==
    /\ stage = "idle" /\ ~streaming
    /\ stage' = "rx"
    /\ streaming' = TRUE
    /\ qMeas' = q /\ qCmd' = q
    /\ mode' = "HOLD" /\ UNCHANGED <<playing, phase, left, brakeIsMotion>>
    /\ fault' = "NONE" /\ conditions' = {}
    /\ ticksSinceRx' = 0
    /\ ticksSinceBeat' = 0 /\ lostLatched' = FALSE
    /\ UNCHANGED <<recoverPending, allClear, bumped, slotVars, guardVars,
                   ticksSinceKick, lastGates, rxDegraded, hbArmed, tx, history>>

-----------------------------------------------------------------------------
(* Step 1: ingest the packet of this window, or count its absence.         *)

\* process_gates, after the packet's own fields: conditions follow the gate
\* levels, and while streaming the most severe rising edge enters the fault.
IngestRx(g, q) ==
    LET rises == g \ lastGates IN
    /\ stage \in {"idle", "rx"} /\ (stage = "rx" => q = qMeas)
    /\ stage' = "control"
    /\ qMeas' = q /\ ticksSinceRx' = 0 /\ rxDegraded' = FALSE /\ lastGates' = g
    /\ conditions' = (conditions \cap {"RxSilent"})
                     \cup (IF streaming THEN g ELSE g \ {"motion_not_possible"})
    /\ IF streaming /\ rises # {}
       THEN \E top \in rises :
               /\ \A h \in rises : Severity[top] <= Severity[h]
               /\ EnterFault(FaultOf[top], "FAULTED")
       ELSE /\ bumped' = FALSE
            /\ UNCHANGED <<fault, recoverPending, allClear, slotVars, planVars, guardVars>>
    /\ inherited' = IF streaming THEN inherited \cap g ELSE g
    /\ heardSinceAsk' = TRUE
    /\ UNCHANGED <<streaming, ticksSinceKick, beatVars, wireVars>>

NoRx ==
    /\ stage = "idle"
    /\ stage' = "control"
    /\ ticksSinceRx' = CountTo(ticksSinceRx, ParkTicks)
    /\ bumped' = FALSE
    /\ UNCHANGED <<fault, recoverPending, allClear, conditions, streaming, slotVars,
                   planVars, guardVars, ticksSinceKick, lastGates, qMeas, rxDegraded,
                   beatVars, wireVars, history>>

-----------------------------------------------------------------------------
(* Step 2: the control operations, stop_j first.                           *)

\* In BRAKE the profile is left as planned and only the outcome is settled.
BugStopReseeds ==
    \/ mode \in MovingModes \cup {"HOLD", "BRAKE"} /\ BeginBrake("STOPPED")
    \/ /\ mode \in FaultModes \cup {"STREAM_DOWN"}
       /\ UNCHANGED <<slotVars, planVars, guardVars>>

StopRequested ==
    \/ /\ mode \in MovingModes \cup {"HOLD"}
       /\ BeginBrake("STOPPED")
    \/ /\ mode = "BRAKE"
       /\ ResolveActive("STOPPED")
       /\ brakeIsMotion' = FALSE
       /\ UNCHANGED <<mode, playing, phase, left, guardVars>>
    \/ /\ mode \in FaultModes \cup {"STREAM_DOWN"}
       /\ UNCHANGED <<slotVars, planVars, guardVars>>

\* A hold that follows a stop in the same tick finds no moving mode.
BugHoldForgets ==
    \/ /\ mode \in MovingModes
       /\ Plan("BRAKE", NoMotion, "none") /\ brakeIsMotion' = FALSE
       /\ Disarm /\ UNCHANGED slotVars
    \/ mode \notin MovingModes /\ UNCHANGED <<slotVars, planVars, guardVars>>

HoldRequested ==
    \/ mode \in MovingModes /\ BeginBrake("PREEMPTED")
    \/ mode \notin MovingModes /\ UNCHANGED <<slotVars, planVars, guardVars>>

ControlOps(ops) ==
    /\ stage = "control"
    /\ stage' = "silence"
    /\ CASE "stop" \in ops -> StopRequested
         [] "stop" \notin ops /\ "hold" \in ops -> HoldRequested
         [] OTHER -> UNCHANGED <<slotVars, planVars, guardVars>>
    /\ ticksSinceKick' = IF "kick" \in ops THEN 0 ELSE ticksSinceKick
    /\ IF "beat" \in ops
       THEN hbArmed' = TRUE /\ ticksSinceBeat' = 0 /\ lostLatched' = FALSE
       ELSE UNCHANGED beatVars
    /\ UNCHANGED <<healthVars, conditions, streaming, rxVars, rxDegraded, wireVars,
                   history>>

-----------------------------------------------------------------------------
(* Steps 3, 4, 4b and 5: what ends a motion without its caller.            *)

ParkDue == ticksSinceRx >= ParkTicks /\ mode # "RX_SILENT"

DegradeDue ==
    /\ ticksSinceRx \in BlindTicks..(ParkTicks - 1)
    /\ mode \in MovingModes \cup {"BRAKE"} /\ ~rxDegraded

RxSilence ==
    /\ stage = "silence"
    /\ stage' = "deadman"
    /\ \/ ParkDue /\ EnterRxSilent /\ UNCHANGED rxDegraded
       \/ /\ DegradeDue
          /\ rxDegraded' = TRUE
          /\ conditions' = conditions \cup {"RxDegraded"}
          /\ EnterFault("RX_DEGRADED", "FAULTED")
       \/ /\ ~ParkDue /\ ~DegradeDue
          /\ UNCHANGED <<healthVars, conditions, rxDegraded, slotVars, planVars, guardVars>>
    /\ UNCHANGED <<streaming, ticksSinceKick, rxVars, beatVars, wireVars, history>>

Deadman ==
    LET watched == deadmanArmed /\ mode = "TRAJECTORY"
        age     == CountTo(ticksSinceKick, DeadmanTicks) IN
    /\ stage = "deadman"
    /\ stage' = "liveness"
    /\ ticksSinceKick' = IF watched THEN age ELSE ticksSinceKick
    /\ IF watched /\ age >= DeadmanTicks
       THEN EnterFault("WATCHDOG_EXPIRED", "STOPPED")
       ELSE UNCHANGED <<healthVars, slotVars, planVars, guardVars>>
    /\ UNCHANGED <<conditions, streaming, rxVars, rxDegraded, beatVars, wireVars, history>>

\* One fault per lapse: the latch, not the fault reason, stops a second one.
SupervisorLiveness ==
    LET watched == streaming /\ hbArmed /\ ~lostLatched
        age     == CountTo(ticksSinceBeat, LostTicks) IN
    /\ stage = "liveness"
    /\ stage' = "force"
    /\ ticksSinceBeat' = IF watched THEN age ELSE ticksSinceBeat
    /\ IF watched /\ age >= LostTicks
       THEN /\ lostLatched' = TRUE
            /\ EnterFault("SUPERVISOR_LOST", "FAULTED")
       ELSE UNCHANGED <<lostLatched, healthVars, slotVars, planVars, guardVars>>
    /\ UNCHANGED <<conditions, streaming, ticksSinceKick, rxVars, rxDegraded, hbArmed,
                   wireVars, history>>

\* `over': this window's packet carries a valid wrench above the threshold.
ForceGuard(over) ==
    /\ stage = "force"
    /\ stage' = "dwell"
    /\ IF over /\ ticksSinceRx = 0 /\ forceArmed
       THEN BeginBrake("STOPPED")
       ELSE UNCHANGED <<slotVars, planVars, guardVars>>
    /\ UNCHANGED <<healthVars, conditions, streaming, ticksSinceKick, rxVars, rxDegraded,
                   beatVars, wireVars, history>>

-----------------------------------------------------------------------------
(* Step 6: the recovery anti-flap dwell.                                   *)

BugClearIgnoresGates == mode = "RX_SILENT" => ticksSinceRx = 0

AllClear ==
    /\ conditions \cap KillGates = {}
    /\ mode = "RX_SILENT" => ticksSinceRx = 0

\* Clearing the fault: the epoch moves, the RX conditions go, HOLD is entered.
LeaveFault(anchor, latch) ==
    /\ bumped' = TRUE /\ fault' = "NONE" /\ recoverPending' = FALSE /\ allClear' = 0
    /\ conditions' = conditions \ {"RxSilent", "RxDegraded"}
    /\ rxDegraded' = FALSE
    /\ lostLatched' = latch
    /\ qCmd' = anchor
    /\ GoHold

BugNoReseed      == LeaveFault(qCmd, FALSE)
BugReseedsAlways == LeaveFault(qMeas, FALSE)
BugKeepsLatch    == LeaveFault(IF mode = "RX_SILENT" THEN qMeas ELSE qCmd, lostLatched)

\* Out of the park the anchor is re-seeded.  SUPERVISOR_LOST has no kill bit:
\* its latch is cleared and its count is not, so a dead supervisor re-faults.
RecoveryComplete == LeaveFault(IF mode = "RX_SILENT" THEN qMeas ELSE qCmd, FALSE)

BugDwellShort == allClear + 2 >= DwellTicks
BugDwellLong  == allClear >= DwellTicks

DwellSatisfied == allClear + 1 >= DwellTicks

RecoveryDwell ==
    /\ stage = "dwell"
    /\ stage' = "consume"
    /\ \/ recoverPending /\ AllClear /\ DwellSatisfied /\ RecoveryComplete
       \/ /\ recoverPending => ~AllClear \/ ~DwellSatisfied
          /\ allClear' = CASE ~recoverPending -> allClear
                           [] recoverPending /\ AllClear -> allClear + 1
                           [] OTHER -> 0
          /\ UNCHANGED <<bumped, fault, recoverPending, conditions, rxDegraded,
                         lostLatched, qCmd, planVars>>
    /\ UNCHANGED <<streaming, slotVars, guardVars, ticksSinceKick, rxVars, hbArmed,
                   ticksSinceBeat, tx, history>>

-----------------------------------------------------------------------------
(* Step 7: consume the drained target.  The driver submits only while the  *)
(* stream is up.  `current': stamped with the epoch the tick started in.   *)

Submittable(m, kind) ==
    /\ stage = "consume" /\ streaming
    /\ kind \in TargetKinds
    /\ outcome[m] = "PENDING"

\* The gate in front of kBrake, kServo and kTrajectory.
NotFaulted == fault = "NONE" /\ mode \notin FaultModes

ConsumeFrame ==
    /\ stage' = "dispatch"
    /\ UNCHANGED <<healthVars, conditions, streaming, rxVars, rxDegraded, beatVars,
                   wireVars, history>>

ConsumeNone ==
    /\ stage = "consume"
    /\ UNCHANGED <<slotVars, planVars, guardVars, ticksSinceKick>>
    /\ ConsumeFrame

\* Every refusal: a stale epoch, a trajectory or servo that a later stop_j
\* superseded, a faulted core, a trajectory the capture gate or the splice
\* generator turns down (`splices').
ConsumeReject(m, kind, current, superseded, splices) ==
    /\ Submittable(m, kind)
    /\ \/ ~current \/ bumped
       \/ superseded /\ kind \in {"kTrajectory", "kServo"}
       \/ ~NotFaulted /\ kind # "kHold"
       \/ ~splices /\ kind = "kTrajectory"
    /\ RejectInSlot(m)
    /\ UNCHANGED <<planVars, guardVars, ticksSinceKick>>
    /\ ConsumeFrame

\* kHold is accepted in every mode and brakes a moving one.
ConsumeHold(m) ==
    /\ Submittable(m, "kHold") /\ ~bumped
    /\ TakeSlot(m, "DONE")
    /\ IF mode \in MovingModes
       THEN Plan("BRAKE", NoMotion, "none") /\ brakeIsMotion' = FALSE /\ Disarm
       ELSE UNCHANGED <<planVars, guardVars>>
    /\ UNCHANGED ticksSinceKick
    /\ ConsumeFrame

ConsumeBrake(m) ==
    /\ Submittable(m, "kBrake") /\ ~bumped /\ NotFaulted
    /\ TakeSlot(m, "RUNNING")
    /\ Plan("BRAKE", m, "none") /\ brakeIsMotion' = TRUE
    /\ Disarm
    /\ UNCHANGED ticksSinceKick
    /\ ConsumeFrame

ConsumeServo(m) ==
    /\ Submittable(m, "kServo") /\ ~bumped /\ NotFaulted
    /\ TakeSlot(m, "RUNNING")
    /\ mode' = "SERVO" /\ playing' = m /\ phase' = "none" /\ left' = 0
    /\ forceArmed' = FALSE
    /\ UNCHANGED <<brakeIsMotion, deadmanArmed, ticksSinceKick>>
    /\ ConsumeFrame

ConsumeTrajectory(m, deadman, force) ==
    /\ Submittable(m, "kTrajectory") /\ ~bumped /\ NotFaulted
    /\ TakeSlot(m, "RUNNING")
    /\ Plan("CAPTURE", m, "none")
    /\ deadmanArmed' = deadman /\ ticksSinceKick' = 0
    /\ forceArmed' = force
    /\ UNCHANGED brakeIsMotion
    /\ ConsumeFrame

-----------------------------------------------------------------------------
(* Steps 8 to 10: dispatch the mode, clamp, slew, transmit.                *)

Clamp(d) == IF d > PosHi THEN PosHi ELSE d

\* Move from `from' towards `to' by at most `step'.
Toward(from, to, step) ==
    IF to > from + step THEN from + step
    ELSE IF to < from - step THEN from - step ELSE to

BugTxInPark == streaming

\* TX is off only in the park and before streaming.
Transmitting == streaming /\ mode' # "RX_SILENT"

\* The commanded anchor follows the slew-clipped sample.
Emit(d) ==
    /\ stage' = "idle"
    /\ qCmd' = Toward(qCmd, Clamp(d), SlewStep)
    /\ tx' = IF Transmitting THEN qCmd' ELSE NoTx
    /\ UNCHANGED <<conditions, streaming, ticksSinceKick, rxVars, rxDegraded, beatVars,
                   history>>

KeepHealth == UNCHANGED <<healthVars, guardVars>>

Continue ==
    /\ left > 0 /\ left' = left - 1
    /\ UNCHANGED <<mode, playing, phase, brakeIsMotion>>

NextPhase(ph) ==
    /\ phase' = ph /\ left' \in 0..MaxPhase
    /\ UNCHANGED <<mode, playing, brakeIsMotion>>

\* TX-off modes track the measured pose; HOLD keeps the anchor.
DispatchPark ==
    /\ stage = "dispatch" /\ mode \in {"STREAM_DOWN", "RX_SILENT"}
    /\ KeepHealth /\ UNCHANGED <<slotVars, planVars>>
    /\ Emit(qMeas)

DispatchHold ==
    /\ stage = "dispatch" /\ mode = "HOLD"
    /\ KeepHealth /\ UNCHANGED <<slotVars, planVars>>
    /\ Emit(qCmd)

\* When the splice is exhausted the trajectory is installed and its first
\* sample is played in the same tick; that sample may already be its last.
DispatchCapture(d) ==
    /\ stage = "dispatch" /\ mode = "CAPTURE"
    /\ \/ Continue
       \/ /\ left = 0
          /\ mode' = "TRAJECTORY" /\ phase' \in {"play", "blend", "settle"}
          /\ left' \in 0..MaxPhase
          /\ UNCHANGED <<playing, brakeIsMotion>>
    /\ Emit(d)
    /\ KeepHealth /\ UNCHANGED slotVars

\* kPlaying ends in the qd_end blend when the last knot still moves.
DispatchPlay(d) ==
    /\ stage = "dispatch" /\ mode = "TRAJECTORY" /\ phase \in {"play", "blend"}
    /\ \/ Continue
       \/ left = 0 /\ phase = "play" /\ NextPhase("blend")
       \/ left = 0 /\ NextPhase("settle")
    /\ Emit(d)
    /\ KeepHealth /\ UNCHANGED slotVars

\* The settle detector: converged, else timed out, else still settling.
DispatchSettle(d) ==
    /\ stage = "dispatch" /\ mode = "TRAJECTORY" /\ phase = "settle"
    /\ \/ Continue /\ UNCHANGED slotVars
       \/ ResolveActive("DONE") /\ GoHold
       \/ left = 0 /\ ResolveActive("SETTLE_TIMEOUT") /\ GoHold
    /\ Emit(d)
    /\ KeepHealth

DispatchServo(d) ==
    /\ stage = "dispatch" /\ mode = "SERVO"
    /\ KeepHealth /\ UNCHANGED <<slotVars, planVars>>
    /\ Emit(d)

\* Done when Ruckig finishes and the arm is at rest, or at the duration cap.
DispatchBrake(d) ==
    /\ stage = "dispatch" /\ mode = "BRAKE"
    /\ \/ Continue /\ UNCHANGED slotVars
       \/ /\ IF brakeIsMotion THEN ResolveActive("DONE") ELSE UNCHANGED slotVars
          /\ GoHold
    /\ Emit(d)
    /\ KeepHealth

\* A Ruckig error in SERVO or BRAKE holds the anchor and faults.
DispatchError ==
    /\ stage = "dispatch" /\ mode \in {"SERVO", "BRAKE"}
    /\ EnterFault("INTERNAL", "FAULTED")
    /\ Emit(qCmd)

DispatchRamp(d) ==
    /\ stage = "dispatch" /\ mode = "SAFE_FOLLOW" /\ phase = "ramp"
    /\ \/ Continue
       \/ left = 0 /\ NextPhase("reanchor")
    /\ Emit(d)
    /\ KeepHealth /\ UNCHANGED slotVars

\* Walk the anchor to a FRESH measured pose, outside the deadband only.
Reanchor ==
    LET drift == IF qCmd > qMeas THEN qCmd - qMeas ELSE qMeas - qCmd IN
    IF ticksSinceRx # 0 \/ drift < Deadband THEN qCmd
    ELSE Toward(qCmd, qMeas, FollowStep)

DispatchReanchor ==
    /\ stage = "dispatch" /\ mode = "SAFE_FOLLOW" /\ phase = "reanchor"
    /\ KeepHealth /\ UNCHANGED <<slotVars, planVars>>
    /\ Emit(Reanchor)

-----------------------------------------------------------------------------
Ingest == \E g \in GateInputs, q \in Positions : IngestRx(g, q)

Begin == \E q \in Positions : BeginStreaming(q)

Control == \E ops \in SUBSET (Ops \ {"recover"}) : ControlOps(ops)

Guards == RxSilence \/ Deadman \/ SupervisorLiveness
          \/ (\E over \in BOOLEAN : ForceGuard(over)) \/ RecoveryDwell

Consume ==
    \/ ConsumeNone
    \/ \E m \in Motions :
          \/ \E kind \in TargetKinds, current, superseded, splices \in BOOLEAN :
                ConsumeReject(m, kind, current, superseded, splices)
          \/ ConsumeHold(m)
          \/ ConsumeBrake(m)
          \/ ConsumeServo(m)
          \/ \E deadman, force \in BOOLEAN : ConsumeTrajectory(m, deadman, force)

Dispatch ==
    \/ DispatchPark \/ DispatchHold \/ DispatchError \/ DispatchReanchor
    \/ \E d \in Positions :
          \/ DispatchCapture(d) \/ DispatchPlay(d) \/ DispatchSettle(d)
          \/ DispatchServo(d) \/ DispatchBrake(d) \/ DispatchRamp(d)

\* The tick itself: the RT loop takes these steps by itself, forever.
Tick == Ingest \/ NoRx \/ Control \/ Guards \/ Consume \/ Dispatch

Next == RequestRecover \/ Begin \/ Tick

Spec == Init /\ [][Next]_vars

\* The RT thread never stops ticking.
FairSpec == Spec /\ WF_vars(Tick)

-----------------------------------------------------------------------------
(* Properties.                                                             *)

\* The health latch and the mode agree: once streaming, a latched fault_ is
\* exactly the two fault modes.  Nothing but begin_streaming and the dwell
\* leaves them: no stop, hold, force trip, late target or finished profile
\* moves a faulted core (consume's gates, begin_brake's callers).
FaultLatched == streaming => (fault # "NONE" <=> mode \in FaultModes)

\* A motion the slot reports RUNNING is the one whose profile is being played:
\* every path that abandons a profile has resolved it (resolve_active).
RunningIsPlayed ==
    status = "RUNNING" =>
        /\ slot = playing
        /\ mode \in MovingModes \/ (mode = "BRAKE" /\ brakeIsMotion)

\* The arm never plays the profile of a motion whose terminal event is out:
\* a caller told REJECTED, STOPPED or PREEMPTED is not being moved for.
PlayedIsOpen == mode \in MovingModes => outcome[playing] = "RUNNING"

\* Slot, profile and caller agree, whatever displaces, refuses, stops or faults
\* a motion in between: RUNNING is said only of the motion being played, and
\* nothing is played that its caller has been told is over.
SlotMatchesProfile == RunningIsPlayed /\ PlayedIsOpen

\* At most one terminal event per motion, and no status after it.
OutcomeIsFinal ==
    [][\A m \in Motions : outcome[m] \in Terminal => outcome'[m] = outcome[m]]_vars

\* A kill gate that is up while no fault is latched has been up without a
\* break since before streaming began: every other assertion has killed, and
\* no recovery completed over it (process_gates, the dwell's kKillMask test).
KillGateFaults ==
    (streaming /\ stage # "rx" /\ fault = "NONE") =>
        conditions \cap KillGates \subseteq inherited

\* A recovery completes only on evidence newer than the request: at least one
\* packet arrived since recover(), although the dwell itself counts silent
\* ticks in SAFE_FOLLOW.  It rests on DwellTicks >= ParkTicks.
RecoveryHeardController ==
    [][streaming /\ fault # "NONE" /\ fault' = "NONE" => heardSinceAsk]_vars

Distance(a, b) == IF a > b THEN a - b ELSE b - a

\* Two consecutive transmitted windows differ by at most one slew step, across
\* every mode change, fault entry, clamp and re-anchor.
WireContinuity ==
    [][tx # NoTx /\ tx' # NoTx => Distance(tx', tx) <= SlewStep]_vars

\* A healthy core that starts or resumes transmitting does so within one slew
\* step of the pose measured this tick (begin_streaming, the dwell's re-seed).
ResumesAtMeasured ==
    [][tx = NoTx /\ tx' # NoTx /\ fault' = "NONE"
          => Distance(tx', qMeas) <= SlewStep]_vars

\* With RX dead for the park time, the only window still transmitted is the
\* one in which SUPERVISOR_LOST took the core out of its park.
SilentTxOnlyOnLoss ==
    (stage = "idle" /\ tx # NoTx /\ ticksSinceRx >= ParkTicks)
        => (fault = "SUPERVISOR_LOST" /\ lostLatched)

\* Every deceleration and every trajectory comes to an end: repeated stop_j
\* calls do not restart the brake they find running (step 2, BRAKE branch).
ProfilesEnd ==
    mode \in {"CAPTURE", "TRAJECTORY", "BRAKE"}
        ~> mode \notin {"CAPTURE", "TRAJECTORY", "BRAKE"}

\* A loss that lasts is acted on, whatever else happens: if packets stop for
\* good the core reaches the park, and if the supervisor's beats do it faults,
\* a recovery completed over a dead supervisor not hiding it.
LossesAct ==
    /\ (streaming /\ [](ticksSinceRx # 0)) ~> mode = "RX_SILENT"
    /\ []((streaming /\ hbArmed /\ [](ticksSinceBeat # 0)) => []<>(fault # "NONE"))

-----------------------------------------------------------------------------
(* The contract the tick core implements.                                  *)

ContractHealth ==
    IF ~streaming THEN "down"
    ELSE IF fault = "NONE" THEN "ok"
    ELSE IF mode = "SAFE_FOLLOW" THEN "faulted" ELSE "parked"

Contract == INSTANCE CoreContract WITH
    health <- ContractHealth,
    moving <- mode \in MovingModes \cup {"BRAKE"},
    asked  <- recoverPending,
    wire   <- tx # NoTx

\* tick() and the calls around it implement CoreContract: a fault is left only
\* through a recover() issued after the last fault entry, motion starts only
\* in a healthy stream, and TX follows health at the end of every tick.
ContractHolds == Contract!Spec
=============================================================================
