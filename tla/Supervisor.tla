----------------------------- MODULE Supervisor -----------------------------
(***************************************************************************)
(* The policy layer above the core: the watch loop, the single-flight      *)
(* recovery ladder, the ARM gate, the SYST-348 flow, the gripper's         *)
(* fail-fast gate, shutdown() and the driver's reconnect() and close().    *)
(*                                                                         *)
(* Threads: the watch loop, the ladder threads it spawns (Autos), callers  *)
(* of recover() (Users), and the thread that closes or reconnects.  Every  *)
(* lock region and every snapshot read is a step of its own; RMI calls end *)
(* as the session's condition says.  The core is reduced to what its       *)
(* snapshot shows: conditions, mode, latched fault, outstanding recover(). *)
(* Time is abstract: a cooldown and a settle delay elapse when they like,  *)
(* and a bounded wait may end at any step.                                 *)
(***************************************************************************)
EXTENDS FiniteSets, Naturals

CONSTANTS
    Autos,       \* ladder threads the watch loop may have alive (a bound)
    Users,       \* threads calling recover()
    Conditions,  \* the gate conditions that occur
    Trips,       \* the faults that occur with no gate condition behind them
    RmiFaults,   \* how an RMI session may fail
    Reconnects,  \* policy.recovery_reconnect_attempts
    MaxEvents    \* bound: how often something goes wrong, or recover(), close()
                 \* or reconnect() is called

Ladders == Autos \cup Users

\* Gate conditions, most severe first (process_gates).
Severity == <<"E_STOP", "IN_ERROR", "TEACH_MODE", "CONTACT_STOP",
              "SAFETY_CLAMP", "MOTION_NOT_POSSIBLE">>
ArmFaults == {"E_STOP", "IN_ERROR"}
DegradedFaults == {"TEACH_MODE", "CONTACT_STOP", "SAFETY_CLAMP"}
LoopFaults == {"WATCHDOG_EXPIRED", "RX_DEGRADED", "SUPERVISOR_LOST", "RX_SILENT"}

ASSUME SupervisorAssumption ==
    /\ Autos \cap Users = {}
    /\ Conditions \subseteq {Severity[i] : i \in 1..6}
    /\ Trips \subseteq LoopFaults
    /\ RmiFaults \subseteq {"error", "syst348", "down"}
    /\ Reconnects \in Nat
    /\ MaxEvents \in Nat

Faults == Conditions \cup Trips \cup {"NONE"}
Modes == {"HOLD", "SAFE_FOLLOW", "RX_SILENT"}
States == {"STREAMING", "DEGRADED", "FAULTED", "RECOVERING", "DISCONNECTED",
           "RMI_CONNECTING", "SM_HANDSHAKE", "SHUTTING_DOWN"}

VARIABLES
    \* the core's snapshot, and the link and session it rests on
    held, coreMode, coreFault, asked, coreUp, linkUp, rmi,
    \* Supervisor, guarded by _lock
    state, faultReason, operatorRequired, motionInhibited,
    \* Supervisor, guarded by _recovery_lock or by nothing
    recovering, cooling, faultSince, prevTp, stopEvt,
    \* GripperWorker._recovering
    gripperGate,
    \* threads: where each is, and what it has read
    watch, seen, pc, saw, tries, ok, main,
    \* what the bound counts
    events,
    \* history: shutdown() has been called; an arm-class fault was recorded, an
    \* e-stop was latched, since the last arm()
    wasShut, recorded, pressed

coreVars == <<held, coreMode, coreFault, asked, coreUp, linkUp>>
lockVars == <<state, faultReason, operatorRequired, motionInhibited, recorded>>
freeVars == <<recovering, cooling, faultSince, prevTp, stopEvt, gripperGate>>
ladderVars == <<pc, saw, tries, ok>>
watchVars == <<watch, seen>>
mainVars == <<main, wasShut>>
\* What a step of the surroundings, of a ladder, of the watch loop or of the
\* closing thread leaves to the others.
driverVars == <<lockVars, freeVars, watchVars, ladderVars, mainVars>>
ladderOthers == <<coreVars, rmi, watchVars, mainVars, events, pressed>>
watchOthers == <<coreVars, rmi, mainVars, events, pressed>>
mainOthers == <<rmi, ladderVars, pressed>>
vars == <<coreVars, rmi, lockVars, freeVars, watchVars, ladderVars, mainVars,
          events, pressed>>


MotionPossible == "MOTION_NOT_POSSIBLE" \notin held
Commandable == state = "STREAMING" /\ ~motionInhibited

\* lifecycle.classify, with rmi_down left at its default as every caller does.
Classify(mode, fault) ==
    IF mode = "HOLD" /\ fault = "NONE" THEN "STREAMING"
    ELSE IF fault \in DegradedFaults THEN "DEGRADED" ELSE "FAULTED"

\* Conditions only a human clears.
Human == {"TEACH_MODE", "E_STOP", "IN_ERROR"}

\* What a thread keeps of the snapshot it has read.
Snap == [observed |-> Classify(coreMode, coreFault), fault |-> coreFault,
         human |-> held \cap Human # {}]
Unread == [observed |-> "STREAMING", fault |-> "NONE", human |-> FALSE]

Init ==
    /\ held = {} /\ coreMode = "HOLD" /\ coreFault = "NONE"
    /\ asked = FALSE /\ coreUp = TRUE /\ linkUp = TRUE /\ rmi = "ok"
    /\ state = "STREAMING" /\ faultReason = "NONE"
    /\ operatorRequired = FALSE /\ motionInhibited = FALSE
    /\ recovering = FALSE /\ cooling = FALSE /\ faultSince = "none"
    /\ prevTp = FALSE /\ stopEvt = FALSE /\ gripperGate = FALSE
    /\ watch = "wait" /\ seen = Unread
    /\ pc = [l \in Ladders |-> "idle"]
    /\ saw = [l \in Ladders |-> Unread]
    /\ tries = [l \in Ladders |-> 0]
    /\ ok = [l \in Ladders |-> FALSE]
    /\ main = "open" /\ wasShut = FALSE /\ events = 0
    /\ recorded = FALSE /\ pressed = FALSE

-----------------------------------------------------------------------------
(***************************************************************************)
(* The core and its surroundings.                                          *)
(***************************************************************************)

\* Something goes wrong or is asked for, within the bound.
Event == events < MaxEvents /\ events' = events + 1

\* enter_fault: the new cause replaces the latched one.
EnterFault(f) ==
    /\ coreMode' = "SAFE_FOLLOW"
    /\ coreFault' = f
    /\ asked' = FALSE

Rising(h) ==
    LET rises == {i \in 1..6 : Severity[i] \in h \ held}
    IN  Severity[CHOOSE i \in rises : \A j \in rises : i <= j]

\* A status packet carries the conditions h.
Packet(h) ==
    /\ coreUp /\ linkUp /\ h # held
    /\ held' = h
    /\ IF h \subseteq held
       THEN UNCHANGED <<coreMode, coreFault, asked, events>>
       ELSE EnterFault(Rising(h)) /\ Event
    /\ pressed' = (pressed \/ (~(h \subseteq held) /\ Rising(h) = "E_STOP"))
    /\ UNCHANGED <<driverVars, coreUp, linkUp, rmi>>

\* A fault of the tick loop itself: a deadman or a degraded link in mid-motion, or
\* a lapse of the heartbeat.  HOLD stands for every mode that moves or holds the arm.
Trip ==
    /\ coreUp /\ coreMode = "HOLD" /\ Event
    /\ \E f \in Trips \ {"RX_SILENT"} : EnterFault(f)
    /\ UNCHANGED <<driverVars, held, coreUp, linkUp, rmi, pressed>>

\* The link is silent for the park time (enter_rx_silent keeps recover_pending_).
LinkDrops ==
    /\ coreUp /\ linkUp /\ "RX_SILENT" \in Trips /\ Event
    /\ linkUp' = FALSE
    /\ coreMode' = "RX_SILENT" /\ coreFault' = "RX_SILENT"
    /\ UNCHANGED <<driverVars, held, asked, coreUp, rmi, pressed>>

LinkReturns ==
    /\ ~linkUp /\ linkUp' = TRUE
    /\ UNCHANGED <<driverVars, held, coreMode, coreFault, asked, coreUp, rmi,
                   pressed, events>>

\* The all-clear dwell of an outstanding recover() completes.
Dwell ==
    /\ coreUp /\ linkUp /\ asked /\ held = {}
    /\ coreMode' = "HOLD" /\ coreFault' = "NONE" /\ asked' = FALSE
    /\ UNCHANGED <<driverVars, held, coreUp, linkUp, rmi, pressed, events>>

\* The RMI session becomes healthy or sick.
RmiChanges ==
    /\ \/ rmi # "ok" /\ rmi' = "ok" /\ UNCHANGED events
       \/ rmi = "ok" /\ rmi' \in RmiFaults /\ Event
    /\ UNCHANGED <<driverVars, coreVars, pressed>>

\* request_recover: taken by the next tick, and only in a fault mode.
AskCore == asked' = (asked \/ coreMode # "HOLD")

\* Long enough passes for the cooldown and the settle delay both to have run out.
\* One without the other holds an attempt back just as well.
TimePasses ==
    /\ cooling \/ faultSince = "young"
    /\ cooling' = FALSE
    /\ faultSince' = IF faultSince = "young" THEN "old" ELSE faultSince
    /\ UNCHANGED <<ladderOthers, lockVars, recovering, prevTp, stopEvt,
                   gripperGate, ladderVars>>

-----------------------------------------------------------------------------
(***************************************************************************)
(* State changes under _lock.                                              *)
(***************************************************************************)

\* The ARM gate latches on every fault recorded, not on a recovery from it.
LatchesArm(f) == f \in ArmFaults

\* Mutant: the gate latches when a recovery from the fault succeeds.
BugLatchOnSuccess(s, f) ==
    /\ state' = s
    /\ faultReason' = f
    /\ motionInhibited' = (\/ motionInhibited
                           \/ /\ s = "STREAMING" /\ state = "RECOVERING"
                              /\ LatchesArm(faultReason))
    /\ recorded' = (recorded \/ f \in ArmFaults)

\* _set_state_locked
SetState(s, f) ==
    /\ state' = s
    /\ faultReason' = f
    /\ motionInhibited' = (motionInhibited \/ LatchesArm(f))
    /\ recorded' = (recorded \/ f \in ArmFaults)

KeepState == UNCHANGED <<state, faultReason, motionInhibited, recorded>>

Arm ==
    /\ motionInhibited \/ pressed \/ recorded
    /\ motionInhibited' = FALSE
    /\ recorded' = FALSE /\ pressed' = FALSE
    /\ UNCHANGED <<coreVars, rmi, state, faultReason, operatorRequired, freeVars,
                   watchVars, ladderVars, mainVars, events>>

-----------------------------------------------------------------------------
(***************************************************************************)
(* The watch loop: read the snapshot, record the state, decide.            *)
(***************************************************************************)

\* TEACH -> AUTO clears the cooldown.
WatchSnap ==
    /\ watch = "wait" /\ ~stopEvt
    /\ watch' = "record"
    /\ seen' = Snap
    /\ cooling' = (cooling /\ ~(prevTp /\ "TEACH_MODE" \notin held))
    /\ prevTp' = ("TEACH_MODE" \in held)
    /\ UNCHANGED <<watchOthers, lockVars, recovering, faultSince, stopEvt,
                   gripperGate, ladderVars>>

\* A ladder in progress, or a shutdown, owns the state.
WatchMayRecord == state # "SHUTTING_DOWN" /\ ~recovering

\* Mutant: every tick that sees the fault restarts the delay.
BugTimerRestarts == "young"

\* The settle delay runs from the first tick that saw the fault.
FaultTimer == IF faultSince = "none" THEN "young" ELSE faultSince

WatchRecord ==
    /\ watch = "record"
    /\ watch' = "decide"
    /\ IF ~WatchMayRecord
       THEN KeepState /\ UNCHANGED faultSince
       ELSE IF seen.observed = "STREAMING"
       THEN SetState("STREAMING", "NONE") /\ faultSince' = "none"
       ELSE /\ SetState(seen.observed, seen.fault)
            /\ faultSince' = FaultTimer
    /\ UNCHANGED <<watchOthers, operatorRequired, recovering, cooling, prevTp,
                   stopEvt, gripperGate, seen, ladderVars>>

\* _maybe_auto_recover
AutoRecovers ==
    /\ seen.observed # "STREAMING"
    /\ ~recovering
    /\ ~seen.human
    /\ ~cooling
    /\ faultSince = "old"

\* _syst348_watch: the alarm is gone once the session answers and shows none.
OperatorDone == rmi = "ok"

WatchDecide ==
    /\ watch = "decide"
    /\ watch' = "wait" /\ seen' = Unread
    /\ \/ /\ operatorRequired
          /\ operatorRequired' = ~OperatorDone
          /\ cooling' = (cooling /\ ~OperatorDone)
          /\ UNCHANGED pc
       \/ /\ ~operatorRequired /\ AutoRecovers
          /\ \E a \in Autos : pc[a] = "idle" /\ pc' = [pc EXCEPT ![a] = "spawned"]
          /\ UNCHANGED <<operatorRequired, cooling>>
       \/ /\ ~operatorRequired
          /\ ~AutoRecovers \/ \A a \in Autos : pc[a] # "idle"
          /\ UNCHANGED <<operatorRequired, cooling, pc>>
    /\ UNCHANGED <<watchOthers, state, faultReason, motionInhibited, recorded,
                   recovering, faultSince, prevTp, stopEvt, gripperGate, saw, tries, ok>>

WatchExit ==
    /\ watch = "wait" /\ stopEvt
    /\ watch' = "off"
    /\ UNCHANGED <<watchOthers, lockVars, freeVars, seen, ladderVars>>

Watch == WatchSnap \/ WatchRecord \/ WatchDecide \/ WatchExit

-----------------------------------------------------------------------------
(***************************************************************************)
(* The recovery ladder of thread l.                                        *)
(***************************************************************************)

Go(l, from, to) == pc[l] = from /\ pc' = [pc EXCEPT ![l] = to]

\* recover() by a caller.
CallRecover(l) ==
    /\ l \in Users /\ main # "closed" /\ Go(l, "idle", "spawned")
    /\ Event
    /\ UNCHANGED <<coreVars, rmi, lockVars, freeVars, watchVars, saw, tries, ok,
                   mainVars, pressed>>

\* Single flight, under _recovery_lock.
LadderBegin(l) ==
    /\ IF recovering THEN Go(l, "spawned", "idle") /\ UNCHANGED recovering
       ELSE /\ Go(l, "spawned", "gate")
            /\ recovering' = TRUE
    /\ UNCHANGED <<ladderOthers, lockVars, cooling, faultSince, prevTp, stopEvt,
                   gripperGate, saw, tries, ok>>

LadderGate(l) ==
    /\ Go(l, "gate", "mark") /\ gripperGate' = TRUE
    /\ UNCHANGED <<ladderOthers, lockVars, recovering, cooling, faultSince,
                   prevTp, stopEvt, saw, tries, ok>>

LadderMark(l) ==
    /\ Go(l, "mark", "check") /\ SetState("RECOVERING", faultReason)
    /\ UNCHANGED <<ladderOthers, operatorRequired, freeVars, saw, tries, ok>>

LadderRefused(l) ==
    \/ held \cap {"E_STOP", "TEACH_MODE"} # {}
    \/ operatorRequired /\ l \in Autos

LadderCheck(l) ==
    /\ IF LadderRefused(l) THEN Go(l, "check", "ungate") /\ UNCHANGED cooling
       ELSE Go(l, "check", "reset") /\ cooling' = TRUE
    /\ UNCHANGED <<ladderOthers, lockVars, recovering, faultSince, prevTp,
                   stopEvt, gripperGate, saw, tries, ok>>

\* What an RMI step leads to; SYST-348 refuses the FRC_Call only.
AfterReset ==
    CASE rmi \in {"ok", "syst348"} -> "abort"
      [] rmi = "error" -> "ungate"
      [] rmi = "down" -> "reconnect"

AfterCall ==
    CASE rmi = "ok" -> "motion"
      [] rmi = "syst348" -> "operator"
      [] rmi = "error" -> "ungate"
      [] rmi = "down" -> "reconnect"

\* _abort_recovery
Aborts == held \cap {"E_STOP", "TEACH_MODE"} # {} \/ coreMode = "RX_SILENT"

Waited(l, from, to, pred) ==
    \/ pred /\ Go(l, from, to)
    \/ (stopEvt \/ ~pred) /\ Go(l, from, "ungate")

\* Steps that only move on: RMI traffic, polls of the snapshot, bounded waits.
LadderMoves(l) ==
    /\ \/ Go(l, "reset", AfterReset)
       \/ Go(l, "abort", IF Aborts THEN "ungate" ELSE "call")
       \/ Go(l, "call", AfterCall)
       \/ Waited(l, "motion", "ask", MotionPossible)
       \/ Waited(l, "hold", "tail", coreMode = "HOLD")
    /\ UNCHANGED <<ladderOthers, lockVars, freeVars, saw, tries, ok>>

\* Mutant: one reconnect more than the policy allows.
BugBudgetLoose(l) == tries[l] > Reconnects

BudgetSpent(l) == tries[l] = Reconnects

\* _relaunch_stream_motn_via_reconnect: poll, then reopen, reset and call.
LadderReconnect(l) ==
    /\ \/ /\ Go(l, "reconnect",
                IF Aborts \/ BudgetSpent(l) THEN "ungate" ELSE "reopen")
          /\ tries' = [tries EXCEPT ![l] = IF Aborts \/ BudgetSpent(l) THEN 0 ELSE @ + 1]
       \/ /\ rmi \in {"error", "down"} /\ Go(l, "reopen", "reconnect")
          /\ UNCHANGED tries
       \/ /\ rmi \in {"ok", "syst348"} /\ Go(l, "reopen", AfterCall)
          /\ tries' = [tries EXCEPT ![l] = 0]
    /\ UNCHANGED <<ladderOthers, lockVars, freeVars, saw, ok>>

\* _enter_operator_required
LadderOperator(l) ==
    /\ Go(l, "operator", "ungate")
    /\ operatorRequired' = TRUE
    /\ state' = "FAULTED" /\ motionInhibited' = TRUE /\ recorded' = TRUE
    /\ UNCHANGED <<ladderOthers, faultReason, freeVars, saw, tries, ok>>

LadderAsk(l) ==
    /\ Go(l, "ask", "hold") /\ AskCore
    /\ UNCHANGED <<held, coreMode, coreFault, coreUp, linkUp, rmi, lockVars,
                   freeVars, watchVars, saw, tries, ok, mainVars, pressed, events>>

LadderTail(l) ==
    /\ Go(l, "tail", "ungate")
    /\ ok' = [ok EXCEPT ![l] = TRUE]
    /\ operatorRequired' = FALSE
    /\ faultSince' = "none"
    /\ SetState("STREAMING", "NONE")
    /\ UNCHANGED <<ladderOthers, recovering, cooling, prevTp, stopEvt,
                   gripperGate, saw, tries>>

\* Mutant: a ladder that failed leaves the gripper locked out.
BugUngateOnSuccess(l) ==
    /\ Go(l, "ungate", "clear") /\ gripperGate' = (gripperGate /\ ~ok[l])
    /\ UNCHANGED <<recovering, ok>>

\* The finally block: first the gripper's gate, then single flight.
LadderUngate(l) ==
    /\ Go(l, "ungate", "clear") /\ gripperGate' = FALSE
    /\ UNCHANGED <<recovering, ok>>

LadderClear(l) ==
    /\ Go(l, "clear", IF ok[l] THEN "idle" ELSE "look") /\ recovering' = FALSE
    /\ ok' = [ok EXCEPT ![l] = FALSE]
    /\ UNCHANGED gripperGate

\* Mutant: single flight ends before the gripper's gate is released.
BugFlightFirst(l) ==
    /\ \/ /\ Go(l, "ungate", "clear") /\ recovering' = FALSE
          /\ UNCHANGED <<gripperGate, ok>>
       \/ /\ Go(l, "clear", IF ok[l] THEN "idle" ELSE "look") /\ gripperGate' = FALSE
          /\ ok' = [ok EXCEPT ![l] = FALSE]
          /\ UNCHANGED recovering
    /\ UNCHANGED <<ladderOthers, lockVars, cooling, faultSince, prevTp, stopEvt,
                   saw, tries>>

LadderFinally(l) ==
    /\ LadderUngate(l) \/ LadderClear(l)
    /\ UNCHANGED <<ladderOthers, lockVars, cooling, faultSince, prevTp, stopEvt,
                   saw, tries>>

\* _reclassify_now: a snapshot, then the state it shows.
LadderLook(l) ==
    /\ Go(l, "look", "restore") /\ saw' = [saw EXCEPT ![l] = Snap]
    /\ UNCHANGED <<ladderOthers, lockVars, freeVars, tries, ok>>

LadderRestore(l) ==
    /\ Go(l, "restore", "idle")
    /\ saw' = [saw EXCEPT ![l] = Unread]
    /\ IF state = "SHUTTING_DOWN" THEN KeepState
       ELSE SetState(saw[l].observed, saw[l].fault)
    /\ UNCHANGED <<ladderOthers, operatorRequired, freeVars, tries, ok>>

Ladder(l) ==
    \/ LadderBegin(l) \/ LadderGate(l) \/ LadderMark(l) \/ LadderCheck(l)
    \/ LadderMoves(l) \/ LadderReconnect(l) \/ LadderOperator(l) \/ LadderAsk(l)
    \/ LadderTail(l) \/ LadderFinally(l) \/ LadderLook(l) \/ LadderRestore(l)

-----------------------------------------------------------------------------
(***************************************************************************)
(* close() and reconnect(): shutdown(), then the teardown or the rebuild.  *)
(***************************************************************************)

Main(from, to) == main \in from /\ main' = to

MainShutdown ==
    /\ Main({"open", "down"}, "stop")
    /\ Event /\ wasShut' = TRUE
    /\ SetState("SHUTTING_DOWN", faultReason)
    /\ UNCHANGED <<mainOthers, coreVars, operatorRequired, freeVars, watchVars>>

MainStop ==
    /\ Main({"stop"}, "join") /\ stopEvt' = TRUE
    /\ UNCHANGED <<mainOthers, coreVars, lockVars, recovering, cooling,
                   faultSince, prevTp, gripperGate, watchVars, wasShut, events>>

\* The watch thread is joined, as if within its bound: a tick that outlives the join
\* is left out.  The wait for a ladder is bounded too, and may give up.
MainJoin ==
    /\ \/ Main({"join"}, "await") /\ watch = "off"
       \/ Main({"await"}, "quiet")
    /\ UNCHANGED <<mainOthers, coreVars, lockVars, freeVars, watchVars, wasShut, events>>

MainClose ==
    /\ Main({"quiet"}, "closed") /\ coreUp' = FALSE
    /\ UNCHANGED <<mainOthers, held, coreMode, coreFault, asked, linkUp,
                   lockVars, freeVars, watchVars, wasShut, events>>

\* reconnect() holds the gripper's gate across the whole rebuild.
MainGate ==
    /\ Main({"quiet"}, "gated")
    /\ gripperGate' = TRUE
    /\ UNCHANGED <<mainOthers, coreVars, lockVars, recovering, cooling,
                   faultSince, prevTp, stopEvt, watchVars, wasShut, events>>

\* The core stops and keeps what it has latched; bring-up starts it again.
MainTeardown ==
    /\ Main({"gated"}, "torn") /\ coreUp' = FALSE
    /\ UNCHANGED <<mainOthers, held, coreMode, coreFault, asked, linkUp,
                   lockVars, freeVars, watchVars, wasShut, events>>

MainBringup ==
    /\ Main({"torn"}, "handshake")
    /\ stopEvt' = FALSE /\ coreUp' = TRUE
    /\ SetState("SM_HANDSHAKE", "NONE")
    /\ UNCHANGED <<mainOthers, held, coreMode, coreFault, asked, linkUp,
                   operatorRequired, recovering, cooling, faultSince, prevTp, gripperGate, watchVars, wasShut, events>>

\* Wait for HOLD, then for motion_possible to stay: a drop relaunches.
MainSettle ==
    /\ \/ Main({"handshake"}, "settle") /\ coreMode = "HOLD" /\ UNCHANGED asked
       \/ Main({"settle"}, "relaunch") /\ ~MotionPossible /\ UNCHANGED asked
       \/ Main({"relaunch"}, "settle") /\ MotionPossible /\ AskCore
    /\ UNCHANGED <<mainOthers, held, coreMode, coreFault, coreUp, linkUp,
                   lockVars, freeVars, watchVars, wasShut, events>>

MainStreaming ==
    /\ Main({"settle"}, "rebuilt") /\ MotionPossible
    /\ SetState("STREAMING", "NONE")
    /\ watch' = "wait"
    /\ UNCHANGED <<mainOthers, coreVars, operatorRequired, freeVars, seen,
                   wasShut, events>>

\* Every retry failed, or a preflight block ended the bring-up at once.
MainFails ==
    /\ \/ /\ Main({"torn", "handshake", "settle", "relaunch"}, "failed")
          /\ SetState("DISCONNECTED", "NONE")
       \/ /\ Main({"torn"}, "failed")
          /\ SetState("RMI_CONNECTING", "NONE")
    /\ coreUp' = FALSE /\ stopEvt' = FALSE
    /\ UNCHANGED <<mainOthers, held, coreMode, coreFault, asked, linkUp,
                   operatorRequired, recovering, cooling, faultSince, prevTp, gripperGate, watchVars, wasShut, events>>

MainUngate ==
    /\ Main({"rebuilt"}, "open") \/ Main({"failed"}, "down")
    /\ gripperGate' = FALSE
    /\ UNCHANGED <<mainOthers, coreVars, lockVars, recovering, cooling,
                   faultSince, prevTp, stopEvt, watchVars, wasShut, events>>

\* What goes on by itself once close() or reconnect() has been called.
MainGoesOn ==
    \/ MainStop \/ MainJoin \/ MainClose \/ MainGate \/ MainTeardown
    \/ MainBringup \/ MainSettle \/ MainStreaming \/ MainFails \/ MainUngate

-----------------------------------------------------------------------------
Surroundings ==
    \/ \E h \in SUBSET Conditions : Packet(h)
    \/ Trip \/ LinkDrops \/ LinkReturns \/ RmiChanges

Next ==
    \/ Surroundings \/ Dwell \/ TimePasses
    \/ Arm
    \/ Watch
    \/ \E l \in Ladders : CallRecover(l) \/ Ladder(l)
    \/ MainShutdown \/ MainGoesOn

Spec == Init /\ [][Next]_vars

\* The RT loop ticks, time passes, and threads that are not waiting for a call
\* go on.  Nobody need call recover(), arm(), reconnect() or close().  The fairness
\* of a thread is spelled out: each of its steps moves its program counter, and
\* away from its places of rest one of them is always possible.
MainAtRest == main \in {"open", "down", "closed"} \/ (main = "join" /\ watch # "off")

FairSpec ==
    /\ Spec
    /\ WF_vars(Dwell) /\ WF_vars(TimePasses)
    /\ []<>(watch = "off") \/ []<><<watch' # watch>>_watch
    /\ \A l \in Ladders : []<>(pc[l] = "idle") \/ []<><<pc'[l] # pc[l]>>_pc
    /\ []<>MainAtRest \/ []<><<main' # main>>_main

-----------------------------------------------------------------------------
Snaps == [observed : {"STREAMING", "DEGRADED", "FAULTED"}, fault : Faults, human : BOOLEAN]

LadderSteps ==
    {"idle", "spawned", "gate", "mark", "check", "reset", "abort", "call",
     "reconnect", "reopen", "operator", "motion", "ask", "hold", "tail",
     "ungate", "clear", "look", "restore"}

\* Every variable keeps its range; a ladder never exceeds its reconnect budget.
TypeOK ==
    /\ held \subseteq Conditions /\ coreMode \in Modes /\ coreFault \in Faults
    /\ asked \in BOOLEAN /\ coreUp \in BOOLEAN /\ linkUp \in BOOLEAN
    /\ rmi \in RmiFaults \cup {"ok"}
    /\ state \in States /\ faultReason \in Faults
    /\ operatorRequired \in BOOLEAN /\ motionInhibited \in BOOLEAN
    /\ recovering \in BOOLEAN /\ cooling \in BOOLEAN /\ prevTp \in BOOLEAN
    /\ stopEvt \in BOOLEAN /\ gripperGate \in BOOLEAN
    /\ faultSince \in {"none", "young", "old"}
    /\ watch \in {"wait", "record", "decide", "off"} /\ seen \in Snaps
    /\ pc \in [Ladders -> LadderSteps] /\ saw \in [Ladders -> Snaps]
    /\ tries \in [Ladders -> 0..Reconnects] /\ ok \in [Ladders -> BOOLEAN]
    /\ main \in {"open", "stop", "join", "await", "quiet", "closed", "gated",
                 "torn", "handshake", "settle", "relaunch", "rebuilt",
                 "failed", "down"}
    /\ events \in 0..MaxEvents
    /\ wasShut \in BOOLEAN /\ recorded \in BOOLEAN /\ pressed \in BOOLEAN

\* A ladder between setting the gripper's gate and releasing it.
Gated == LadderSteps \ {"idle", "spawned", "gate", "clear", "look", "restore"}

\* From the moment a ladder has set the gripper's fail-fast gate to the moment it
\* releases it, no other ladder has released it: a second recover() cannot open the
\* gate under a running ladder (_run_recovery_ladder's finally block).  reconnect()
\* drives the same flag without the single-flight lock, so this is said of a driver
\* that has not been shut down.
LadderGated ==
    ~wasShut => \A l \in Ladders : pc[l] \in Gated => gripperGate

\* Once a fault that needs a human has been recorded, on whatever path (a watch
\* tick, a failed ladder, SYST-348), no recovery, rebuild or shutdown makes the
\* robot commandable again before arm() (the ARM gate of _set_state_locked).
RecordedNeedsArm == recorded => ~Commandable

\* docs/safety.md: after an e-stop, motion stays refused until arm().  Said of a
\* core that has latched an e-stop and has since recovered, in a driver that was
\* never shut down.
EStopNeedsArm == ~wasShut /\ pressed /\ coreFault = "NONE" => ~Commandable

\* Nothing is wrong, and nobody is closing the driver.
Calm == held = {} /\ linkUp /\ rmi = "ok" /\ main = "open"

\* If from some time on every condition is clear, auto-recovery brings the robot
\* back: no refused, aborted or failed ladder, no lost timer and no operator latch
\* leaves it waiting for ever (_watch_tick and the ladder together).
FaultsHeal ==
    <>[](Calm /\ coreMode # "RX_SILENT")
        => []<>(state = "STREAMING" /\ coreMode = "HOLD")

\* No ladder and no rebuild leaves a trace: whatever step fails, the gripper's gate is
\* lowered again, and the published state does not stay RECOVERING but shows what the
\* core shows (_run_recovery_ladder's finally clause, _reclassify_now, reconnect()).
RecoveryLetsGo ==
    /\ gripperGate ~> ~gripperGate
    /\ state = "RECOVERING" ~> state # "RECOVERING"
=============================================================================
