-------------------------- MODULE SupervisorProofs --------------------------
(***************************************************************************)
(* Proofs about Supervisor, for any number of automatic ladders and callers*)
(* of recover(), any set of conditions, trips and RMI faults, any reconnect*)
(* budget and any number of events.                                        *)
(***************************************************************************)
EXTENDS Supervisor, TLAPS

-----------------------------------------------------------------------------
(* Types.                                                                  *)

\* TypeOK in two parts, each for the backend that knows it.
FlagsOK ==
    /\ asked \in BOOLEAN /\ coreUp \in BOOLEAN /\ linkUp \in BOOLEAN
    /\ operatorRequired \in BOOLEAN /\ motionInhibited \in BOOLEAN
    /\ recovering \in BOOLEAN /\ cooling \in BOOLEAN /\ prevTp \in BOOLEAN
    /\ stopEvt \in BOOLEAN /\ gripperGate \in BOOLEAN
    /\ wasShut \in BOOLEAN /\ recorded \in BOOLEAN /\ pressed \in BOOLEAN

PlacesOK ==
    /\ held \subseteq Conditions /\ coreMode \in Modes /\ coreFault \in Faults
    /\ rmi \in RmiFaults \cup {"ok"}
    /\ state \in States /\ faultReason \in Faults
    /\ faultSince \in {"none", "young", "old"}
    /\ watch \in {"wait", "record", "decide", "off"} /\ seen \in Snaps
    /\ pc \in [Ladders -> LadderSteps] /\ saw \in [Ladders -> Snaps]
    /\ tries \in [Ladders -> 0..Reconnects] /\ ok \in [Ladders -> BOOLEAN]
    /\ main \in {"open", "stop", "join", "await", "quiet", "closed", "gated",
                 "torn", "handshake", "settle", "relaunch", "rebuilt",
                 "failed", "down"}
    /\ events \in 0..MaxEvents

LEMMA TypeParts == TypeOK <=> FlagsOK /\ PlacesOK
  BY DEF TypeOK, FlagsOK, PlacesOK

\* process_gates faults on a condition that rises.
LEMMA RisingIsCondition ==
    ASSUME NEW h \in SUBSET Conditions, ~(h \subseteq held)
    PROVE  Rising(h) \in Conditions
  <1> DEFINE rises == {i \in 1..6 : Severity[i] \in h \ held}
  <1>1. PICK x \in h : x \notin held
    OBVIOUS
  <1>2. PICK n \in 1..6 : x = Severity[n]
    BY <1>1, SupervisorAssumption
  <1>3. \E i \in rises : \A j \in rises : i <= j
    <2> HIDE DEF rises
    <2>1. n \in rises /\ rises \subseteq 1..6
      BY <1>1, <1>2 DEF rises
    <2> QED
      BY <2>1
  <1>4. \A i \in rises : Severity[i] \in Conditions
    OBVIOUS
  <1> QED
    BY <1>3, <1>4 DEF Rising

\* What a thread keeps of the snapshot.
LEMMA SnapType ==
    ASSUME TypeOK
    PROVE  Snap \in Snaps
  BY DEF Snap, Snaps, Classify, TypeOK

\* Where an RMI exchange leads.
LEMMA AfterExchange ==
    ASSUME TypeOK
    PROVE  AfterReset \in LadderSteps /\ AfterCall \in LadderSteps
  BY SupervisorAssumption DEF TypeOK, AfterReset, AfterCall, LadderSteps

\* Every step keeps the flags Boolean.
LEMMA FlagsStep ==
    ASSUME FlagsOK, [Next]_vars
    PROVE  FlagsOK'
  <1> USE DEF coreVars, lockVars, freeVars, ladderVars, watchVars, mainVars, driverVars,
     ladderOthers, watchOthers, mainOthers, FlagsOK
  <1>1. CASE UNCHANGED vars
    BY <1>1 DEF vars
  <1>2. ASSUME NEW h \in SUBSET Conditions, Packet(h) PROVE FlagsOK'
    BY <1>2 DEF Packet, EnterFault, Event
  <1>3. CASE Trip
    BY <1>3 DEF Trip, EnterFault, Event
  <1>4. CASE LinkDrops
    BY <1>4 DEF LinkDrops, Event
  <1>5. CASE LinkReturns
    BY <1>5 DEF LinkReturns
  <1>6. CASE RmiChanges
    BY <1>6 DEF RmiChanges, Event
  <1>7. CASE Dwell
    BY <1>7 DEF Dwell
  <1>8. CASE TimePasses
    BY <1>8, ZenonT(60) DEF TimePasses
  <1>9. CASE Arm
    BY <1>9 DEF Arm
  <1>10. CASE WatchSnap
    BY <1>10 DEF WatchSnap, Snap, Classify
  <1>11. CASE WatchRecord
    <2>1. CASE KeepState
      BY <1>11, <2>1 DEF WatchRecord, KeepState
    <2>2. ASSUME NEW s, NEW f, SetState(s, f) PROVE FlagsOK'
      BY <1>11, <2>2 DEF WatchRecord, SetState, LatchesArm
    <2> QED
      BY <1>11, <2>1, <2>2 DEF WatchRecord
  <1>12. CASE WatchDecide
    <2>1. operatorRequired' \in BOOLEAN /\ cooling' \in BOOLEAN
      <3>1. CASE UNCHANGED <<operatorRequired, cooling>>
        BY <3>1
      <3>2. CASE operatorRequired' = ~OperatorDone /\ cooling' = (cooling /\ ~OperatorDone)
        BY <3>2
      <3> QED
        BY <1>12, <3>1, <3>2 DEF WatchDecide
    <2> QED
      BY <1>12, <2>1 DEF WatchDecide
  <1>13. CASE WatchExit
    BY <1>13 DEF WatchExit
  <1>14. CASE MainShutdown
    BY <1>14 DEF MainShutdown, Main, Event, SetState, LatchesArm
  <1>15. CASE MainStop
    BY <1>15 DEF MainStop, Main
  <1>16. CASE MainJoin
    BY <1>16 DEF MainJoin, Main
  <1>17. CASE MainClose
    BY <1>17, ZenonT(60) DEF MainClose, Main
  <1>18. CASE MainGate
    BY <1>18 DEF MainGate, Main
  <1>19. CASE MainTeardown
    BY <1>19, ZenonT(60) DEF MainTeardown, Main
  <1>20. CASE MainBringup
    BY <1>20 DEF MainBringup, Main, SetState, LatchesArm
  <1>21. CASE MainSettle
    <2>1. CASE UNCHANGED asked
      BY <1>21, <2>1 DEF MainSettle
    <2>2. CASE AskCore
      BY <1>21, <2>2 DEF MainSettle, AskCore
    <2> QED
      BY <1>21, <2>1, <2>2 DEF MainSettle
  <1>22. CASE MainStreaming
    BY <1>22 DEF MainStreaming, Main, SetState, LatchesArm, MotionPossible
  <1>23. CASE MainFails
    BY <1>23 DEF MainFails, Main, SetState, LatchesArm
  <1>24. CASE MainUngate
    BY <1>24, ZenonT(60) DEF MainUngate, Main
  <1>25. ASSUME NEW l \in Ladders, CallRecover(l) PROVE FlagsOK'
    BY <1>25 DEF CallRecover, Go, Event
  <1>26. ASSUME NEW l \in Ladders, LadderBegin(l) PROVE FlagsOK'
    BY <1>26, ZenonT(60) DEF LadderBegin, Go
  <1>27. ASSUME NEW l \in Ladders, LadderGate(l) PROVE FlagsOK'
    BY <1>27 DEF LadderGate, Go
  <1>28. ASSUME NEW l \in Ladders, LadderMark(l) PROVE FlagsOK'
    BY <1>28 DEF LadderMark, Go, SetState, LatchesArm
  <1>29. ASSUME NEW l \in Ladders, LadderCheck(l) PROVE FlagsOK'
    BY <1>29, ZenonT(60) DEF LadderCheck, Go
  <1>30. ASSUME NEW l \in Ladders, LadderMoves(l) PROVE FlagsOK'
    BY <1>30 DEF LadderMoves, Go, Waited
  <1>31. ASSUME NEW l \in Ladders, LadderReconnect(l) PROVE FlagsOK'
    BY <1>31 DEF LadderReconnect, Go, BudgetSpent
  <1>32. ASSUME NEW l \in Ladders, LadderOperator(l) PROVE FlagsOK'
    BY <1>32 DEF LadderOperator, Go
  <1>33. ASSUME NEW l \in Ladders, LadderAsk(l) PROVE FlagsOK'
    BY <1>33 DEF LadderAsk, Go, AskCore
  <1>34. ASSUME NEW l \in Ladders, LadderTail(l) PROVE FlagsOK'
    BY <1>34 DEF LadderTail, Go, SetState, LatchesArm
  <1>35. ASSUME NEW l \in Ladders, LadderFinally(l) PROVE FlagsOK'
    <2>1. CASE LadderUngate(l)
      BY <1>35, <2>1, ZenonT(60) DEF LadderFinally, LadderUngate, Go
    <2>2. CASE LadderClear(l)
      BY <1>35, <2>2, ZenonT(60) DEF LadderFinally, LadderClear, Go
    <2> QED
      BY <1>35, <2>1, <2>2 DEF LadderFinally
  <1>36. ASSUME NEW l \in Ladders, LadderLook(l) PROVE FlagsOK'
    BY <1>36 DEF LadderLook, Go, Snap, Classify
  <1>37. ASSUME NEW l \in Ladders, LadderRestore(l) PROVE FlagsOK'
    <2>1. CASE KeepState
      BY <1>37, <2>1 DEF LadderRestore, KeepState
    <2>2. ASSUME NEW s, NEW f, SetState(s, f) PROVE FlagsOK'
      BY <1>37, <2>2 DEF LadderRestore, SetState, LatchesArm
    <2> QED
      BY <1>37, <2>1, <2>2 DEF LadderRestore
  <1> QED
    BY <1>1, <1>2, <1>3, <1>4, <1>5, <1>6, <1>7, <1>8, <1>9, <1>10, <1>11, <1>12, <1>13,
       <1>14, <1>15, <1>16, <1>17, <1>18, <1>19, <1>20, <1>21, <1>22, <1>23, <1>24, <1>25,
       <1>26, <1>27, <1>28, <1>29, <1>30, <1>31, <1>32, <1>33, <1>34, <1>35, <1>36, <1>37
       DEF Next, Surroundings, Watch, MainGoesOn, Ladder

\* Every step keeps the other variables in their ranges.
LEMMA PlacesStep ==
    ASSUME TypeOK, [Next]_vars
    PROVE  PlacesOK'
  <1> USE SupervisorAssumption DEF coreVars, lockVars, freeVars, ladderVars, watchVars,
     mainVars, driverVars, ladderOthers, watchOthers, mainOthers, TypeOK, PlacesOK, Modes,
     Faults, States, LadderSteps
  <1>1. CASE UNCHANGED vars
    BY <1>1 DEF vars
  <1>2. ASSUME NEW h \in SUBSET Conditions, Packet(h) PROVE PlacesOK'
    BY <1>2, RisingIsCondition DEF Packet, EnterFault, Event
  <1>3. CASE Trip
    BY <1>3 DEF Trip, EnterFault, Event
  <1>4. CASE LinkDrops
    BY <1>4 DEF LinkDrops, Event
  <1>5. CASE LinkReturns
    BY <1>5 DEF LinkReturns
  <1>6. CASE RmiChanges
    BY <1>6 DEF RmiChanges, Event
  <1>7. CASE Dwell
    BY <1>7 DEF Dwell
  <1>8. CASE TimePasses
    BY <1>8 DEF TimePasses
  <1>9. CASE Arm
    BY <1>9 DEF Arm
  <1>10. CASE WatchSnap
    BY <1>10, SnapType DEF WatchSnap
  <1>11. CASE WatchRecord
    BY <1>11 DEF WatchRecord, FaultTimer, KeepState, SetState, LatchesArm, Snaps
  <1>12. CASE WatchDecide
    BY <1>12 DEF WatchDecide, OperatorDone, Unread, Snaps
  <1>13. CASE WatchExit
    BY <1>13 DEF WatchExit
  <1>14. CASE MainShutdown
    BY <1>14 DEF MainShutdown, Main, Event, SetState, LatchesArm
  <1>15. CASE MainStop
    BY <1>15 DEF MainStop, Main
  <1>16. CASE MainJoin
    BY <1>16 DEF MainJoin, Main
  <1>17. CASE MainClose
    BY <1>17 DEF MainClose, Main
  <1>18. CASE MainGate
    BY <1>18 DEF MainGate, Main
  <1>19. CASE MainTeardown
    BY <1>19 DEF MainTeardown, Main
  <1>20. CASE MainBringup
    BY <1>20 DEF MainBringup, Main, SetState, LatchesArm
  <1>21. CASE MainSettle
    BY <1>21 DEF MainSettle, Main, AskCore, MotionPossible
  <1>22. CASE MainStreaming
    BY <1>22 DEF MainStreaming, Main, SetState, LatchesArm, MotionPossible
  <1>23. CASE MainFails
    BY <1>23 DEF MainFails, Main, SetState, LatchesArm
  <1>24. CASE MainUngate
    BY <1>24 DEF MainUngate, Main
  <1>25. ASSUME NEW l \in Ladders, CallRecover(l) PROVE PlacesOK'
    BY <1>25 DEF CallRecover, Go, Event
  <1>26. ASSUME NEW l \in Ladders, LadderBegin(l) PROVE PlacesOK'
    BY <1>26 DEF LadderBegin, Go
  <1>27. ASSUME NEW l \in Ladders, LadderGate(l) PROVE PlacesOK'
    BY <1>27 DEF LadderGate, Go
  <1>28. ASSUME NEW l \in Ladders, LadderMark(l) PROVE PlacesOK'
    BY <1>28 DEF LadderMark, Go, SetState, LatchesArm
  <1>29. ASSUME NEW l \in Ladders, LadderCheck(l) PROVE PlacesOK'
    BY <1>29 DEF LadderCheck, Go
  <1>30. ASSUME NEW l \in Ladders, LadderMoves(l) PROVE PlacesOK'
    BY <1>30, AfterExchange DEF LadderMoves, Go, Waited
  <1>31. ASSUME NEW l \in Ladders, LadderReconnect(l) PROVE PlacesOK'
    BY <1>31, AfterExchange DEF LadderReconnect, Go, BudgetSpent
  <1>32. ASSUME NEW l \in Ladders, LadderOperator(l) PROVE PlacesOK'
    BY <1>32 DEF LadderOperator, Go
  <1>33. ASSUME NEW l \in Ladders, LadderAsk(l) PROVE PlacesOK'
    BY <1>33 DEF LadderAsk, Go, AskCore
  <1>34. ASSUME NEW l \in Ladders, LadderTail(l) PROVE PlacesOK'
    BY <1>34 DEF LadderTail, Go, SetState, LatchesArm
  <1>35. ASSUME NEW l \in Ladders, LadderFinally(l) PROVE PlacesOK'
    <2>1. CASE LadderUngate(l)
      BY <1>35, <2>1 DEF LadderFinally, LadderUngate, Go
    <2>2. CASE LadderClear(l)
      BY <1>35, <2>2 DEF LadderFinally, LadderClear, Go
    <2> QED
      BY <1>35, <2>1, <2>2 DEF LadderFinally
  <1>36. ASSUME NEW l \in Ladders, LadderLook(l) PROVE PlacesOK'
    BY <1>36, SnapType DEF LadderLook, Go
  <1>37. ASSUME NEW l \in Ladders, LadderRestore(l) PROVE PlacesOK'
    BY <1>37 DEF LadderRestore, Go, KeepState, SetState, LatchesArm, Unread, Snaps
  <1> QED
    BY <1>1, <1>2, <1>3, <1>4, <1>5, <1>6, <1>7, <1>8, <1>9, <1>10, <1>11, <1>12, <1>13,
       <1>14, <1>15, <1>16, <1>17, <1>18, <1>19, <1>20, <1>21, <1>22, <1>23, <1>24, <1>25,
       <1>26, <1>27, <1>28, <1>29, <1>30, <1>31, <1>32, <1>33, <1>34, <1>35, <1>36, <1>37
       DEF Next, Surroundings, Watch, MainGoesOn, Ladder

\* Every variable of the supervisor keeps its range whatever its threads do, and no
\* ladder exceeds policy.recovery_reconnect_attempts.
THEOREM TypesHold == Spec => []TypeOK
  <1>1. Init => TypeOK
    <2> SUFFICES ASSUME Init PROVE FlagsOK /\ PlacesOK
      BY TypeParts
    <2>1. FlagsOK
      BY DEF Init, FlagsOK
    <2>2. Unread \in Snaps
      BY DEF Unread, Snaps, Faults
    <2>3. PlacesOK
      BY <2>2, SupervisorAssumption DEF Init, PlacesOK, Modes, Faults, States, LadderSteps
    <2> QED
      BY <2>1, <2>3
  <1>2. TypeOK /\ [Next]_vars => TypeOK'
    BY TypeParts, FlagsStep, PlacesStep, PTL
  <1> QED
    BY <1>1, <1>2, PTL DEF Spec

-----------------------------------------------------------------------------
(* The ARM gate.                                                           *)

\* Whatever records a fault that needs a human also inhibits motion, and only arm()
\* takes back either.
ArmInv == recorded => motionInhibited

\* No step but arm() lowers the inhibition.
LEMMA ArmStep ==
    ASSUME ArmInv, [Next]_vars
    PROVE  ArmInv'
  <1> USE DEF coreVars, lockVars, freeVars, ladderVars, watchVars, mainVars, driverVars,
     ladderOthers, watchOthers, mainOthers, ArmInv
  <1>1. CASE UNCHANGED vars
    BY <1>1 DEF vars
  <1>2. ASSUME NEW h \in SUBSET Conditions, Packet(h) PROVE ArmInv'
    BY <1>2 DEF Packet
  <1>3. CASE Trip
    BY <1>3 DEF Trip
  <1>4. CASE LinkDrops
    BY <1>4 DEF LinkDrops
  <1>5. CASE LinkReturns
    BY <1>5 DEF LinkReturns
  <1>6. CASE RmiChanges
    BY <1>6 DEF RmiChanges
  <1>7. CASE Dwell
    BY <1>7 DEF Dwell
  <1>8. CASE TimePasses
    BY <1>8 DEF TimePasses
  <1>9. CASE Arm
    BY <1>9 DEF Arm
  <1>10. CASE WatchSnap
    BY <1>10 DEF WatchSnap
  <1>11. CASE WatchRecord
    BY <1>11 DEF WatchRecord, SetState, LatchesArm, KeepState
  <1>12. CASE WatchDecide
    BY <1>12 DEF WatchDecide
  <1>13. CASE WatchExit
    BY <1>13 DEF WatchExit
  <1>14. CASE MainShutdown
    BY <1>14 DEF MainShutdown, SetState, LatchesArm
  <1>15. CASE MainStop
    BY <1>15 DEF MainStop
  <1>16. CASE MainJoin
    BY <1>16 DEF MainJoin
  <1>17. CASE MainClose
    BY <1>17 DEF MainClose
  <1>18. CASE MainGate
    BY <1>18 DEF MainGate
  <1>19. CASE MainTeardown
    BY <1>19 DEF MainTeardown
  <1>20. CASE MainBringup
    BY <1>20 DEF MainBringup, SetState, LatchesArm
  <1>21. CASE MainSettle
    BY <1>21 DEF MainSettle
  <1>22. CASE MainStreaming
    BY <1>22 DEF MainStreaming, SetState, LatchesArm
  <1>23. CASE MainFails
    BY <1>23 DEF MainFails, SetState, LatchesArm
  <1>24. CASE MainUngate
    BY <1>24 DEF MainUngate
  <1>25. ASSUME NEW l \in Ladders, CallRecover(l) PROVE ArmInv'
    BY <1>25 DEF CallRecover
  <1>26. ASSUME NEW l \in Ladders, LadderBegin(l) PROVE ArmInv'
    BY <1>26 DEF LadderBegin
  <1>27. ASSUME NEW l \in Ladders, LadderGate(l) PROVE ArmInv'
    BY <1>27 DEF LadderGate
  <1>28. ASSUME NEW l \in Ladders, LadderMark(l) PROVE ArmInv'
    BY <1>28 DEF LadderMark, SetState, LatchesArm
  <1>29. ASSUME NEW l \in Ladders, LadderCheck(l) PROVE ArmInv'
    BY <1>29 DEF LadderCheck
  <1>30. ASSUME NEW l \in Ladders, LadderMoves(l) PROVE ArmInv'
    BY <1>30 DEF LadderMoves
  <1>31. ASSUME NEW l \in Ladders, LadderReconnect(l) PROVE ArmInv'
    BY <1>31 DEF LadderReconnect
  <1>32. ASSUME NEW l \in Ladders, LadderOperator(l) PROVE ArmInv'
    BY <1>32 DEF LadderOperator
  <1>33. ASSUME NEW l \in Ladders, LadderAsk(l) PROVE ArmInv'
    BY <1>33 DEF LadderAsk
  <1>34. ASSUME NEW l \in Ladders, LadderTail(l) PROVE ArmInv'
    BY <1>34 DEF LadderTail, SetState, LatchesArm
  <1>35. ASSUME NEW l \in Ladders, LadderFinally(l) PROVE ArmInv'
    BY <1>35 DEF LadderFinally
  <1>36. ASSUME NEW l \in Ladders, LadderLook(l) PROVE ArmInv'
    BY <1>36 DEF LadderLook
  <1>37. ASSUME NEW l \in Ladders, LadderRestore(l) PROVE ArmInv'
    BY <1>37 DEF LadderRestore, KeepState, SetState, LatchesArm
  <1> QED
    BY <1>1, <1>2, <1>3, <1>4, <1>5, <1>6, <1>7, <1>8, <1>9, <1>10, <1>11, <1>12, <1>13,
       <1>14, <1>15, <1>16, <1>17, <1>18, <1>19, <1>20, <1>21, <1>22, <1>23, <1>24, <1>25,
       <1>26, <1>27, <1>28, <1>29, <1>30, <1>31, <1>32, <1>33, <1>34, <1>35, <1>36, <1>37
       DEF Next, Surroundings, Watch, MainGoesOn, Ladder


\* Once a fault that needs a human has been recorded, no recovery, rebuild or shutdown
\* makes the robot commandable before arm(): _set_state_locked latches on every path.
THEOREM RecordedFaultNeedsArm == Spec => []RecordedNeedsArm
  <1>1. Init => ArmInv
    BY DEF Init, ArmInv
  <1>2. ArmInv /\ [Next]_vars => ArmInv'
    BY ArmStep
  <1>3. ArmInv => RecordedNeedsArm
    BY DEF ArmInv, RecordedNeedsArm, Commandable
  <1> QED
    BY <1>1, <1>2, <1>3, PTL DEF Spec

-----------------------------------------------------------------------------
(* Single flight, and the gripper's gate.                                  *)

\* A ladder past single flight and not yet out of its finally block.
Flying == LadderSteps \ {"idle", "spawned", "look", "restore"}

\* A driver that was never shut down has its closing thread at rest; a ladder that
\* flies holds single flight, alone; and the gate is up from its setting to its release.
FlightInv ==
    /\ pc \in [Ladders -> LadderSteps]
    /\ ~wasShut => main = "open"
    /\ \A l \in Ladders : pc[l] \in Flying => recovering
    /\ \A l, k \in Ladders : pc[l] \in Flying /\ pc[k] \in Flying => l = k
    /\ LadderGated

\* No second ladder takes off, and none opens the gate of another.
LEMMA FlightStep ==
    ASSUME TypeOK, FlightInv, [Next]_vars
    PROVE  FlightInv'
  <1> USE DEF coreVars, lockVars, freeVars, ladderVars, watchVars, mainVars, driverVars,
     ladderOthers, watchOthers, mainOthers, FlightInv, Flying, Gated, LadderGated,
     LadderSteps
  <1>1. CASE UNCHANGED vars
    BY <1>1 DEF vars
  <1>2. ASSUME NEW h \in SUBSET Conditions, Packet(h) PROVE FlightInv'
    BY <1>2 DEF Packet
  <1>3. CASE Trip
    BY <1>3 DEF Trip
  <1>4. CASE LinkDrops
    BY <1>4 DEF LinkDrops
  <1>5. CASE LinkReturns
    BY <1>5 DEF LinkReturns
  <1>6. CASE RmiChanges
    BY <1>6 DEF RmiChanges
  <1>7. CASE Dwell
    BY <1>7 DEF Dwell
  <1>8. CASE TimePasses
    BY <1>8 DEF TimePasses
  <1>9. CASE Arm
    BY <1>9 DEF Arm
  <1>10. CASE WatchSnap
    BY <1>10 DEF WatchSnap
  <1>11. CASE WatchRecord
    BY <1>11 DEF WatchRecord
  <1>12. CASE WatchDecide
    BY <1>12 DEF WatchDecide
  <1>13. CASE WatchExit
    BY <1>13 DEF WatchExit
  <1>14. CASE MainShutdown
    BY <1>14 DEF MainShutdown, Main
  <1>15. CASE MainStop
    BY <1>15 DEF MainStop, Main
  <1>16. CASE MainJoin
    BY <1>16 DEF MainJoin, Main
  <1>17. CASE MainClose
    BY <1>17 DEF MainClose, Main
  <1>18. CASE MainGate
    BY <1>18 DEF MainGate, Main
  <1>19. CASE MainTeardown
    BY <1>19 DEF MainTeardown, Main
  <1>20. CASE MainBringup
    BY <1>20 DEF MainBringup, Main
  <1>21. CASE MainSettle
    BY <1>21 DEF MainSettle, Main
  <1>22. CASE MainStreaming
    BY <1>22 DEF MainStreaming, Main
  <1>23. CASE MainFails
    BY <1>23 DEF MainFails, Main
  <1>24. CASE MainUngate
    BY <1>24 DEF MainUngate, Main
  <1>25. ASSUME NEW l \in Ladders, CallRecover(l) PROVE FlightInv'
    BY <1>25 DEF CallRecover, Go
  <1>26. ASSUME NEW l \in Ladders, LadderBegin(l) PROVE FlightInv'
    BY <1>26 DEF LadderBegin, Go
  <1>27. ASSUME NEW l \in Ladders, LadderGate(l) PROVE FlightInv'
    BY <1>27 DEF LadderGate, Go
  <1>28. ASSUME NEW l \in Ladders, LadderMark(l) PROVE FlightInv'
    BY <1>28 DEF LadderMark, Go
  <1>29. ASSUME NEW l \in Ladders, LadderCheck(l) PROVE FlightInv'
    BY <1>29 DEF LadderCheck, Go
  <1>30. ASSUME NEW l \in Ladders, LadderMoves(l) PROVE FlightInv'
    <2>1. \E to \in Gated : pc' = [pc EXCEPT ![l] = to]
      BY <1>30, SupervisorAssumption DEF TypeOK, LadderMoves, Go, Waited, AfterReset, AfterCall
    <2>2. pc[l] \in Gated
      BY <1>30 DEF LadderMoves, Go, Waited
    <2> QED
      BY <1>30, <2>1, <2>2 DEF TypeOK, LadderMoves
  <1>31. ASSUME NEW l \in Ladders, LadderReconnect(l) PROVE FlightInv'
    <2>1. \E to \in Gated : pc' = [pc EXCEPT ![l] = to]
      BY <1>31, SupervisorAssumption DEF TypeOK, LadderReconnect, Go, AfterCall
    <2>2. pc[l] \in Gated
      BY <1>31 DEF LadderReconnect, Go
    <2> QED
      BY <1>31, <2>1, <2>2 DEF TypeOK, LadderReconnect
  <1>32. ASSUME NEW l \in Ladders, LadderOperator(l) PROVE FlightInv'
    BY <1>32 DEF LadderOperator, Go
  <1>33. ASSUME NEW l \in Ladders, LadderAsk(l) PROVE FlightInv'
    BY <1>33 DEF LadderAsk, Go
  <1>34. ASSUME NEW l \in Ladders, LadderTail(l) PROVE FlightInv'
    BY <1>34 DEF LadderTail, Go
  <1>35. ASSUME NEW l \in Ladders, LadderFinally(l) PROVE FlightInv'
    BY <1>35 DEF LadderFinally, LadderUngate, LadderClear, Go
  <1>36. ASSUME NEW l \in Ladders, LadderLook(l) PROVE FlightInv'
    BY <1>36 DEF LadderLook, Go
  <1>37. ASSUME NEW l \in Ladders, LadderRestore(l) PROVE FlightInv'
    BY <1>37 DEF LadderRestore, Go
  <1> QED
    BY <1>1, <1>2, <1>3, <1>4, <1>5, <1>6, <1>7, <1>8, <1>9, <1>10, <1>11, <1>12, <1>13,
       <1>14, <1>15, <1>16, <1>17, <1>18, <1>19, <1>20, <1>21, <1>22, <1>23, <1>24, <1>25,
       <1>26, <1>27, <1>28, <1>29, <1>30, <1>31, <1>32, <1>33, <1>34, <1>35, <1>36, <1>37
       DEF Next, Surroundings, Watch, MainGoesOn, Ladder


\* No ladder has the gripper's gate opened under it by another: recover(), called from
\* any number of threads while the watch loop starts ladders of its own, passes
\* single flight one at a time, and the finally block lowers the gate first.
THEOREM LadderKeepsGate == Spec => []LadderGated
  <1>1. Init => FlightInv
    BY DEF Init, FlightInv, Flying, Gated, LadderGated, LadderSteps
  <1>2. TypeOK /\ FlightInv /\ [Next]_vars => FlightInv'
    BY FlightStep
  <1>3. FlightInv => LadderGated
    BY DEF FlightInv
  <1> QED
    BY <1>1, <1>2, <1>3, TypesHold, PTL DEF Spec
=============================================================================
