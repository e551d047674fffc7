---------------------------- MODULE BringupProofs ---------------------------
(***************************************************************************)
(* Proofs about Bringup for any number of attempts, flush and settle tries *)
(* and bring-ups, and any bound on the controller's counter.               *)
(***************************************************************************)
EXTENDS Bringup, TLAPS

\* Places from the re-anchoring of the counter in initialize() to the end of a bring-up
\* that has not failed.
Anchored == {"continue", "reset", "probe", "probing", "fork", "flush", "flushStop",
             "reconnect", "reseed", "call", "start", "ready", "hold", "settle", "rereset",
             "recontinue", "rereseed", "recall", "rise"}

\* The client's counter is not behind the controller's wherever a call may be made.
SeqInv ==
    /\ nextSeq \in Nat \ {0} /\ seq \in Nat \ {0}
    /\ pc \in Anchored => nextSeq <= seq
    /\ NeverStale

\* A dispatcher that was forked is latched, and only a driver that wants one and has no
\* latch set comes to the fork.
ForkInv ==
    /\ forks \in {0, 1}
    /\ forks = 1 => forked /\ policy.gripper
    /\ pc \in {"probe", "probing", "fork"} => ~forked /\ policy.gripper

\* Places at which no core runs: up to the start of it, and after a teardown.
CoreDown == {"idle", "dead", "connect", "preflight", "init", "continue", "reset", "probe",
             "probing", "fork", "flush", "flushStop", "reconnect", "reseed", "call", "start",
             "blocked", "raised", "refused"}

\* What a bring-up is told to do never changes, and no refusal was without grounds.
GroundsInv ==
    /\ policy \in [gripper : BOOLEAN, full : BOOLEAN, settle : BOOLEAN]
    /\ RefusedOnEvidence

\* A core that is stopped sees no motion, and so is not taken to SAFE_FOLLOW.
DownInv ==
    /\ motion => core # "stopped"
    /\ pc \in CoreDown => core = "stopped"
    /\ pc \in {"raised", "refused"} => ~session

-----------------------------------------------------------------------------
(* What the preflight gate may refuse for.                                 *)

\* Every hard block rests on something that was read: an alarm, an order file, a listing;
\* or on an order file alone, where the listing was not read.
LEMMA BlocksAreFounded ==
    ASSUME NEW alarms \in SUBSET Alarms, NEW f \in Facts \cup {NoFacts},
           NEW full \in BOOLEAN, NEW gripper \in BOOLEAN,
           HardBlocks(alarms, f, full, gripper) # {}
    PROVE  Disqualified(alarms, f, full, gripper) \/ (full /\ HalfRead(f))
  <1>1. CASE AlarmBlocks(alarms) # {}
    BY <1>1 DEF AlarmBlocks, Disqualified
  <1>2. CASE AlarmBlocks(alarms) = {}
    <2>1. full /\ f.reached
      BY <1>2 DEF HardBlocks, FullBlocks
    <2>2. f \in Facts
      BY <2>1 DEF NoFacts
    <2>3. CASE LevelBlocks(f) # {}
      <3>1. f.order.read /\ f.order.level = "below"
        BY <2>3 DEF LevelBlocks
      <3>2. f.order \in Orders
        BY <2>2, <3>1 DEF Facts, NoOrder
      <3> QED
        BY <2>1, <3>1, <3>2 DEF Disqualified
    <2>4. CASE ControlBlocks(f) # {}
      <3>1. /\ f.order.read /\ ~f.order.s636
            /\ ExternalControl \ f.programs # {}
        BY <2>4 DEF ControlBlocks
      <3>2. f.order \in {o \in Orders : ~o.s636}
        BY <2>2, <3>1 DEF Facts, NoOrder
      <3> QED
        BY <2>1, <3>1, <3>2 DEF Disqualified, HalfRead
    <2>5. CASE GripperBlocks(f, gripper) # {}
      BY <2>1, <2>5 DEF GripperBlocks, Disqualified
    <2> QED
      BY <1>2, <2>1, <2>3, <2>4, <2>5 DEF HardBlocks, FullBlocks
  <1> QED
    BY <1>1, <1>2

\* So no verdict is a refusal without grounds.
LEMMA NoneUnfounded ==
    ASSUME NEW full \in BOOLEAN, NEW gripper \in BOOLEAN
    PROVE  "unfounded" \notin Verdicts[full][gripper]
  <1>1. \A a \in SUBSET Alarms, f \in Facts \cup {NoFacts} :
           Verdict(a, f, full, gripper) # "unfounded"
    BY BlocksAreFounded DEF Verdict
  <1>2. Verdicts[full][gripper] =
           {Verdict(a, f, full, gripper) : a \in SUBSET Alarms, f \in Facts \cup {NoFacts}}
    BY DEF Verdicts
  <1> QED
    BY <1>1, <1>2

-----------------------------------------------------------------------------
(* The steps: one lemma per invariant, one case per action.                *)

\* No step moves the controller past the client where a call may follow.
LEMMA SeqStep ==
    ASSUME SeqInv, [Next]_vars
    PROVE  SeqInv'
  <1> USE DEF Go, Keep, KeepController, controllerVars, coreVars, historyVars, SeqInv,
     Anchored, NeverStale
  <1>1. CASE UNCHANGED vars
    BY <1>1 DEF vars
  <1>2. CASE Connect
    BY <1>2 DEF Connect
  <1>3. CASE RunPreflight
    BY <1>3 DEF RunPreflight, Served, Unserved
  <1>4. CASE Initialize
    BY <1>4 DEF Initialize, Served, Unserved
  <1>5. CASE MaybeContinue
    BY <1>5 DEF MaybeContinue, Served, Unserved
  <1>6. CASE Reset
    BY <1>6 DEF Reset, Exchange, Served, Unserved
  <1>7. CASE ProbeWrite
    BY <1>7 DEF ProbeWrite, Served, Unserved
  <1>8. CASE ProbeRead
    BY <1>8 DEF ProbeRead, Served, Unserved
  <1>9. CASE Fork
    BY <1>9 DEF Fork, ProgramCall, Launches, CallFails, Served, Unserved
  <1>10. CASE Flush
    BY <1>10 DEF Flush, Exchange, Served, Unserved
  <1>11. CASE FlushStop
    BY <1>11 DEF FlushStop, Disconnect
  <1>12. CASE Reconnect
    BY <1>12 DEF Reconnect
  <1>13. CASE Reseed
    BY <1>13 DEF Reseed, Served, Unserved
  <1>14. CASE CallStream
    BY <1>14 DEF CallStream, ProgramCall, Launches, CallFails, Served, Unserved
  <1>15. CASE StartCore
    BY <1>15 DEF StartCore
  <1>16. CASE AwaitCore
    BY <1>16 DEF AwaitCore
  <1>17. CASE Settle
    BY <1>17 DEF Settle
  <1>18. CASE Rereset
    BY <1>18 DEF Rereset, Exchange, Served, Unserved
  <1>19. CASE Recontinue
    BY <1>19 DEF Recontinue, Served, Unserved
  <1>20. CASE Rereseed
    BY <1>20 DEF Rereseed, Served, Unserved
  <1>21. CASE AwaitMotion
    BY <1>21 DEF AwaitMotion
  <1>22. CASE Triage
    BY <1>22 DEF Triage, Served, Unserved
  <1>23. CASE Teardown
    BY <1>23 DEF Teardown, NextAttempt, StopCore, Disconnect
  <1>24. CASE Begin
    BY <1>24 DEF Begin, Final, StopCore, Disconnect
  <1>25. CASE Crash
    BY <1>25 DEF Crash, StopCore
  <1>26. CASE Restart
    BY <1>26 DEF Restart
  <1>27. CASE Controller
    BY <1>27 DEF Controller, Frees, Dispatches, MotionRises, MotionDrops, CoreReturns
  <1> QED
    BY <1>1, <1>2, <1>3, <1>4, <1>5, <1>6, <1>7, <1>8, <1>9, <1>10, <1>11, <1>12, <1>13,
       <1>14, <1>15, <1>16, <1>17, <1>18, <1>19, <1>20, <1>21, <1>22, <1>23, <1>24, <1>25,
       <1>26, <1>27 DEF Next, Ladder

\* No step forks over the latch, or clears the latch of a fork.
LEMMA ForkStep ==
    ASSUME ForkInv, [Next]_vars
    PROVE  ForkInv'
  <1> USE DEF Go, Keep, KeepController, controllerVars, coreVars, historyVars, ForkInv
  <1>1. CASE UNCHANGED vars
    BY <1>1 DEF vars
  <1>2. CASE Connect
    BY <1>2 DEF Connect
  <1>3. CASE RunPreflight
    BY <1>3 DEF RunPreflight, Served, Unserved
  <1>4. CASE Initialize
    BY <1>4 DEF Initialize, Served, Unserved
  <1>5. CASE MaybeContinue
    BY <1>5 DEF MaybeContinue, Served, Unserved
  <1>6. CASE Reset
    BY <1>6 DEF Reset, Exchange, Served, Unserved
  <1>7. CASE ProbeWrite
    BY <1>7 DEF ProbeWrite, Served, Unserved
  <1>8. CASE ProbeRead
    BY <1>8 DEF ProbeRead, Served, Unserved
  <1>9. CASE Fork
    BY <1>9 DEF Fork, ProgramCall, Launches, CallFails, Served, Unserved
  <1>10. CASE Flush
    BY <1>10 DEF Flush, Exchange, Served, Unserved
  <1>11. CASE FlushStop
    BY <1>11 DEF FlushStop, Disconnect
  <1>12. CASE Reconnect
    BY <1>12 DEF Reconnect
  <1>13. CASE Reseed
    BY <1>13 DEF Reseed, Served, Unserved
  <1>14. CASE CallStream
    BY <1>14 DEF CallStream, ProgramCall, Launches, CallFails, Served, Unserved
  <1>15. CASE StartCore
    BY <1>15 DEF StartCore
  <1>16. CASE AwaitCore
    BY <1>16 DEF AwaitCore
  <1>17. CASE Settle
    BY <1>17 DEF Settle
  <1>18. CASE Rereset
    BY <1>18 DEF Rereset, Exchange, Served, Unserved
  <1>19. CASE Recontinue
    BY <1>19 DEF Recontinue, Served, Unserved
  <1>20. CASE Rereseed
    BY <1>20 DEF Rereseed, Served, Unserved
  <1>21. CASE AwaitMotion
    BY <1>21 DEF AwaitMotion
  <1>22. CASE Triage
    BY <1>22 DEF Triage, Served, Unserved
  <1>23. CASE Teardown
    BY <1>23 DEF Teardown, NextAttempt, StopCore, Disconnect
  <1>24. CASE Begin
    BY <1>24 DEF Begin, Final, StopCore, Disconnect
  <1>25. CASE Crash
    BY <1>25 DEF Crash, StopCore
  <1>26. CASE Restart
    BY <1>26 DEF Restart
  <1>27. CASE Controller
    BY <1>27 DEF Controller, Frees, Dispatches, MotionRises, MotionDrops, CoreReturns
  <1> QED
    BY <1>1, <1>2, <1>3, <1>4, <1>5, <1>6, <1>7, <1>8, <1>9, <1>10, <1>11, <1>12, <1>13,
       <1>14, <1>15, <1>16, <1>17, <1>18, <1>19, <1>20, <1>21, <1>22, <1>23, <1>24, <1>25,
       <1>26, <1>27 DEF Next, Ladder

\* No step leaves a core or a session to the next attempt.
LEMMA DownStep ==
    ASSUME DownInv, [Next]_vars
    PROVE  DownInv'
  <1> USE DEF Go, Keep, KeepController, controllerVars, coreVars, historyVars, DownInv,
     CoreDown
  <1>1. CASE UNCHANGED vars
    BY <1>1 DEF vars
  <1>2. CASE Connect
    BY <1>2 DEF Connect
  <1>3. CASE RunPreflight
    BY <1>3 DEF RunPreflight, Served, Unserved
  <1>4. CASE Initialize
    BY <1>4 DEF Initialize, Served, Unserved
  <1>5. CASE MaybeContinue
    BY <1>5 DEF MaybeContinue, Served, Unserved
  <1>6. CASE Reset
    BY <1>6 DEF Reset, Exchange, Served, Unserved
  <1>7. CASE ProbeWrite
    BY <1>7 DEF ProbeWrite, Served, Unserved
  <1>8. CASE ProbeRead
    BY <1>8 DEF ProbeRead, Served, Unserved
  <1>9. CASE Fork
    BY <1>9 DEF Fork, ProgramCall, Launches, CallFails, Served, Unserved
  <1>10. CASE Flush
    BY <1>10 DEF Flush, Exchange, Served, Unserved
  <1>11. CASE FlushStop
    BY <1>11 DEF FlushStop, Disconnect
  <1>12. CASE Reconnect
    BY <1>12 DEF Reconnect
  <1>13. CASE Reseed
    BY <1>13 DEF Reseed, Served, Unserved
  <1>14. CASE CallStream
    BY <1>14 DEF CallStream, ProgramCall, Launches, CallFails, Served, Unserved
  <1>15. CASE StartCore
    BY <1>15 DEF StartCore
  <1>16. CASE AwaitCore
    BY <1>16 DEF AwaitCore
  <1>17. CASE Settle
    BY <1>17 DEF Settle
  <1>18. CASE Rereset
    BY <1>18 DEF Rereset, Exchange, Served, Unserved
  <1>19. CASE Recontinue
    BY <1>19 DEF Recontinue, Served, Unserved
  <1>20. CASE Rereseed
    BY <1>20 DEF Rereseed, Served, Unserved
  <1>21. CASE AwaitMotion
    BY <1>21 DEF AwaitMotion
  <1>22. CASE Triage
    BY <1>22 DEF Triage, Served, Unserved
  <1>23. CASE Teardown
    BY <1>23 DEF Teardown, NextAttempt, StopCore, Disconnect
  <1>24. CASE Begin
    BY <1>24 DEF Begin, Final, StopCore, Disconnect
  <1>25. CASE Crash
    BY <1>25 DEF Crash, StopCore
  <1>26. CASE Restart
    BY <1>26 DEF Restart
  <1>27. CASE Controller
    BY <1>27 DEF Controller, Frees, Dispatches, MotionRises, MotionDrops, CoreReturns
  <1> QED
    BY <1>1, <1>2, <1>3, <1>4, <1>5, <1>6, <1>7, <1>8, <1>9, <1>10, <1>11, <1>12, <1>13,
       <1>14, <1>15, <1>16, <1>17, <1>18, <1>19, <1>20, <1>21, <1>22, <1>23, <1>24, <1>25,
       <1>26, <1>27 DEF Next, Ladder

\* No step refuses a controller that nothing disqualifies.
LEMMA GroundsStep ==
    ASSUME GroundsInv, [Next]_vars
    PROVE  GroundsInv'
  <1> USE DEF Go, Keep, KeepController, controllerVars, coreVars, historyVars, GroundsInv,
     RefusedOnEvidence
  <1>1. CASE UNCHANGED vars
    BY <1>1 DEF vars
  <1>2. CASE Connect
    BY <1>2 DEF Connect
  <1>3. CASE RunPreflight
    <2>1. policy.full \in BOOLEAN /\ policy.gripper \in BOOLEAN
      OBVIOUS
    <2>2. "unfounded" \notin Verdicts[policy.full][policy.gripper]
      BY <2>1, NoneUnfounded
    <2>3. CASE \E v \in Verdicts[policy.full][policy.gripper] :
                 UNCHANGED policy /\ verdict' = v
      BY <2>2, <2>3
    <2>4. CASE UNCHANGED <<policy, verdict>>
      BY <2>4
    <2> QED
      BY <1>3, <2>3, <2>4 DEF RunPreflight
  <1>4. CASE Initialize
    BY <1>4 DEF Initialize, Served, Unserved
  <1>5. CASE MaybeContinue
    BY <1>5 DEF MaybeContinue, Served, Unserved
  <1>6. CASE Reset
    BY <1>6 DEF Reset, Exchange, Served, Unserved
  <1>7. CASE ProbeWrite
    BY <1>7 DEF ProbeWrite, Served, Unserved
  <1>8. CASE ProbeRead
    BY <1>8 DEF ProbeRead, Served, Unserved
  <1>9. CASE Fork
    BY <1>9 DEF Fork, ProgramCall, Launches, CallFails, Served, Unserved
  <1>10. CASE Flush
    BY <1>10 DEF Flush, Exchange, Served, Unserved
  <1>11. CASE FlushStop
    BY <1>11 DEF FlushStop, Disconnect
  <1>12. CASE Reconnect
    BY <1>12 DEF Reconnect
  <1>13. CASE Reseed
    BY <1>13 DEF Reseed, Served, Unserved
  <1>14. CASE CallStream
    BY <1>14 DEF CallStream, ProgramCall, Launches, CallFails, Served, Unserved
  <1>15. CASE StartCore
    BY <1>15 DEF StartCore
  <1>16. CASE AwaitCore
    BY <1>16 DEF AwaitCore
  <1>17. CASE Settle
    BY <1>17 DEF Settle
  <1>18. CASE Rereset
    BY <1>18 DEF Rereset, Exchange, Served, Unserved
  <1>19. CASE Recontinue
    BY <1>19 DEF Recontinue, Served, Unserved
  <1>20. CASE Rereseed
    BY <1>20 DEF Rereseed, Served, Unserved
  <1>21. CASE AwaitMotion
    BY <1>21 DEF AwaitMotion
  <1>22. CASE Triage
    BY <1>22 DEF Triage, Served, Unserved
  <1>23. CASE Teardown
    BY <1>23 DEF Teardown, NextAttempt, StopCore, Disconnect
  <1>24. CASE Begin
    BY <1>24 DEF Begin, Final, StopCore, Disconnect
  <1>25. CASE Crash
    BY <1>25 DEF Crash, StopCore
  <1>26. CASE Restart
    BY <1>26 DEF Restart
  <1>27. CASE Controller
    BY <1>27 DEF Controller, Frees, Dispatches, MotionRises, MotionDrops, CoreReturns
  <1> QED
    BY <1>1, <1>2, <1>3, <1>4, <1>5, <1>6, <1>7, <1>8, <1>9, <1>10, <1>11, <1>12, <1>13,
       <1>14, <1>15, <1>16, <1>17, <1>18, <1>19, <1>20, <1>21, <1>22, <1>23, <1>24, <1>25,
       <1>26, <1>27 DEF Next, Ladder

-----------------------------------------------------------------------------
(* The theorems.                                                           *)

\* However often a bring-up retries, it forks the gripper dispatcher at most once, and
\* only for a driver with a gripper: the latch of _phase_launch survives the attempts.
THEOREM ForksOnce == Spec => []ForkOnce
  <1>1. Init => ForkInv
    BY DEF Init, ForkInv
  <1>2. ForkInv /\ [Next]_vars => ForkInv'
    BY ForkStep
  <1>3. ForkInv => ForkOnce
    BY DEF ForkInv, ForkOnce
  <1> QED
    BY <1>1, <1>2, <1>3, PTL DEF Spec

\* No call of a bring-up is dropped by the controller as a duplicate, whatever counter
\* the process before left there and whichever exchange is lost.
THEOREM NeverGoesStale == Spec => []NeverStale
  <1>1. Init => SeqInv
    BY DEF Init, SeqInv, Anchored, NeverStale
  <1>2. SeqInv /\ [Next]_vars => SeqInv'
    BY SeqStep
  <1>3. SeqInv => NeverStale
    BY DEF SeqInv, NeverStale
  <1> QED
    BY <1>1, <1>2, <1>3, PTL DEF Spec

\* An attempt that fails leaves no running core to the next one, and a bring-up that
\* raises leaves no session open: _teardown_partial runs on every such path.
THEOREM FailsClean == Spec => []CleanFailure
  <1>1. Init => DownInv
    BY DEF Init, DownInv, CoreDown
  <1>2. DownInv /\ [Next]_vars => DownInv'
    BY DownStep
  <1>3. DownInv => CleanFailure
    BY DEF DownInv, CleanFailure, CoreDown
  <1> QED
    BY <1>1, <1>2, <1>3, PTL DEF Spec

\* The preflight gate refuses only on an alarm or a file that was read, except that an
\* order file without S636 refuses beside a listing that was not read: run_preflight and
\* its other checks treat what they could not read as unknown.
THEOREM RefusesOnEvidence == Spec => []RefusedOnEvidence
  <1>1. Init => GroundsInv
    BY DEF Init, GroundsInv, RefusedOnEvidence
  <1>2. GroundsInv /\ [Next]_vars => GroundsInv'
    BY GroundsStep
  <1>3. GroundsInv => RefusedOnEvidence
    BY DEF GroundsInv, RefusedOnEvidence
  <1> QED
    BY <1>1, <1>2, <1>3, PTL DEF Spec

=============================================================================
