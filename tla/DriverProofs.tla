---------------------------- MODULE DriverProofs ----------------------------
(***************************************************************************)
(* Proofs about Driver for any number of driver and receiver processes.    *)
(***************************************************************************)
EXTENDS Driver, TLAPS

\* Places at which a process has not taken the lock, or has let it go.
Free == {"idle", "refused", "failed", "closed", "dead"}
Entering == {"truncate", "stamp", "open"}
Receiving == {"idle", "refused", "truncate", "stamp", "open", "ready", "stopRmi",
              "stopLock", "dead"}

Places == Free \union Receiving \union Rebuilding \union Closing \union
          {"watch", "publish", "reShut", "cleanup", "cleanRmi", "cleanLock"}

TypeInv ==
    /\ lock \in Procs \union {Nobody}
    /\ pc \in [Procs -> Places]
    /\ session \in [Procs -> BOOLEAN] /\ stream \in [Procs -> BOOLEAN]
    /\ gate \in [Procs -> BOOLEAN] /\ problems \in [Procs -> BOOLEAN]
    /\ alive \in [Procs -> SUBSET Actors] /\ busy \in [Procs -> SUBSET Actors]
    /\ late \in [Procs -> SUBSET Actors]

\* The flock's holder is the one process between acquire and release, and from the
\* second step of _write_holder on the record is its own.
LockInv == \A p \in Procs :
    /\ lock = p <=> pc[p] \notin Free
    /\ pc[p] \notin Free \union {"truncate", "stamp"} => record = p

\* A receiver never streams and only polls; only close() reports problems.
RoleInv == \A p \in Procs :
    /\ p \in Receivers => ~stream[p] /\ alive[p] \subseteq {"poll"} /\ pc[p] \in Receiving
    /\ p \in Drivers => pc[p] \notin {"stopRmi", "stopLock"}
    /\ problems[p] => pc[p] \in Closing \union {"closed"}

\* Whoever is inside an exchange has not been told to stop, or the wait for it is over
\* and it is late; only reconnect() waits for the ladder after it has told it.
BusyInv == \A p \in Procs :
    busy[p] \subseteq alive[p] \union late[p] \union (IF pc[p] = "reShut" THEN {"ladder"} ELSE {})

\* What each step of a teardown has brought down stays down: first the threads, then
\* the stream, then the session, which only a late thread reopens.
DownInv == \A p \in Procs :
    /\ pc[p] \in Free \union Entering \union
          {"watch", "cleanRmi", "cleanLock", "closeCore", "closeRmi", "closeLock", "stopRmi",
           "stopLock"} => alive[p] = {}
    /\ pc[p] = "closeGrip" => alive[p] \subseteq {"ladder", "grip"}
    /\ pc[p] = "closeSup" => alive[p] \subseteq {"ladder"}
    /\ pc[p] \in Free \union Entering \union {"cleanRmi", "cleanLock", "closeRmi", "closeLock"}
          => ~stream[p] \/ problems[p]
    /\ pc[p] \in Free \union Entering \union {"cleanLock", "closeLock", "stopLock"}
          => ~session[p] \/ problems[p] \/ late[p] # {}

\* From shutdown() on no ladder begins, and one that is left when the rebuild begins is
\* late; the gate is up until it ends.
GateInv == \A p \in Procs :
    /\ pc[p] \in Rebuilding \union {"reShut"} => "ladder" \notin alive[p]
    /\ pc[p] \in Rebuilding => ("ladder" \in busy[p] => "ladder" \in late[p])
    /\ pc[p] \in Rebuilding => gate[p] \/ "ladder" \in late[p] \ busy[p]
-----------------------------------------------------------------------------
(* The steps: one lemma per invariant, one case per action.                *)

\* Every step keeps the types.
LEMMA TypeStep ==
    ASSUME TypeInv, [Next]_vars
    PROVE  TypeInv'
  <1> USE DriverAssumption DEF Go, Set, Release, Procs, Actors, lockVars, talkVars,
     actorVars, TypeInv, Places, Free, Receiving, Rebuilding, Closing
  <1>1. CASE UNCHANGED vars
    BY <1>1 DEF vars
  <1>2. ASSUME NEW p \in Procs, NEW a \in Actors, Request(p, a) PROVE TypeInv'
    BY <1>2 DEF Request, Reopen
  <1>3. ASSUME NEW p \in Procs, NEW a \in Actors, End(p, a) PROVE TypeInv'
    BY <1>3 DEF End
  <1>4. ASSUME NEW p \in Procs, Acquire(p) PROVE TypeInv'
    BY <1>4 DEF Acquire
  <1>5. ASSUME NEW p \in Procs, Refuse(p) PROVE TypeInv'
    BY <1>5 DEF Refuse
  <1>6. ASSUME NEW p \in Procs, Truncate(p) PROVE TypeInv'
    BY <1>6 DEF Truncate
  <1>7. ASSUME NEW p \in Procs, Stamp(p) PROVE TypeInv'
    BY <1>7 DEF Stamp
  <1>8. ASSUME NEW p \in Procs, Retry(p) PROVE TypeInv'
    BY <1>8 DEF Retry
  <1>9. ASSUME NEW p \in Procs, BeginLadder(p) PROVE TypeInv'
    BY <1>9 DEF BeginLadder, Begin
  <1>10. ASSUME NEW p \in Procs, BeginGrip(p) PROVE TypeInv'
    BY <1>10 DEF BeginGrip, Begin
  <1>11. ASSUME NEW p \in Procs, BeginPoll(p) PROVE TypeInv'
    BY <1>11 DEF BeginPoll, Begin
  <1>12. ASSUME NEW p \in Procs, BeginRead(p) PROVE TypeInv'
    BY <1>12 DEF BeginRead, Begin
  <1>13. ASSUME NEW p \in Procs, Drop(p) PROVE TypeInv'
    BY <1>13 DEF Drop
  <1>14. ASSUME NEW p \in Procs, Construct(p) PROVE TypeInv'
    BY <1>14, ZenonT(60) DEF Construct, BringUp
  <1>15. ASSUME NEW p \in Procs, StartWatch(p) PROVE TypeInv'
    BY <1>15 DEF StartWatch
  <1>16. ASSUME NEW p \in Procs, StartServices(p) PROVE TypeInv'
    BY <1>16 DEF StartServices
  <1>17. ASSUME NEW p \in Procs, EmergencyCleanup(p) PROVE TypeInv'
    <2>1. alive' \in [Procs -> SUBSET Actors] /\ late' \in [Procs -> SUBSET Actors]
      BY <1>17 DEF EmergencyCleanup, WaitOver
    <2> QED
      BY <1>17, <2>1, ZenonT(60) DEF EmergencyCleanup
  <1>18. ASSUME NEW p \in Procs, Quiesce(p) PROVE TypeInv'
    <2>1. alive' \in [Procs -> SUBSET Actors]
      BY <1>18 DEF Quiesce
    <2>2. late' \in [Procs -> SUBSET Actors]
      BY <1>18 DEF Quiesce, WaitOver
    <2> QED
      BY <1>18, <2>1, <2>2, ZenonT(60) DEF Quiesce
  <1>19. ASSUME NEW p \in Procs, TearDown(p) PROVE TypeInv'
    BY <1>19, ZenonT(60) DEF TearDown
  <1>20. ASSUME NEW p \in Procs, Rebuild(p) PROVE TypeInv'
    BY <1>20 DEF Rebuild, BringUp
  <1>21. ASSUME NEW p \in Procs, Rebuilt(p) PROVE TypeInv'
    BY <1>21 DEF Rebuilt
  <1>22. ASSUME NEW p \in Procs, Close(p) PROVE TypeInv'
    BY <1>22 DEF Close
  <1>23. ASSUME NEW p \in Procs, StopThreads(p) PROVE TypeInv'
    <2>1. alive' \in [Procs -> SUBSET Actors]
      BY <1>23 DEF StopThreads
    <2>2. problems' \in [Procs -> BOOLEAN]
      BY <1>23 DEF StopThreads, BoundedJoin
    <2>3. late' \in [Procs -> SUBSET Actors]
      BY <1>23 DEF StopThreads, BoundedJoin, WaitOver
    <2> QED
      BY <1>23, <2>1, <2>2, <2>3 DEF StopThreads
  <1>24. ASSUME NEW p \in Procs, StopTalking(p) PROVE TypeInv'
    BY <1>24, ZenonT(60) DEF StopTalking
  <1>25. ASSUME NEW p \in Procs, Finish(p) PROVE TypeInv'
    BY <1>25 DEF Finish
  <1>26. ASSUME NEW p \in Procs, Start(p) PROVE TypeInv'
    <2>1. alive' \in [Procs -> SUBSET Actors]
      BY <1>26 DEF Start
    <2> QED
      BY <1>26, <2>1, ZenonT(60) DEF Start
  <1>27. ASSUME NEW p \in Procs, Stop(p) PROVE TypeInv'
    <2>1. late' \in [Procs -> SUBSET Actors]
      BY <1>27 DEF Stop, WaitOver
    <2> QED
      BY <1>27, <2>1, ZenonT(60) DEF Stop
  <1>28. ASSUME NEW p \in Procs, Die(p) PROVE TypeInv'
    BY <1>28 DEF Die
  <1>29. ASSUME NEW p \in Procs, Respawn(p) PROVE TypeInv'
    BY <1>29 DEF Respawn
  <1> QED
    BY <1>1, <1>2, <1>3, <1>4, <1>5, <1>6, <1>7, <1>8, <1>9, <1>10, <1>11, <1>12, <1>13,
       <1>14, <1>15, <1>16, <1>17, <1>18, <1>19, <1>20, <1>21, <1>22, <1>23, <1>24, <1>25,
       <1>26, <1>27, <1>28, <1>29 DEF Next, Driver, CloseStep

\* No step lets two processes hold the lock, or a stranger write the record.
LEMMA LockStep ==
    ASSUME TypeInv, LockInv, [Next]_vars
    PROVE  LockInv'
  <1> USE DriverAssumption DEF Go, Set, Release, Procs, Actors, lockVars, talkVars,
     actorVars, TypeInv, LockInv, Free
  <1>1. CASE UNCHANGED vars
    BY <1>1 DEF vars
  <1>2. ASSUME NEW p \in Procs, NEW a \in Actors, Request(p, a) PROVE LockInv'
    BY <1>2 DEF Request, Reopen
  <1>3. ASSUME NEW p \in Procs, NEW a \in Actors, End(p, a) PROVE LockInv'
    BY <1>3 DEF End
  <1>4. ASSUME NEW p \in Procs, Acquire(p) PROVE LockInv'
    BY <1>4 DEF Acquire
  <1>5. ASSUME NEW p \in Procs, Refuse(p) PROVE LockInv'
    BY <1>5 DEF Refuse
  <1>6. ASSUME NEW p \in Procs, Truncate(p) PROVE LockInv'
    BY <1>6 DEF Truncate
  <1>7. ASSUME NEW p \in Procs, Stamp(p) PROVE LockInv'
    BY <1>7 DEF Stamp
  <1>8. ASSUME NEW p \in Procs, Retry(p) PROVE LockInv'
    BY <1>8 DEF Retry
  <1>9. ASSUME NEW p \in Procs, BeginLadder(p) PROVE LockInv'
    BY <1>9 DEF BeginLadder, Begin
  <1>10. ASSUME NEW p \in Procs, BeginGrip(p) PROVE LockInv'
    BY <1>10 DEF BeginGrip, Begin
  <1>11. ASSUME NEW p \in Procs, BeginPoll(p) PROVE LockInv'
    BY <1>11 DEF BeginPoll, Begin
  <1>12. ASSUME NEW p \in Procs, BeginRead(p) PROVE LockInv'
    BY <1>12 DEF BeginRead, Begin
  <1>13. ASSUME NEW p \in Procs, Drop(p) PROVE LockInv'
    BY <1>13 DEF Drop
  <1>14. ASSUME NEW p \in Procs, Construct(p) PROVE LockInv'
    BY <1>14 DEF Construct, BringUp
  <1>15. ASSUME NEW p \in Procs, StartWatch(p) PROVE LockInv'
    BY <1>15 DEF StartWatch
  <1>16. ASSUME NEW p \in Procs, StartServices(p) PROVE LockInv'
    BY <1>16 DEF StartServices
  <1>17. ASSUME NEW p \in Procs, EmergencyCleanup(p) PROVE LockInv'
    BY <1>17 DEF EmergencyCleanup
  <1>18. ASSUME NEW p \in Procs, Quiesce(p) PROVE LockInv'
    BY <1>18 DEF Quiesce
  <1>19. ASSUME NEW p \in Procs, TearDown(p) PROVE LockInv'
    BY <1>19 DEF TearDown
  <1>20. ASSUME NEW p \in Procs, Rebuild(p) PROVE LockInv'
    BY <1>20 DEF Rebuild, BringUp
  <1>21. ASSUME NEW p \in Procs, Rebuilt(p) PROVE LockInv'
    BY <1>21 DEF Rebuilt
  <1>22. ASSUME NEW p \in Procs, Close(p) PROVE LockInv'
    BY <1>22 DEF Close
  <1>23. ASSUME NEW p \in Procs, StopThreads(p) PROVE LockInv'
    BY <1>23 DEF StopThreads, BoundedJoin
  <1>24. ASSUME NEW p \in Procs, StopTalking(p) PROVE LockInv'
    BY <1>24 DEF StopTalking
  <1>25. ASSUME NEW p \in Procs, Finish(p) PROVE LockInv'
    BY <1>25 DEF Finish
  <1>26. ASSUME NEW p \in Procs, Start(p) PROVE LockInv'
    BY <1>26 DEF Start
  <1>27. ASSUME NEW p \in Procs, Stop(p) PROVE LockInv'
    BY <1>27 DEF Stop
  <1>28. ASSUME NEW p \in Procs, Die(p) PROVE LockInv'
    BY <1>28 DEF Die
  <1>29. ASSUME NEW p \in Procs, Respawn(p) PROVE LockInv'
    BY <1>29 DEF Respawn
  <1> QED
    BY <1>1, <1>2, <1>3, <1>4, <1>5, <1>6, <1>7, <1>8, <1>9, <1>10, <1>11, <1>12, <1>13,
       <1>14, <1>15, <1>16, <1>17, <1>18, <1>19, <1>20, <1>21, <1>22, <1>23, <1>24, <1>25,
       <1>26, <1>27, <1>28, <1>29 DEF Next, Driver, CloseStep

\* No step takes a receiver to a place of a driver.
LEMMA RoleStep ==
    ASSUME TypeInv, RoleInv, [Next]_vars
    PROVE  RoleInv'
  <1> USE DriverAssumption DEF Go, Set, Release, Procs, Actors, lockVars, talkVars,
     actorVars, TypeInv, RoleInv, Receiving, Closing
  <1>1. CASE UNCHANGED vars
    BY <1>1 DEF vars
  <1>2. ASSUME NEW p \in Procs, NEW a \in Actors, Request(p, a) PROVE RoleInv'
    BY <1>2 DEF Request, Reopen
  <1>3. ASSUME NEW p \in Procs, NEW a \in Actors, End(p, a) PROVE RoleInv'
    BY <1>3 DEF End
  <1>4. ASSUME NEW p \in Procs, Acquire(p) PROVE RoleInv'
    BY <1>4 DEF Acquire
  <1>5. ASSUME NEW p \in Procs, Refuse(p) PROVE RoleInv'
    BY <1>5 DEF Refuse
  <1>6. ASSUME NEW p \in Procs, Truncate(p) PROVE RoleInv'
    BY <1>6 DEF Truncate
  <1>7. ASSUME NEW p \in Procs, Stamp(p) PROVE RoleInv'
    BY <1>7 DEF Stamp
  <1>8. ASSUME NEW p \in Procs, Retry(p) PROVE RoleInv'
    BY <1>8 DEF Retry
  <1>9. ASSUME NEW p \in Procs, BeginLadder(p) PROVE RoleInv'
    BY <1>9 DEF BeginLadder, Begin
  <1>10. ASSUME NEW p \in Procs, BeginGrip(p) PROVE RoleInv'
    BY <1>10 DEF BeginGrip, Begin
  <1>11. ASSUME NEW p \in Procs, BeginPoll(p) PROVE RoleInv'
    BY <1>11 DEF BeginPoll, Begin
  <1>12. ASSUME NEW p \in Procs, BeginRead(p) PROVE RoleInv'
    BY <1>12 DEF BeginRead, Begin
  <1>13. ASSUME NEW p \in Procs, Drop(p) PROVE RoleInv'
    BY <1>13 DEF Drop
  <1>14. ASSUME NEW p \in Procs, Construct(p) PROVE RoleInv'
    BY <1>14 DEF Construct, BringUp
  <1>15. ASSUME NEW p \in Procs, StartWatch(p) PROVE RoleInv'
    BY <1>15 DEF StartWatch
  <1>16. ASSUME NEW p \in Procs, StartServices(p) PROVE RoleInv'
    BY <1>16 DEF StartServices
  <1>17. ASSUME NEW p \in Procs, EmergencyCleanup(p) PROVE RoleInv'
    BY <1>17 DEF EmergencyCleanup
  <1>18. ASSUME NEW p \in Procs, Quiesce(p) PROVE RoleInv'
    BY <1>18 DEF Quiesce
  <1>19. ASSUME NEW p \in Procs, TearDown(p) PROVE RoleInv'
    BY <1>19 DEF TearDown
  <1>20. ASSUME NEW p \in Procs, Rebuild(p) PROVE RoleInv'
    BY <1>20 DEF Rebuild, BringUp
  <1>21. ASSUME NEW p \in Procs, Rebuilt(p) PROVE RoleInv'
    BY <1>21 DEF Rebuilt
  <1>22. ASSUME NEW p \in Procs, Close(p) PROVE RoleInv'
    BY <1>22 DEF Close
  <1>23. ASSUME NEW p \in Procs, StopThreads(p) PROVE RoleInv'
    BY <1>23 DEF StopThreads, BoundedJoin
  <1>24. ASSUME NEW p \in Procs, StopTalking(p) PROVE RoleInv'
    BY <1>24 DEF StopTalking
  <1>25. ASSUME NEW p \in Procs, Finish(p) PROVE RoleInv'
    BY <1>25 DEF Finish
  <1>26. ASSUME NEW p \in Procs, Start(p) PROVE RoleInv'
    BY <1>26 DEF Start
  <1>27. ASSUME NEW p \in Procs, Stop(p) PROVE RoleInv'
    BY <1>27 DEF Stop
  <1>28. ASSUME NEW p \in Procs, Die(p) PROVE RoleInv'
    BY <1>28 DEF Die
  <1>29. ASSUME NEW p \in Procs, Respawn(p) PROVE RoleInv'
    BY <1>29 DEF Respawn
  <1> QED
    BY <1>1, <1>2, <1>3, <1>4, <1>5, <1>6, <1>7, <1>8, <1>9, <1>10, <1>11, <1>12, <1>13,
       <1>14, <1>15, <1>16, <1>17, <1>18, <1>19, <1>20, <1>21, <1>22, <1>23, <1>24, <1>25,
       <1>26, <1>27, <1>28, <1>29 DEF Next, Driver, CloseStep

\* Every wait that ends leaves the threads it waited for ended or late.
LEMMA BusyStep ==
    ASSUME TypeInv, RoleInv, DownInv, BusyInv, [Next]_vars
    PROVE  BusyInv'
  <1> USE DriverAssumption DEF Go, Set, Release, Procs, Actors, lockVars, talkVars,
     actorVars, TypeInv, RoleInv, DownInv, BusyInv, Free, Entering, Receiving, Closing
  <1>1. CASE UNCHANGED vars
    BY <1>1 DEF vars
  <1>2. ASSUME NEW p \in Procs, NEW a \in Actors, Request(p, a) PROVE BusyInv'
    BY <1>2 DEF Request, Reopen
  <1>3. ASSUME NEW p \in Procs, NEW a \in Actors, End(p, a) PROVE BusyInv'
    BY <1>3 DEF End
  <1>4. ASSUME NEW p \in Procs, Acquire(p) PROVE BusyInv'
    BY <1>4 DEF Acquire
  <1>5. ASSUME NEW p \in Procs, Refuse(p) PROVE BusyInv'
    BY <1>5 DEF Refuse
  <1>6. ASSUME NEW p \in Procs, Truncate(p) PROVE BusyInv'
    BY <1>6 DEF Truncate
  <1>7. ASSUME NEW p \in Procs, Stamp(p) PROVE BusyInv'
    BY <1>7 DEF Stamp
  <1>8. ASSUME NEW p \in Procs, Retry(p) PROVE BusyInv'
    BY <1>8 DEF Retry
  <1>9. ASSUME NEW p \in Procs, BeginLadder(p) PROVE BusyInv'
    BY <1>9 DEF BeginLadder, Begin
  <1>10. ASSUME NEW p \in Procs, BeginGrip(p) PROVE BusyInv'
    BY <1>10 DEF BeginGrip, Begin
  <1>11. ASSUME NEW p \in Procs, BeginPoll(p) PROVE BusyInv'
    BY <1>11 DEF BeginPoll, Begin
  <1>12. ASSUME NEW p \in Procs, BeginRead(p) PROVE BusyInv'
    BY <1>12 DEF BeginRead, Begin
  <1>13. ASSUME NEW p \in Procs, Drop(p) PROVE BusyInv'
    BY <1>13 DEF Drop
  <1>14. ASSUME NEW p \in Procs, Construct(p) PROVE BusyInv'
    BY <1>14 DEF Construct, BringUp
  <1>15. ASSUME NEW p \in Procs, StartWatch(p) PROVE BusyInv'
    BY <1>15 DEF StartWatch
  <1>16. ASSUME NEW p \in Procs, StartServices(p) PROVE BusyInv'
    BY <1>16 DEF StartServices
  <1>17. ASSUME NEW p \in Procs, EmergencyCleanup(p) PROVE BusyInv'
    BY <1>17 DEF EmergencyCleanup, WaitOver
  <1>18. ASSUME NEW p \in Procs, Quiesce(p) PROVE BusyInv'
    BY <1>18 DEF Quiesce, WaitOver
  <1>19. ASSUME NEW p \in Procs, TearDown(p) PROVE BusyInv'
    BY <1>19 DEF TearDown
  <1>20. ASSUME NEW p \in Procs, Rebuild(p) PROVE BusyInv'
    BY <1>20 DEF Rebuild, BringUp
  <1>21. ASSUME NEW p \in Procs, Rebuilt(p) PROVE BusyInv'
    BY <1>21 DEF Rebuilt
  <1>22. ASSUME NEW p \in Procs, Close(p) PROVE BusyInv'
    BY <1>22 DEF Close
  <1>23. ASSUME NEW p \in Procs, StopThreads(p) PROVE BusyInv'
    BY <1>23 DEF StopThreads, BoundedJoin, WaitOver
  <1>24. ASSUME NEW p \in Procs, StopTalking(p) PROVE BusyInv'
    BY <1>24 DEF StopTalking
  <1>25. ASSUME NEW p \in Procs, Finish(p) PROVE BusyInv'
    BY <1>25 DEF Finish
  <1>26. ASSUME NEW p \in Procs, Start(p) PROVE BusyInv'
    BY <1>26 DEF Start
  <1>27. ASSUME NEW p \in Procs, Stop(p) PROVE BusyInv'
    BY <1>27 DEF Stop, WaitOver
  <1>28. ASSUME NEW p \in Procs, Die(p) PROVE BusyInv'
    BY <1>28 DEF Die
  <1>29. ASSUME NEW p \in Procs, Respawn(p) PROVE BusyInv'
    BY <1>29 DEF Respawn
  <1> QED
    BY <1>1, <1>2, <1>3, <1>4, <1>5, <1>6, <1>7, <1>8, <1>9, <1>10, <1>11, <1>12, <1>13,
       <1>14, <1>15, <1>16, <1>17, <1>18, <1>19, <1>20, <1>21, <1>22, <1>23, <1>24, <1>25,
       <1>26, <1>27, <1>28, <1>29 DEF Next, Driver, CloseStep

\* What is down stays down, a session that a late thread reopens excepted.
LEMMA DownStep ==
    ASSUME TypeInv, RoleInv, BusyInv, DownInv, [Next]_vars
    PROVE  DownInv'
  <1> USE DriverAssumption DEF Go, Set, Release, Procs, Actors, lockVars, talkVars,
     actorVars, TypeInv, RoleInv, DownInv, Free, Entering, Receiving, Closing
  <1>1. CASE UNCHANGED vars
    BY <1>1 DEF vars
  <1>2. ASSUME NEW p \in Procs, NEW a \in Actors, Request(p, a) PROVE DownInv'
    BY <1>2 DEF Request, Reopen, BusyInv
  <1>3. ASSUME NEW p \in Procs, NEW a \in Actors, End(p, a) PROVE DownInv'
    BY <1>3 DEF End
  <1>4. ASSUME NEW p \in Procs, Acquire(p) PROVE DownInv'
    BY <1>4 DEF Acquire
  <1>5. ASSUME NEW p \in Procs, Refuse(p) PROVE DownInv'
    BY <1>5 DEF Refuse
  <1>6. ASSUME NEW p \in Procs, Truncate(p) PROVE DownInv'
    BY <1>6 DEF Truncate
  <1>7. ASSUME NEW p \in Procs, Stamp(p) PROVE DownInv'
    BY <1>7 DEF Stamp
  <1>8. ASSUME NEW p \in Procs, Retry(p) PROVE DownInv'
    BY <1>8 DEF Retry
  <1>9. ASSUME NEW p \in Procs, BeginLadder(p) PROVE DownInv'
    BY <1>9 DEF BeginLadder, Begin
  <1>10. ASSUME NEW p \in Procs, BeginGrip(p) PROVE DownInv'
    BY <1>10 DEF BeginGrip, Begin
  <1>11. ASSUME NEW p \in Procs, BeginPoll(p) PROVE DownInv'
    BY <1>11 DEF BeginPoll, Begin
  <1>12. ASSUME NEW p \in Procs, BeginRead(p) PROVE DownInv'
    BY <1>12 DEF BeginRead, Begin
  <1>13. ASSUME NEW p \in Procs, Drop(p) PROVE DownInv'
    BY <1>13 DEF Drop
  <1>14. ASSUME NEW p \in Procs, Construct(p) PROVE DownInv'
    BY <1>14 DEF Construct, BringUp
  <1>15. ASSUME NEW p \in Procs, StartWatch(p) PROVE DownInv'
    BY <1>15 DEF StartWatch
  <1>16. ASSUME NEW p \in Procs, StartServices(p) PROVE DownInv'
    BY <1>16 DEF StartServices
  <1>17. ASSUME NEW p \in Procs, EmergencyCleanup(p) PROVE DownInv'
    BY <1>17 DEF EmergencyCleanup, WaitOver
  <1>18. ASSUME NEW p \in Procs, Quiesce(p) PROVE DownInv'
    BY <1>18 DEF Quiesce, WaitOver
  <1>19. ASSUME NEW p \in Procs, TearDown(p) PROVE DownInv'
    BY <1>19 DEF TearDown
  <1>20. ASSUME NEW p \in Procs, Rebuild(p) PROVE DownInv'
    BY <1>20 DEF Rebuild, BringUp
  <1>21. ASSUME NEW p \in Procs, Rebuilt(p) PROVE DownInv'
    BY <1>21 DEF Rebuilt
  <1>22. ASSUME NEW p \in Procs, Close(p) PROVE DownInv'
    BY <1>22 DEF Close
  <1>23. ASSUME NEW p \in Procs, StopThreads(p) PROVE DownInv'
    BY <1>23 DEF StopThreads, BoundedJoin, WaitOver
  <1>24. ASSUME NEW p \in Procs, StopTalking(p) PROVE DownInv'
    BY <1>24 DEF StopTalking
  <1>25. ASSUME NEW p \in Procs, Finish(p) PROVE DownInv'
    BY <1>25 DEF Finish
  <1>26. ASSUME NEW p \in Procs, Start(p) PROVE DownInv'
    BY <1>26 DEF Start
  <1>27. ASSUME NEW p \in Procs, Stop(p) PROVE DownInv'
    BY <1>27 DEF Stop, WaitOver
  <1>28. ASSUME NEW p \in Procs, Die(p) PROVE DownInv'
    BY <1>28 DEF Die
  <1>29. ASSUME NEW p \in Procs, Respawn(p) PROVE DownInv'
    BY <1>29 DEF Respawn
  <1> QED
    BY <1>1, <1>2, <1>3, <1>4, <1>5, <1>6, <1>7, <1>8, <1>9, <1>10, <1>11, <1>12, <1>13,
       <1>14, <1>15, <1>16, <1>17, <1>18, <1>19, <1>20, <1>21, <1>22, <1>23, <1>24, <1>25,
       <1>26, <1>27, <1>28, <1>29 DEF Next, Driver, CloseStep

\* Only a late ladder lowers the gate of a rebuild, by ending.
LEMMA GateStep ==
    ASSUME TypeInv, GateInv, [Next]_vars
    PROVE  GateInv'
  <1> USE DriverAssumption DEF Go, Set, Release, Procs, Actors, lockVars, talkVars,
     actorVars, TypeInv, GateInv, Rebuilding
  <1>1. CASE UNCHANGED vars
    BY <1>1 DEF vars
  <1>2. ASSUME NEW p \in Procs, NEW a \in Actors, Request(p, a) PROVE GateInv'
    BY <1>2 DEF Request, Reopen
  <1>3. ASSUME NEW p \in Procs, NEW a \in Actors, End(p, a) PROVE GateInv'
    BY <1>3 DEF End
  <1>4. ASSUME NEW p \in Procs, Acquire(p) PROVE GateInv'
    BY <1>4 DEF Acquire
  <1>5. ASSUME NEW p \in Procs, Refuse(p) PROVE GateInv'
    BY <1>5 DEF Refuse
  <1>6. ASSUME NEW p \in Procs, Truncate(p) PROVE GateInv'
    BY <1>6 DEF Truncate
  <1>7. ASSUME NEW p \in Procs, Stamp(p) PROVE GateInv'
    BY <1>7 DEF Stamp
  <1>8. ASSUME NEW p \in Procs, Retry(p) PROVE GateInv'
    BY <1>8 DEF Retry
  <1>9. ASSUME NEW p \in Procs, BeginLadder(p) PROVE GateInv'
    BY <1>9 DEF BeginLadder, Begin
  <1>10. ASSUME NEW p \in Procs, BeginGrip(p) PROVE GateInv'
    BY <1>10 DEF BeginGrip, Begin
  <1>11. ASSUME NEW p \in Procs, BeginPoll(p) PROVE GateInv'
    BY <1>11 DEF BeginPoll, Begin
  <1>12. ASSUME NEW p \in Procs, BeginRead(p) PROVE GateInv'
    BY <1>12 DEF BeginRead, Begin
  <1>13. ASSUME NEW p \in Procs, Drop(p) PROVE GateInv'
    BY <1>13 DEF Drop
  <1>14. ASSUME NEW p \in Procs, Construct(p) PROVE GateInv'
    BY <1>14 DEF Construct, BringUp
  <1>15. ASSUME NEW p \in Procs, StartWatch(p) PROVE GateInv'
    BY <1>15 DEF StartWatch
  <1>16. ASSUME NEW p \in Procs, StartServices(p) PROVE GateInv'
    BY <1>16 DEF StartServices
  <1>17. ASSUME NEW p \in Procs, EmergencyCleanup(p) PROVE GateInv'
    BY <1>17 DEF EmergencyCleanup, WaitOver
  <1>18. ASSUME NEW p \in Procs, Quiesce(p) PROVE GateInv'
    BY <1>18 DEF Quiesce, WaitOver
  <1>19. ASSUME NEW p \in Procs, TearDown(p) PROVE GateInv'
    BY <1>19 DEF TearDown
  <1>20. ASSUME NEW p \in Procs, Rebuild(p) PROVE GateInv'
    BY <1>20 DEF Rebuild, BringUp
  <1>21. ASSUME NEW p \in Procs, Rebuilt(p) PROVE GateInv'
    BY <1>21 DEF Rebuilt
  <1>22. ASSUME NEW p \in Procs, Close(p) PROVE GateInv'
    BY <1>22 DEF Close
  <1>23. ASSUME NEW p \in Procs, StopThreads(p) PROVE GateInv'
    BY <1>23 DEF StopThreads, BoundedJoin, WaitOver
  <1>24. ASSUME NEW p \in Procs, StopTalking(p) PROVE GateInv'
    BY <1>24 DEF StopTalking
  <1>25. ASSUME NEW p \in Procs, Finish(p) PROVE GateInv'
    BY <1>25 DEF Finish
  <1>26. ASSUME NEW p \in Procs, Start(p) PROVE GateInv'
    BY <1>26 DEF Start
  <1>27. ASSUME NEW p \in Procs, Stop(p) PROVE GateInv'
    BY <1>27 DEF Stop, WaitOver
  <1>28. ASSUME NEW p \in Procs, Die(p) PROVE GateInv'
    BY <1>28 DEF Die
  <1>29. ASSUME NEW p \in Procs, Respawn(p) PROVE GateInv'
    BY <1>29 DEF Respawn
  <1> QED
    BY <1>1, <1>2, <1>3, <1>4, <1>5, <1>6, <1>7, <1>8, <1>9, <1>10, <1>11, <1>12, <1>13,
       <1>14, <1>15, <1>16, <1>17, <1>18, <1>19, <1>20, <1>21, <1>22, <1>23, <1>24, <1>25,
       <1>26, <1>27, <1>28, <1>29 DEF Next, Driver, CloseStep

-----------------------------------------------------------------------------
(* The theorems.                                                           *)

\* Nobody has begun anything.
LEMMA InitInv == Init => TypeInv /\ LockInv /\ RoleInv /\ BusyInv /\ DownInv /\ GateInv
  BY DriverAssumption DEF Init, TypeInv, LockInv, RoleInv, BusyInv, DownInv, GateInv, Procs, Places,
     Free, Entering, Receiving, Rebuilding, Closing

LEMMA Typed == Spec => []TypeInv
  <1>1. TypeInv /\ [Next]_vars => TypeInv'
    BY TypeStep
  <1> QED
    BY <1>1, InitInv, PTL DEF Spec

LEMMA RolesKept == Spec => []RoleInv
  <1>1. TypeInv /\ RoleInv /\ [Next]_vars => RoleInv'
    BY RoleStep
  <1> QED
    BY <1>1, InitInv, Typed, PTL DEF Spec

\* The ownership lock: whoever contends, crashes or is refused, a process that holds it is
\* using it, and the record it has written names it (ownership.py acquire, _write_holder,
\* release).
THEOREM HolderIsNamed == Spec => []HolderNamed
  <1>1. TypeInv /\ LockInv /\ [Next]_vars => LockInv'
    BY LockStep
  <1>2. TypeInv /\ LockInv => HolderNamed
    BY DEF TypeInv, LockInv, HolderNamed, Free
  <1> QED
    BY <1>1, <1>2, InitInv, Typed, PTL DEF Spec

\* A process that streams holds the lock, through every failed constructor, rebuild, death
\* and close() that did not raise; so does one with an RMI session, whenever the bounded
\* waits of stop(), close() and _emergency_cleanup outlasted the threads they wait for.
THEOREM SoleTalkerHolds == Spec => []SoleTalker
  <1>1. TypeInv /\ LockInv /\ [Next]_vars => LockInv'
    BY LockStep
  <1>2. TypeInv /\ RoleInv /\ BusyInv /\ DownInv /\ [Next]_vars => BusyInv' /\ DownInv'
    BY BusyStep, DownStep
  <1>3. TypeInv /\ LockInv /\ DownInv => SoleTalker
    BY DEF TypeInv, LockInv, DownInv, SoleTalker
  <1> QED
    BY <1>1, <1>2, <1>3, InitInv, Typed, RolesKept, PTL DEF Spec

\* While reconnect() rebuilds the gripper's gate is up, or a ladder that shutdown() did
\* not wait for to the end has ended since and lowered it (driver.py:804).
THEOREM GateIsHeld == Spec => []GateHeld
  <1>1. TypeInv /\ GateInv /\ [Next]_vars => GateInv'
    BY GateStep
  <1>2. GateInv => GateHeld
    BY DEF GateInv, GateHeld, Procs
  <1> QED
    BY <1>1, <1>2, InitInv, Typed, PTL DEF Spec
=============================================================================
