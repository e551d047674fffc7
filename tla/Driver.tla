------------------------------- MODULE Driver -------------------------------
(***************************************************************************)
(* Who may talk to the controller, and when: the ownership lock            *)
(* (ownership.py), the FanucDriver that takes it for its whole life        *)
(* (constructor, reconnect, close) and the FanucReceiveInterface that      *)
(* takes it between start() and stop().  Each process has threads of its   *)
(* own that use the RMI session, which any request of theirs reopens.      *)
(*                                                                         *)
(* A bring-up is one step here (see Bringup), an RMI exchange too (see     *)
(* RmiClient).  A process may die at any point; the kernel then frees its  *)
(* lock and its sockets, and nothing rewrites the holder record.           *)
(***************************************************************************)
EXTENDS Naturals, FiniteSets

CONSTANTS
    Drivers,     \* processes that run a FanucDriver
    Receivers,   \* processes that run a FanucReceiveInterface
    Nobody,
    MaxDeaths    \* bound: processes that die

Procs == Drivers \union Receivers
\* The watch thread's recovery ladder, the gripper's worker, and the threads that poll:
\* the republisher's extended status, the receiver's joints and status.
Actors == {"ladder", "grip", "poll"}

ASSUME DriverAssumption ==
    /\ Drivers \intersect Receivers = {} /\ Nobody \notin Procs
    /\ MaxDeaths \in Nat

VARIABLES
    lock, record,     \* the flock's holder, and the pid in the lock file
    pc,               \* process -> place of its main thread
    session, stream,  \* process -> its RMI session is open, its RT thread streams
    alive, busy,      \* process -> actors that run, actors inside an RMI exchange
    late,             \* history: actors still inside one when the last wait for them ended
    gate,             \* process -> the gripper's fail-fast gate
    problems,         \* process -> close() met a join that timed out
    deaths

vars == <<lock, record, pc, session, stream, alive, busy, late, gate, problems, deaths>>
lockVars == <<lock, record>>
talkVars == <<session, stream>>
actorVars == <<alive, busy, late, gate>>

Init ==
    /\ lock = Nobody /\ record = Nobody
    /\ pc = [p \in Procs |-> "idle"]
    /\ session = [p \in Procs |-> FALSE] /\ stream = [p \in Procs |-> FALSE]
    /\ alive = [p \in Procs |-> {}] /\ busy = [p \in Procs |-> {}]
    /\ late = [p \in Procs |-> {}]
    /\ gate = [p \in Procs |-> FALSE] /\ problems = [p \in Procs |-> FALSE]
    /\ deaths = 0

Go(p, from, to) == pc[p] = from /\ pc' = [pc EXCEPT ![p] = to]
Set(f, p, v) == [f EXCEPT ![p] = v]

-----------------------------------------------------------------------------
(***************************************************************************)
(* OwnershipLock.                                                          *)
(***************************************************************************)

\* Mutant: the holder record is written first, the lock taken afterwards.
BugStampFirst(p) ==
    /\ \/ Go(p, "idle", "truncate") /\ lock = Nobody /\ lock' = p
       \/ Go(p, "idle", "refused") /\ UNCHANGED lock
    /\ record' = p
    /\ UNCHANGED <<talkVars, actorVars, problems, deaths>>

\* acquire, without waiting.
Acquire(p) ==
    /\ Go(p, "idle", "truncate") /\ lock = Nobody /\ lock' = p
    /\ UNCHANGED <<record, talkVars, actorVars, problems, deaths>>

\* OwnershipError: the lock is held, and the record says by whom; or its directory
\* cannot be used.
Refuse(p) ==
    /\ Go(p, "idle", "refused")
    /\ UNCHANGED <<lockVars, talkVars, actorVars, problems, deaths>>

\* _write_holder: the file is emptied, then written.
Truncate(p) ==
    /\ Go(p, "truncate", "stamp") /\ record' = Nobody
    /\ UNCHANGED <<lock, talkVars, actorVars, problems, deaths>>

Stamp(p) ==
    /\ Go(p, "stamp", "open") /\ record' = p
    /\ UNCHANGED <<lock, talkVars, actorVars, problems, deaths>>

\* release: the record stays.
Release(p) == lock' = (IF lock = p THEN Nobody ELSE lock) /\ UNCHANGED record

\* A refused process may try again.
Retry(p) ==
    /\ Go(p, "refused", "idle")
    /\ UNCHANGED <<lockVars, talkVars, actorVars, problems, deaths>>

-----------------------------------------------------------------------------
(***************************************************************************)
(* The threads of a process.                                               *)
(***************************************************************************)

Begin(p, a) ==
    /\ a \in alive[p] \ busy[p] /\ busy' = Set(busy, p, busy[p] \union {a})
    /\ UNCHANGED <<lockVars, pc, talkVars, alive, late, problems, deaths>>

\* The watch thread or recover() starts a ladder, one at a time, which raises the gate.
BeginLadder(p) == Begin(p, "ladder") /\ gate' = Set(gate, p, TRUE)

\* The worker takes up a command, unless the gate is up.
BeginGrip(p) == Begin(p, "grip") /\ ~gate[p] /\ UNCHANGED gate

\* The republisher asks for the extended status, which is read only while STREAMING.
ReadsExtStatus(p) == pc[p] = "ready" /\ stream[p]
BeginPoll(p) == p \in Drivers /\ Begin(p, "poll") /\ ReadsExtStatus(p) /\ UNCHANGED gate

\* The receiver reads joints and status for as long as it is not stopped.
BeginRead(p) == p \in Receivers /\ Begin(p, "poll") /\ UNCHANGED gate

\* The client opens a session for whoever finds none.
Reopen(p) == session' = Set(session, p, TRUE)

\* A request of its own.  Nothing between a thread and the client asks whether the
\* thread has been told to stop: _execute writes its three registers, a ladder its next
\* command, and a thread queued on _request_lock behind stop() goes on after it.
Request(p, a) ==
    /\ a \in busy[p] /\ Reopen(p)
    /\ UNCHANGED <<lockVars, pc, stream, actorVars, problems, deaths>>

\* It ends; a ladder's finally clause lowers the gate.
End(p, a) ==
    /\ a \in busy[p] /\ busy' = Set(busy, p, busy[p] \ {a})
    /\ gate' = IF a = "ladder" THEN Set(gate, p, FALSE) ELSE gate
    /\ UNCHANGED <<lockVars, pc, talkVars, alive, late, problems, deaths>>

\* The session fails, and the client drops it.
Drop(p) ==
    /\ session[p] /\ session' = Set(session, p, FALSE)
    /\ UNCHANGED <<lockVars, pc, stream, actorVars, problems, deaths>>

\* The wait for some actors is over, because they have ended or because it is bounded:
\* 2 s for a join and for a ladder, nothing for the gripper's executor, while one
\* exchange may take two deadlines of 4 s and more.
WaitOver(p, actors) == late' = Set(late, p, (late[p] \ actors) \union (busy[p] \intersect actors))

-----------------------------------------------------------------------------
(***************************************************************************)
(* FanucDriver: the constructor and reconnect().                           *)
(***************************************************************************)

\* bringup(): streaming; or an error of its own, with nothing left open; or one that
\* escaped its teardown.
BringUp(p, from, up, down) ==
    /\ \/ Go(p, from, up) /\ session' = Set(session, p, TRUE) /\ stream' = Set(stream, p, TRUE)
       \/ Go(p, from, down) /\ session' = Set(session, p, FALSE) /\ stream' = Set(stream, p, FALSE)
       \/ Go(p, from, down) /\ session' = Set(session, p, TRUE) /\ stream' = Set(stream, p, FALSE)
    /\ UNCHANGED <<lockVars, problems, deaths>>

Construct(p) == p \in Drivers /\ BringUp(p, "open", "watch", "cleanup") /\ UNCHANGED actorVars

\* The ITP check, then the watch thread.
StartWatch(p) ==
    /\ \/ Go(p, "watch", "publish") /\ alive' = Set(alive, p, {"ladder"})
       \/ Go(p, "watch", "cleanup") /\ UNCHANGED alive
    /\ UNCHANGED <<lockVars, talkVars, busy, late, gate, problems, deaths>>

\* The gripper's worker and the republisher, whose publishers may fail to declare.
StartServices(p) ==
    /\ \/ Go(p, "publish", "ready") /\ alive' = Set(alive, p, Actors)
       \/ Go(p, "publish", "cleanup") /\ UNCHANGED alive
    /\ UNCHANGED <<lockVars, talkVars, busy, late, gate, problems, deaths>>

\* Mutant: the RMI session is left out of the cleanup.
BugCleanupKeepsSession(p) ==
    /\ \/ /\ Go(p, "cleanup", "cleanRmi") /\ WaitOver(p, Actors)
          /\ alive' = Set(alive, p, {}) /\ stream' = Set(stream, p, FALSE)
          /\ UNCHANGED <<session, lockVars>>
       \/ /\ Go(p, "cleanRmi", "cleanLock") /\ UNCHANGED <<session, stream, alive, late, lockVars>>
       \/ /\ Go(p, "cleanLock", "failed") /\ Release(p)
          /\ UNCHANGED <<talkVars, alive, late>>
    /\ UNCHANGED <<busy, gate, problems, deaths>>

\* _emergency_cleanup, in its order: supervisor and core, RMI, ownership.
EmergencyCleanup(p) ==
    /\ \/ /\ Go(p, "cleanup", "cleanRmi") /\ WaitOver(p, Actors)
          /\ alive' = Set(alive, p, {}) /\ stream' = Set(stream, p, FALSE)
          /\ UNCHANGED <<session, lockVars>>
       \/ /\ Go(p, "cleanRmi", "cleanLock") /\ session' = Set(session, p, FALSE)
          /\ UNCHANGED <<stream, alive, late, lockVars>>
       \/ /\ Go(p, "cleanLock", "failed") /\ Release(p)
          /\ UNCHANGED <<talkVars, alive, late>>
    /\ UNCHANGED <<busy, gate, problems, deaths>>

\* Mutant: the gate is raised before the ladder has been waited for.
BugGateFirst(p) ==
    /\ \/ /\ Go(p, "ready", "reShut") /\ p \in Drivers
          /\ alive' = Set(alive, p, alive[p] \ {"ladder"}) /\ gate' = Set(gate, p, TRUE)
          /\ UNCHANGED late
       \/ /\ Go(p, "reShut", "rebuild") /\ WaitOver(p, {"ladder"}) /\ UNCHANGED <<alive, gate>>
    /\ UNCHANGED <<lockVars, talkVars, busy, problems, deaths>>

\* reconnect(), called as such or by recover(): no new ladder, the running one waited
\* for, and only then the gate.
Quiesce(p) ==
    /\ \/ /\ Go(p, "ready", "reShut") /\ p \in Drivers
          /\ alive' = Set(alive, p, alive[p] \ {"ladder"}) /\ UNCHANGED <<late, gate>>
       \/ /\ Go(p, "reShut", "rebuild") /\ WaitOver(p, {"ladder"})
          /\ gate' = Set(gate, p, TRUE) /\ UNCHANGED alive
    /\ UNCHANGED <<lockVars, talkVars, busy, problems, deaths>>

TearDown(p) ==
    /\ \/ Go(p, "rebuild", "rebuildRmi") /\ stream' = Set(stream, p, FALSE) /\ UNCHANGED session
       \/ Go(p, "rebuildRmi", "rebuildUp") /\ session' = Set(session, p, FALSE) /\ UNCHANGED stream
    /\ UNCHANGED <<lockVars, actorVars, problems, deaths>>

Rebuild(p) == BringUp(p, "rebuildUp", "rewatch", "rebuilt") /\ UNCHANGED actorVars

\* start_watch if it came up; the gate falls either way.
Rebuilt(p) ==
    /\ \/ Go(p, "rewatch", "ready") /\ alive' = Set(alive, p, alive[p] \union {"ladder"})
       \/ Go(p, "rebuilt", "ready") /\ UNCHANGED alive
    /\ gate' = Set(gate, p, FALSE)
    /\ UNCHANGED <<lockVars, talkVars, busy, late, problems, deaths>>

-----------------------------------------------------------------------------
(***************************************************************************)
(* FanucDriver.close: ordered steps, each in a thread that is given up     *)
(* when it takes too long.                                                 *)
(***************************************************************************)

Closing == {"closing", "closeGrip", "closeSup", "closeCore", "closeRmi", "closeLock"}

Close(p) ==
    /\ Go(p, "ready", "closing") /\ p \in Drivers
    /\ UNCHANGED <<lockVars, talkVars, actorVars, problems, deaths>>

\* Mutant: the threads are joined without a bound.
BugJoinForever(p, a) == a \notin busy[p] /\ WaitOver(p, {a}) /\ UNCHANGED problems

\* A thread is joined, or the wait for it ends: its own bound is not reported, that of
\* _run_with_timeout is.
BoundedJoin(p, a) ==
    /\ \/ UNCHANGED problems
       \/ a \in busy[p] /\ problems' = Set(problems, p, TRUE)
    /\ WaitOver(p, {a})

\* Republisher, gripper and supervisor are told to stop; the gripper is not waited for.
StopThreads(p) ==
    /\ \/ /\ Go(p, "closing", "closeGrip") /\ BoundedJoin(p, "poll")
          /\ alive' = Set(alive, p, alive[p] \ {"poll"})
       \/ /\ Go(p, "closeGrip", "closeSup") /\ WaitOver(p, {"grip"}) /\ UNCHANGED problems
          /\ alive' = Set(alive, p, alive[p] \ {"grip"})
       \/ /\ Go(p, "closeSup", "closeCore") /\ BoundedJoin(p, "ladder")
          /\ alive' = Set(alive, p, {})
    /\ UNCHANGED <<lockVars, talkVars, busy, gate, deaths>>

\* The core, then the session; a stop that takes too long is abandoned and reported.
StopTalking(p) ==
    /\ \/ Go(p, "closeCore", "closeRmi") /\ stream' = Set(stream, p, FALSE)
          /\ UNCHANGED <<session, problems>>
       \/ Go(p, "closeRmi", "closeLock") /\ session' = Set(session, p, FALSE)
          /\ UNCHANGED <<stream, problems>>
       \/ /\ Go(p, "closeCore", "closeRmi") \/ Go(p, "closeRmi", "closeLock")
          /\ problems' = Set(problems, p, TRUE) /\ UNCHANGED talkVars
    /\ UNCHANGED <<lockVars, actorVars, deaths>>

\* Ownership goes last; close() returns, or raises what it could not stop.
Finish(p) ==
    /\ Go(p, "closeLock", "closed") /\ Release(p)
    /\ UNCHANGED <<talkVars, actorVars, problems, deaths>>

-----------------------------------------------------------------------------
(***************************************************************************)
(* FanucReceiveInterface.                                                  *)
(***************************************************************************)

\* start(): the session and the poll threads once the lock is held; no session, no lock.
Start(p) ==
    /\ p \in Receivers
    /\ \/ /\ Go(p, "open", "ready") /\ session' = Set(session, p, TRUE)
          /\ alive' = Set(alive, p, {"poll"}) /\ UNCHANGED lockVars
       \/ Go(p, "open", "idle") /\ Release(p) /\ UNCHANGED <<session, alive>>
    /\ UNCHANGED <<stream, busy, late, gate, problems, deaths>>

\* stop(): threads, session, lock, in that order; the join is bounded.
Stop(p) ==
    /\ p \in Receivers
    /\ \/ /\ Go(p, "ready", "stopRmi") /\ alive' = Set(alive, p, {})
          /\ WaitOver(p, {"poll"}) /\ UNCHANGED <<session, lockVars>>
       \/ /\ Go(p, "stopRmi", "stopLock") /\ session' = Set(session, p, FALSE)
          /\ UNCHANGED <<alive, late, lockVars>>
       \/ Go(p, "stopLock", "idle") /\ Release(p) /\ UNCHANGED <<session, alive, late>>
    /\ UNCHANGED <<stream, busy, gate, problems, deaths>>

-----------------------------------------------------------------------------
\* The process is killed: what the kernel holds for it is gone, the record is not.
Die(p) ==
    /\ pc[p] \notin {"idle", "dead"} /\ deaths < MaxDeaths /\ deaths' = deaths + 1
    /\ pc' = Set(pc, p, "dead") /\ Release(p)
    /\ session' = Set(session, p, FALSE) /\ stream' = Set(stream, p, FALSE)
    /\ alive' = Set(alive, p, {}) /\ busy' = Set(busy, p, {}) /\ late' = Set(late, p, {})
    /\ gate' = Set(gate, p, FALSE) /\ problems' = Set(problems, p, FALSE)

\* Another process is started in its place.
Respawn(p) ==
    /\ Go(p, "dead", "idle")
    /\ UNCHANGED <<lockVars, talkVars, actorVars, problems, deaths>>

CloseStep(p) == StopThreads(p) \/ StopTalking(p) \/ Finish(p)

Driver(p) ==
    \/ Construct(p) \/ StartWatch(p) \/ StartServices(p) \/ EmergencyCleanup(p)
    \/ Quiesce(p) \/ TearDown(p) \/ Rebuild(p) \/ Rebuilt(p)
    \/ Close(p) \/ CloseStep(p)

Next == \E p \in Procs :
    \/ Acquire(p) \/ Refuse(p) \/ Truncate(p) \/ Stamp(p) \/ Retry(p)
    \/ BeginLadder(p) \/ BeginGrip(p) \/ BeginPoll(p) \/ BeginRead(p)
    \/ \E a \in Actors : Request(p, a) \/ End(p, a)
    \/ Drop(p) \/ Driver(p) \/ Start(p) \/ Stop(p) \/ Die(p) \/ Respawn(p)

Spec == Init /\ [][Next]_vars

\* The thread inside close() runs; no thread it waits for has to.
FairSpec == Spec /\ \A p \in Drivers : WF_vars(CloseStep(p))

-----------------------------------------------------------------------------
(***************************************************************************)
(* Properties.                                                             *)
(***************************************************************************)

\* "At most one process may talk to it on either protocol": a process that streams holds
\* the lock, through constructors that fail half-way, reconnects, deaths and close(),
\* unless close() has raised for what it abandoned.  So does one with an RMI session,
\* unless a thread of its outlived the wait for it and reopened what had been closed.
SoleTalker == \A p \in Procs :
    /\ stream[p] => lock = p \/ problems[p]
    /\ session[p] => lock = p \/ problems[p] \/ late[p] # {}

\* The lock is held by a process that is using it, never by one that was refused,
\* failed, closed or died; and once it has written its record the record names it, so
\* a contender is told to kill the right one, whoever crashed or contended before.
HolderNamed ==
    lock # Nobody =>
       /\ pc[lock] \notin {"idle", "refused", "failed", "closed", "dead"}
       /\ pc[lock] \notin {"truncate", "stamp"} => record = lock

Rebuilding == {"rebuild", "rebuildRmi", "rebuildUp", "rewatch", "rebuilt"}

\* reconnect() holds the gripper's gate for as long as it rebuilds (driver.py:804), unless
\* shutdown() gave up waiting for a ladder; and then the gate stays up until that very
\* ladder ends, whose finally clause is the only thing that lowers it half-way.
GateHeld == \A p \in Drivers :
    pc[p] \in Rebuilding => gate[p] \/ "ladder" \in late[p] \ busy[p]

\* close() ends, and lets go of the controller, although any thread it stops may be
\* wedged: every join is timed.
CloseReleases == \A p \in Drivers : pc[p] \in Closing ~> lock # p
=============================================================================
