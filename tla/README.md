# airo-fanuc: a TLA+ verification project

airo-fanuc drives a FANUC CRX arm from Python. A C++ real-time thread exchanges a
stream of joint commands and status packets with the controller every 8 ms; Python
threads around it submit motions, watch the health of the stream, recover it, drive
the gripper and talk to the controller over RMI (a TCP/JSON session). This project
keeps TLA+ models of that code beside it: what is modelled, what TLC checks, what
TLAPS proves, and what is still to do.

Paths below are relative to the repository; `rt_core/` is `src/cpp/rt_core/`, Python
files are in `src/airo_fanuc/`.

## 1. Inventory

| Component | State it keeps | Operations | Interacts through |
|---|---|---|---|
| **Tick core** `rt_core/tick_core.*` | mode, latched fault, conditions, epoch, active-motion slot, the profile being played, deadman/force guards, RX age, supervisor age, recovery dwell, commanded anchor | `begin_streaming`, `request_recover`, `tick` (ingest, gates, control, silence, deadman, liveness, force guard, dwell, consume, dispatch, clamp, slew) | called by the RT loop only; its events are drained by the loop |
| **Tick engine** `src/cpp/tick_engine/` | per-profile numeric state | Hermite sampling, capture splice, Ruckig brake and servo, slew limiter, settle detector | called by the tick core |
| **Realtime core** `rt_core/realtime_core.*`, `rings.hpp` | mailbox ring, request atomics, `stop_gen_`, published epoch, live buffers, retire ring, resolution table, active id/status, stop flag | `submit_*`, `stop_j`, `hold`, `kick`, `heartbeat`, `recover`, `motion_status`, `start`, `stop`, the RT loop | caller threads and the RT thread share atomics and two rings; `submit_mu_` serialises producers |
| **Snapshot, joints_at** `snapshot.hpp`, `rings.hpp` | seqlock, ring of timed joints | publish, read | RT thread writes, any thread reads |
| **PLL** `pll.*` | phase and period estimate | `on_packet`, `next_tick` | RT loop |
| **Codec, bindings** | none | encode, decode, pybind glue | |
| **Supervisor** `supervisor.py`, `lifecycle.py` | lifecycle state, ARM gate, last seen fault, fork budget, recovery in progress | bring-up, watch loop, recovery ladder, `arm`, `shutdown` | reads snapshots, calls `core.recover()`, RMI; latches the command gate |
| **Driver, MotionHandle** `driver.py` | closed flag, core, supervisor, gripper worker, republisher | motion calls, `wait`/`result`, `reconnect`, `close`, the snapshot callback | facade over all of the above |
| **RMI client** `rmi_client.py` | socket, the one pending request, ring of pushed packets, RX thread, sequence id | request/reply with one resend, reopen, the Initialize ladder, `program_call`, `start`, `stop` | every Python component; `_request_lock` serialises requests, `_state_lock` guards the fields the RX thread shares |
| **Gripper** `gripper_worker.py`, `gripper.py` | executor queue, done latch and result, fail-fast gate, stop event | open/close, `wait`, `set_recovery`, `close` | caller threads and one worker; three controller registers a TP dispatcher reads |
| **Ownership** `ownership.py` | `flock` on a file per host, holder record in it | acquire, release | other processes on the host |
| **Receive interface** `receive_interface.py` | RMI client, lock, poll threads | `start`, `stop`, reads | takes the lock; its threads make RMI requests |
| **Republisher** `republisher.py` | previous motion and fault flags, one thread per topic | `start`, `stop`, a round per period | reads the driver's snapshot, puts on handles that may raise |
| **Preflight, probe** `preflight.py`, `controller_probe.py` | none that outlives a call | alarms over RMI, files over FTP, a verdict | called by bring-up |
| **Configuration, profiles** | validated records | | |
| **Fake controller** `testing/` | test double | | |

What is hard here, and what correct means for each part:

* **Tick core.** Ten guards run in a fixed order inside one tick, and each may end the
  motion, latch a fault, park the stream or recover it; inputs of one window (a gate
  edge, a stop, an expired watchdog, a new target) meet in every combination. Correct:
  a latched fault is left only through a recovery asked for after it; a motion gets one
  terminal event; the arm is never moved for a motion that has had its own; the
  commanded position never jumps; silence and a dead supervisor are always acted on.
* **Realtime core.** Lock-free rings and atomics between callers and the RT thread;
  two-store publications; buffers whose memory the RT thread reads and other threads
  free; a stop and restart of the same object. Correct: a stop wins over what was
  submitted before it; a handle reports its own motion; knots outlive their motion; no
  buffer is lost; every target that was queued is answered.
* **Supervisor.** A watch thread, a recovery ladder and explicit calls share the
  lifecycle. Correct: a fault closes the ARM gate until someone acknowledges it; one
  ladder at a time; a ladder that ends, however it ends, lets go of what it took.
* **Bring-up.** A ladder of RMI steps, retried, against a controller that remembers: its
  SequenceID counter, forked programs, sessions it has not freed. Correct: one fork of the
  gripper dispatcher per call; no call the controller drops as a duplicate; a failure
  leaves nothing behind; it ends.
* **RMI client.** Replies that are late, lost, or of another request; a session reopened
  under the RX thread; a bounded ring. Correct: one reader of the socket; every call
  returns; a pushed fault is not lost with the session that delivered it.
* **Gripper worker.** A done latch shared by successive commands; a gate that rises while
  commands are queued. Correct: a wait always returns; the gate stops all but the command
  already under way.
* **Driver, ownership, receive interface.** Constructors that fail half-way, bounded joins,
  threads that may reopen a session, processes that die. Correct: who talks to the
  controller holds the lock; a refused process is told who does; `close()` lets go.
* **Republisher.** Two clocks, one of which may be stepped; puts that raise in the middle of
  a round. Correct: what is published as fresh is recent; a fault that stays is announced.
* **Preflight.** Correct: a file that could not be read refuses nobody.
* **Snapshot.** Correct: a reader never returns a torn state.

`PROJECT.json` lists the hazards one by one, each at its line, with the properties
that would catch it; where none does, or only in part, a note says why.

## 2. Modules

| Module | What it is |
|---|---|
| `TickCore` | the tick: one action per handler, walked in the order of the code |
| `CoreContract` | what the tick core promises, without modes, counters and profiles |
| `MCTickCore` | instances of `TickCore` for TLC |
| `RealtimeCore` | the threads around the tick, load by load and store by store |
| `MCRealtimeCore` | instances of `RealtimeCore` for TLC |
| `Supervisor` | the policy threads above the core: watch loop, recovery ladders, ARM gate, shutdown and rebuild |
| `MCSupervisor` | instances of `Supervisor` for TLC |
| `Bringup`, `MCBringup` | `bringup()` against a controller that persists, with crashes |
| `Preflight` | the preflight verdict as a function of what could be read; used by `Bringup` |
| `RmiClient`, `MCRmiClient` | request/reply cycles, RX thread, reopen, start and stop |
| `Gripper`, `MCGripper` | callers, worker, latch, gate, dispatcher |
| `Driver`, `MCDriver` | several processes: ownership lock, constructor, `reconnect`, `close`, receive interface |
| `Republisher`, `MCRepublisher` | ages on a stepped clock, edge-triggered toasts |
| `TickCoreProofs` | theorems about `TickCore`, the refinement of `CoreContract` included |
| `RealtimeCoreProofs`, `CoreDataProofs` | theorems about `RealtimeCore`: types and stop precedence; then buffers and the resolution table |
| `SupervisorProofs`, `BringupProofs`, `RmiClientProofs`, `GripperProofs`, `DriverProofs` | theorems about the module each is named after |

The modules meet at the same places. `RealtimeCore` takes a tick as one step and `TickCore`
opens it up; `Supervisor` sees the core through its snapshot and a bring-up through its
stages, which `Bringup` opens up; `Bringup`, `Gripper` and `Driver` take an RMI exchange as
one step, which `RmiClient` opens up; `Driver` takes a bring-up as one step that succeeds or
fails.

### TickCore

`TickCore::tick` is one call. Its numbered steps each read their own input, so `stage`
walks them in order and each step picks its input where the code reads it: a tick is
nine or ten transitions instead of one with the product of all inputs.

| Step of `tick()` | Action |
|---|---|
| `recover()` request, `begin_streaming` (before the tick) | `RequestRecover`, `BeginStreaming` |
| 1 ingest the packet, `process_gates`; or count its absence | `IngestRx`, `NoRx` |
| 2 stop, hold, kick, heartbeat | `ControlOps` (`StopRequested`, `HoldRequested`) |
| 3 RX-silence ladder | `RxSilence` (`ParkDue`, `DegradeDue`) |
| 4, 4b, 5 deadman, supervisor liveness, force guard | `Deadman`, `SupervisorLiveness`, `ForceGuard` |
| 6 recovery dwell | `RecoveryDwell` (`AllClear`, `DwellSatisfied`, `RecoveryComplete`) |
| 7 consume | `ConsumeNone`, `ConsumeReject`, `ConsumeHold`, `ConsumeBrake`, `ConsumeServo`, `ConsumeTrajectory` |
| 8–10 dispatch the mode, clamp, slew, transmit | `DispatchPark`, … , `DispatchReanchor`, all ending in `Emit` |

Abstractions, and why they are sound for what is checked:

* Time is counted in ticks, as in the code, with small thresholds. Counters that are
  only compared with `>= threshold` stop at the threshold.
* One joint stands for six. A profile is its length, chosen when it is planned (at most
  `MaxPhase` ticks), and any sample; the numerics of Hermite, capture and Ruckig are
  floating point and left out. `prev_q_` of the slew limiter always equals the commanded
  anchor after a tick and is merged with it.
* The epoch is kept as what `consume` compares: a target is `current` or not, and
  `bumped` says the epoch has moved since the tick began.
* Each motion id is submitted once (ids come from an atomic counter). Targets arrive,
  and `recover()` is called, only while streaming: the command gate and the supervisor
  see to that. A servo target that re-issues the running one is a new id.
* The packet that begins streaming shows an arm that stands still: nothing has been
  streamed to it yet.
* The event ring, diagnostics (sustained slew, counters) and the first-packet flags have
  no effect on the properties and are left out.

`inherited` and `heardSinceAsk` are history variables: kill gates asserted without a
break since before streaming, and whether a packet arrived since `recover()` was last
called. No action reads them.

### CoreContract and the refinement

`CoreContract` knows four health states (down, ok, faulted, parked), whether the arm is
being moved, whether a recovery is outstanding and whether the last window transmitted.
`TickCore` maps onto it through `ContractHealth` (from `streaming`, `fault` and `mode`),
the moving modes, `recoverPending` and `tx`. `ContractHolds` is the refinement: a fault
is left only through a `recover()` issued after the last fault entry, motion starts only
in a healthy stream, and every window transmits as the health says. One detail the
contract makes visible: losing the link (`enter_rx_silent`) does not withdraw an
outstanding recovery, every other fault does.

### RealtimeCore

Caller threads, the RT loop, a polling thread and `FanucDriver.reconnect` interleave at
the granularity of the atomics and rings they share.

| Code | Action |
|---|---|
| `move_j`, `move_trajectory`, `servo_j`: command gate, validation, capture gate | `MoveJ`, `MoveTrajectory`, `ServoJ` (`CommandRejected`, `CaptureGate`) |
| `submit_*`, `enqueue_` | `CallCore`, `Submit`, `StampStopGen`, `Push` |
| `kick`, `stop_j` | `Kick`, `StopJ` (two stores, two steps) |
| loop top, drain, displace, `consume_superseded` | `TakeRequests`, `Pop`, `Displace`, `DrainEmpty`, `LoadStopGen` |
| `tick()`, retire, `publish_snapshot_`, `drain_tick_events_` | `RunTick`, `RetireBuffers`, `PublishActive`, `DrainTickEvents` |
| `motion_status` | `MotionStatus` (each load a step) |
| `recover()`, `reconnect()`, `stop()`, `start()` and the wait for HOLD | `RequestRecover`, `Reconnect`, `CoreStop`, `CoreStart` |

The tick is one step with the effect it has on the slot, the epoch and the profile
played (`Fault`, `Park`, `Stop`, `Hold`, `Recover`, `Accept`, `Reject`, `Finish`): HOLD and
BRAKE are both `rest`, `SETTLE_TIMEOUT` is `DONE`. A gate faults before the control
operations of its tick, an expired watchdog or a silent link after them; losing the link
(`Park`) keeps a recovery that was asked for. A trajectory buffer is the address it is
allocated at; the allocator may hand a freed address out again, so a stale pointer can
meet a new owner. `hold`, gates and the dwell are inputs of the window. Callers
interleave as C++ threads do; under CPython's GIL fewer interleavings are reachable,
but the bindings release it and the RT thread never takes it. `reconnect()` issues its
`stop_j` in one step. The retries of bring-up are one outcome: with nothing changing the
core between attempts, each fails as the first did.

A mailbox that is full makes `enqueue_` return id 0; `motion_status(0)` then reads
PENDING for ever, which is why `PushedIsAnswered` speaks of targets that were pushed.

All of it at once is too much for TLC, so `MCRealtimeCore` adds a variable `mix`, chosen at
the start, that narrows who calls what: `stop` (a caller of `move_j`, `servo_j` and `stop_j`,
every kind of window), `restart` (a caller of `move_j`, faults, a recovery and a
`reconnect()`), `stopped` (one motion and a `stop_j` across a `reconnect()`), `fill` (one
caller, five trajectories, a mailbox of one) and `poll` (two callers, a watchdog, and the
thread that polls). Each mix takes a subset of the steps of `Next`.

### Supervisor

Four kinds of thread share the lifecycle: the watch loop, the recovery ladders it spawns
(`Autos`), callers of `recover()` (`Users`), and the thread that runs `close()` or
`reconnect()`. A step is one region under `_lock` or `_recovery_lock`, one read of the
core's snapshot, or one exchange over RMI, so that everything the code does between two
of them can be interleaved with everything the others do.

| Code | Action |
|---|---|
| `_watch_tick`: snapshot, record, decide; `_watch_loop`'s exit | `WatchSnap`, `WatchRecord`, `WatchDecide`, `WatchExit` |
| `_maybe_auto_recover`, `_syst348_watch` | `AutoRecovers`, `OperatorDone` inside `WatchDecide` |
| `recover()`, `_run_recovery_ladder` up to its body | `CallRecover`, `LadderBegin`, `LadderGate`, `LadderMark` |
| `_recovery_body`, `_rmi_relaunch_stream_motn` | `LadderCheck`, `LadderMoves`, `LadderOperator`, `LadderAsk`, `LadderTail` |
| `_relaunch_stream_motn_via_reconnect` | `LadderReconnect` |
| the `finally` block, `_reclassify_now` | `LadderFinally` (`LadderUngate`, `LadderClear`), `LadderLook`, `LadderRestore` |
| `arm()`, `_set_state_locked` | `Arm`, `SetState` |
| `shutdown()`, then `close()` or `reconnect()` with bring-up | `MainShutdown`, `MainStop`, `MainJoin`; `MainClose`; `MainGate` … `MainUngate` |
| the core as its snapshot shows it | `Packet`, `Trip`, `LinkDrops`, `Dwell`, `AskCore` |
| the link and the controller's RMI server (external) | `LinkReturns`, `RmiChanges` |

Abstractions:

* The core is reduced to its conditions, mode, latched fault and outstanding recovery.
  HOLD stands for every mode that moves or holds the arm; SAFE_FOLLOW and RX_SILENT are
  kept. What those four do is the behaviour `TickCore` has in detail.
* An RMI exchange ends as the session's condition says: answered, refused with an
  ErrorID, refused with SYST-348, or dead. `FRC_Continue` and the reseed are best effort
  in the code and have no outcome here.
* Clocks are two facts: the cooldown runs or does not; the fault is new or older than the
  settle delay. `TimePasses` ends both: one alone holds an attempt back as well as two. A
  bounded wait may give up at any step.
* Bring-up is the stages `torn`, `handshake`, `settle` with success or failure of each;
  `Bringup` has its RMI steps, retries and fork. The timed join of the watch thread is modelled as completing.
* `wasShut`, `recorded` and `pressed` are history variables no action reads, except that
  `Arm` is not tried when it would change nothing.

### Bringup and Preflight

| Code | Action |
|---|---|
| `bringup()`: entry, retry, give up | `Begin`, `NextAttempt`, `Triage`, `Teardown` |
| `_bringup_once`: connect, preflight, Initialize, continue, reset | `Connect`, `RunPreflight`, `Initialize`, `MaybeContinue`, `Reset` |
| the dispatcher probe and the fork | `ProbeWrite`, `ProbeRead`, `Fork` |
| the flush of the session | `Flush`, `FlushStop`, `Reconnect`, `Reseed` |
| STREAM_MOTN, the core, the wait for HOLD, the settle loop | `CallStream`, `StartCore`, `AwaitCore`, `Settle`, `Rereset`, `Recontinue`, `Rereseed`, `AwaitMotion` |
| the process dies and is started again | `Crash`, `Restart` |
| the controller (external) | `Frees`, `Dispatches`, `MotionRises`, `MotionDrops`, `CoreReturns` |

The controller keeps its NextSequenceID, the dispatchers it has forked (nothing kills them),
the trigger register, a session it has not freed yet, and whether STREAM_MOTN is launched.
An exchange is served or not; a `program_call` may also be lost, and one with an old
SequenceID is dropped, which is how the code describes the controller. Preflight picks what
the probe could read and what the controller has, and applies `HardBlocks`. The reference
`Disqualified` says by source (alarms, order file, listing) who may be refused, a source that
was not read saying nothing; `Verdict` compares the two: `pass`, `blocked` on such grounds,
`half-read` for the one case in which the code blocks without them (section 4), `unfounded`
for any other.

### RmiClient

| Code | Action |
|---|---|
| a call takes `_request_lock`, and lets it go | `Begin`, `Acquire`, `Release`, `Forget` |
| `_ensure_open_locked`, `_open_session_locked`, `_ensure_rx_thread` | `OpenSession`, `OpenFails`, `EnsureReader` |
| `_send_and_wait_locked`: register, send, wait, deadline | `Register`, `Send`, `Receive`, `Expire` |
| `_exchange_with_retry`, `_initialize_with_recovery_locked`: reopen, resend, next step, errors | `Answered`, `Refused`, `Failed`, `OnOSError` |
| `stop()`: event, socket, bounded join | `Halt`, `Joined` |
| `_rx_loop`, `_dispatch`, `_stash_async_packet`, `_on_socket_error` | `PickSocket`, `ReadPacket`, `Dispatch`, `Stashed`, `Put`, `SocketError` |
| `poll_async_packets` | `Poll` |
| controller and network (external) | `Answer`, `PushFault`, `PeerCloses` |

A packet is the identifier it echoes, or a push with its number; that is all the client
correlates by. Sockets, requests and threads are numbers that are used again once nobody
refers to them. A call begins whatever the others are doing: the supervisor's ladder and
`reconnect()` stop and start the client while the gripper worker and other callers are
inside requests. `recalled` is a history variable: the signal of a `stop()` that had not
returned (`Waiting`) was withdrawn by a `start()`, or by a reopen that started a reader
(`Recall`).

### Gripper

| Code | Action |
|---|---|
| `_submit`: refusal (result, then latch); clear the latch, forget the result, enqueue | `Submit`, `Refuse`, `Latch`, `Clear`, `Forget`, `Enqueue` |
| `wait` and its timeout | `Wait`, `Return`, `Leave` |
| `close`: event, executor shut down | `SignalStop`, `Shutdown` |
| `_execute`, `_finish` | `Take`, `Check`, `WriteModifier`, `WriteAction`, `WriteTrigger`, `Settle`, `Poll`, `StoreResult`, `SetLatch` |
| `set_recovery` by a ladder or by `reconnect`, whose bring-up probes | `RaiseGate`, `Probe`, `LowerGate` |
| GRIPDISP (external) | `Dispatch` |

None of these statements is under a lock in the code, so each is a step of its own.

### Driver

| Code | Action |
|---|---|
| `OwnershipLock.acquire` (flock, truncate, write), `release` | `Acquire`, `Refuse`, `Truncate`, `Stamp`, `Release` |
| constructor and emergency cleanup | `Construct`, `StartWatch`, `StartServices`, `EmergencyCleanup` |
| `reconnect` | `Quiesce`, `TearDown`, `Rebuild`, `Rebuilt` |
| `close`, with its timed joins and collected problems | `Close`, `StopThreads`, `StopTalking`, `Finish`, `BoundedJoin` |
| `FanucReceiveInterface.start`, `stop` | `Start`, `Stop` |
| a ladder, the gripper worker, the status poll, the receiver's polls | `BeginLadder`, `BeginGrip`, `BeginPoll`, `BeginRead`, `Request`, `End` |
| session lost; the process dies; another takes its place | `Drop`, `Die`, `Respawn` |

A request of any thread reopens the session, which is what makes the order of the teardown
matter. A thread inside an exchange goes on with it, told to stop or not: `_execute` writes
its three registers, a ladder its next command. Each wait for a thread (`WaitOver`) ends
because the thread has ended or because the wait is bounded, two seconds for a join and for
a ladder, nothing for the gripper's executor, against two deadlines of four seconds and more
for one exchange. The history variable `late` keeps the threads that were still inside an
exchange when the last wait for them ended. `close()` and `reconnect()` of one driver are
called from one thread.

### Republisher

| Code | Action |
|---|---|
| the snapshot callback of `driver.py`: monotonic stamp to wall clock | `Snapshot` |
| `_age_ms`, stale flag, put | `Publish` (`Reported`, `Stale`) |
| the status round: snapshot, status, two toasts, any put raising | `TakeStatus`, `PutStatus`, `ToastMotion`, `ToastFault` |
| `start`, `stop` | `Start`, `Stop` |
| the clocks, the stream and the robot | `Tick`, `StepClock`, `Receive`, `RobotChanges` |

Times are kept as ages, and the wall clock as its offset from the monotonic one, so that the
state is finite. The clock is set at any point, also between the two readings of one
publication; the history variable `stepped` keeps the topics this happened to.

## 3. What the runs check

Bounds are the smallest that let the interesting cases happen; thresholds keep the
order they have in the code's defaults (blind ≤ park ≤ dwell).

| Run | Instance | Shows |
|---|---|---|
| `TickSafety` | 2 motions of every kind, three gate words, every control operation, thresholds 1–2 | type, slot/profile agreement (`SlotMatchesProfile`), a raised kill gate faults, one terminal event, no recovery over a raised gate or without a fresh packet, refinement of `CoreContract` |
| `TickWire` | 1 trajectory, positions 0..3, soft limit 2, silence, watchdogs and stops but no gates, fair ticking | continuity of the wire, resume at the measured pose, no transmission into a dead link except the loss window; profiles end; silence parks and a supervisor lapse faults (`LossesAct`) |
| `Core` | five mixes: 2 motions and a stop, or a restart, among faults and recoveries; a motion and a stop across a restart; 5 trajectories, mailbox of 1, retire ring of 4; 2 callers, 2 motions, a poller | type, stop precedence, the table answers truly for every resolved motion, no buffer lost at either ring's limit, knots outlive motions, no pushed target forgotten |
| `Supervisor` | 1 automatic ladder, 2 callers, four gate conditions, a silent link, an expired deadman, three ways for RMI to fail; two events in all | no ladder opens the gripper gate under another; a recorded human-in-the-loop fault needs `arm()`; faults heal; the gate and RECOVERING never stick (`RecoveryLetsGo`) |
| `Bringup` | every policy, 2 attempts, 2 flush and 2 settle tries, 2 bring-ups, SequenceIDs to 6, crashes anywhere | one fork per bring-up; no duplicate SequenceID; nothing left for the next attempt; preflight refuses on evidence, half-read order files excepted; it ends |
| `RmiClient` | 2 threads on four scripts (Initialize; a request and a `program_call`; `stop` against a request; `stop` against `start` and a `program_call`), ring of 1, one push, 3 sockets, requests and readers | one reader of the socket unless a `stop()` was recalled; a push outlives its session; every call returns |
| `Gripper` | 2 callers, 2 commands, the gate raised once, `close` | at most one command touches the registers under the gate; waits end |
| `Driver` | 1 driver, 2 receive interfaces, 1 death, every thread free to outlive its wait | who talks holds the lock, what a late thread reopens excepted; the record names the holder; the gate is held over a rebuild until a late ladder ends; `close()` releases although a thread is wedged |
| `Republisher` | 1 topic, stale at 1, no age above 2, wall clock at -3, 0 or 2 | what is published as fresh is recent, wrong by no more than a step taken between the two readings; a fault that stays is announced |
| `SupervisorEStop` | 1 ladder, e-stop and lost motion | violated: section 4 |
| `GripperMidRecovery` | as `Gripper` | violated: section 4 |
| `PreflightUnread` | as `Bringup` | violated: section 4 |

Two motions are enough for slot and outcome properties because they relate the motion
in the slot with the one that displaces it. Positions 0..3 with a slew step of 1 leave
room for a jump of two or three steps, which is what a missed re-seed produces; the soft
limit below the top makes the clamp bite. Gates are left to `TickSafety`; the wire
properties are proved for every gate word in section 5. Motions are interchangeable and their
permutations are used as a symmetry set in `TickSafety`. In `Core` the allocator is free
between two addresses, which are a symmetry set, and takes the other three in order when
those are in use: a freed address can be handed out again in every mix. Liveness runs use no
symmetry.

`Supervisor` counts faults of the robot, of the link and of RMI, calls of `recover()` and
calls of `close()` or `reconnect()` against one bound of two. Two is what its hazards take:
a fault and an RMI session that fails its recovery, a fault and an explicit `recover()`
racing the automatic one, a fault and a shutdown. Conditions clear, and RMI heals, as often
as they like. The three invariants were also checked with three events on two conditions
(3.1 million states).

The bounds of the others: two attempts and two bring-ups let a retry follow a fork, a crash
follow a call, and a second bring-up meet what the first left; six SequenceIDs are what the
calls of two bring-ups use. Two threads on the RMI client let one reopen what the other
waits on or stop what the other starts, three readers are one registered, one left behind
and one more, and a ring of one is full after one packet. Two gripper commands are one under way
and one queued or refused, which is what `OneLeak` tells apart. A driver and two
receive interfaces are a holder that has died or is closing, the next holder and a contender;
two drivers against each other are left to the proofs, which cover any number of either. A clock set by less and by more than
`MaxAge` makes old data look fresh where nothing checks. One topic is enough: the threads of
two share nothing but the clocks.

Three things the runs taught about the parameters:

* `RecoveryHeardController` rests on the dwell being at least as long as the park time.
  In the code both are 500 ms, 63 ticks. A shorter dwell could complete in SAFE_FOLLOW on
  silence alone.
* `RetireCap >= MailboxCap + 3` is what the retire ring needs: everything in a full
  mailbox, the target already popped, the active owner, and one refused target may be
  retired between two reaps. With one entry less a buffer is lost. The code has 15 and 63.
* SUPERVISOR_LOST takes a parked core to SAFE_FOLLOW and transmits one window into a dead
  link before the silence ladder parks it again (`SilentTxOnlyOnLoss` states exactly that).

### Fairness

`TickWire` uses weak fairness on `Tick`: the RT thread is a timer loop that never waits
for a caller. No fairness is put on packets, operations or `begin_streaming`.
`Core` checks safety only and assumes no fairness.

`Supervisor` needs fairness of whole threads: a thread that is not at a place of rest
takes steps for ever. Every step of a thread moves its program counter, so this is stated
as infinitely many changes of the counter unless the thread is infinitely often at rest,
which keeps TLC's tableau small. The watch loop rests when it is off, a ladder when it is
idle, the closing thread when it has nothing to do or joins a watch loop that has not
ended. The code justifies it: every wait and every RMI request of these threads is
bounded. The RT loop's dwell and the passing of time are weakly fair. Nothing is assumed of
packets, the link, RMI, or anyone's calls; `FaultsHeal` carries its own premise that from
some time on nothing is wrong.

`Bringup`: weak fairness of the thread that brings up, and of nothing else; the controller
may stay silent at every step, because every wait of the ladder is bounded. `RmiClient`:
weak fairness of each thread, and strong fairness of taking `_request_lock` (a free lock is
not withheld for ever from one thread); controller and network promise nothing. `Gripper`:
weak fairness of the worker, of a caller between two unlocked statements, and of waking from
a latch that stays set; a wait may time out but need not. `Driver`: weak fairness of the
steps of `close()` only, so no thread it joins has to end. `Republisher`: weak fairness of
the status thread, and strong fairness of each put, which says a put that is tried for ever
gets through some time; without it nothing can be announced.

`CHECK_DEADLOCK FALSE` is used only where the system may stop: `reconnect()` can end in
`failed`, the driver is closed, the scripts, commands or bring-ups of the bound are used up,
and nobody has anything left to do.

## 4. Where the code and the repository's statements disagree

Three disagreements are runs TLC must find violated, and `PROJECT.json` quotes the lines.

`SupervisorEStop`: the ARM gate latches on the cause the watch loop reads. A drop of
`motion_possible` in a packet after the e-stop's own replaces that cause in the core before
the loop looks, and auto-recovery then ends in STREAMING with motion permitted. An e-stop
pressed and released during a ladder goes the same way.

`GripperMidRecovery`: "a gripper command must never actuate GRIPDISP mid-recovery"
(`driver.py:365-366`, and `:797-798` of a reconnect). `_execute` looks at the gate once, then
writes three registers; a gate that rises after the look does not stop the trigger. With
`reconnect()` its writes mix with the probe's. `OneLeak` bounds this at one command.

`PreflightUnread`: a file that would not fetch "must never read as evidence of absence"
(`preflight.py:208-209`). An order file that was read and does not list S636, together with a
listing that could not be read, is a hard block that calls the programs missing.
`RefusedOnEvidence` says there is no second such case.

Other departures are behaviours of the models. Where a property meets one it states exactly
that exception and no more, and the model takes the steps that lead to it.

*Tick core and realtime core*

* A refused target (stale epoch, superseded, splice refused) takes the slot of the running
  motion without resolving it. The motion is played to its end and its handle never resolves.
* The active id and status are published by two stores; a poll between them reports the
  previous motion's terminal status for the new motion.
* `stop()` frees every buffer but keeps the mailbox; a submit racing `reconnect()` is played
  after the restart from freed knots. `KnotsOutliveMotion` ends at the first restart.
* The path the capture gate checks starts at the pose of a snapshot; the core splices from the
  pose commanded when it consumes the target. A target still queued, another thread's
  submission or a fault and its recovery may move the arm in between, so "the checked path IS
  the executed path" (`driver.py:1232-1233`) and "its anchor cannot move between the read and the
  submission" (`driver.py:402`) hold only for a sole caller who has waited for its motions.
  The core's own capture gate still bounds the splice.
* A cold reconnect of a faulted core waits for HOLD, which nothing brings about: the restart
  keeps the latch and nobody calls `recover()`.
* A gate edge in the first packet after a silence resumes TX from the anchor of before it.
* A trajectory that completes leaves its force guard armed in HOLD.

*Supervisor and bring-up*

* A ladder aborts when it sees RX_SILENT, which is the mode of the fault it was started for.
  A core that parked stays parked after the link is back unless a gate edge takes it out;
  `FaultsHeal` is about the other faults.
* The reclassification at the end of a failed ladder can overwrite the RECOVERING of the next.

*RMI client*

* The docstring at `rmi_client.py:48-49` says the RX thread is the sole reader. A `stop()`
  raises its signal and joins its reader outside the lock; a `start()`, or a request whose
  reopen starts a reader, clears that signal, the old reader never hears of it, and two read.
  The ladder's reconnect (`supervisor.py:719-724`) and `reconnect()` (`driver.py:815-819`) can
  meet it. `SoleReader` excepts what follows such a recall (`recalled`), and nothing else:
  every other overlap of `start()`, `stop()` and requests is covered.
* `start()` over an open session leaks the old socket.
* An error on an old socket fails the request pending on the new one, and a late packet of a
  dead socket answers a new request of the same identifier.
* A reader blocks for good on an inbox that already holds an answer; `SoleReader` does not
  count it as reading.
* `program_call` asserts that the socket is there; if the RX thread drops it first the
  assertion escapes instead of a retry. Nothing in the repository calls `poll_async_packets`.

*Gripper*

* The done latch is shared: a second command clears it, and the first one's `_finish` then
  completes the second (`gripper_worker.py:203`). Clearing and forgetting interleave with
  storing and setting, so a wait can return `None`. `WaitsEnd` claims only that it returns.
* `close()` cancels a queued command whose latch is already clear: its `wait(None)` hangs.

*Driver, ownership, receive interface*

* A ladder that outlives the two-second wait of `shutdown()` releases the gripper gate that
  `reconnect()` holds over its rebuild, against `driver.py:804-806`. `GateHeld` lets the gate
  fall only when that very ladder ends.
* A thread that outlives the bounded wait for it reopens the session after the lock is gone:
  a poll thread of the receive interface (`receive_interface.py:298-300`), the gripper's
  worker, which `close()` does not wait for at all, a ladder, the status poll. `SoleTalker`
  excepts the session of such a process (`late`), never its stream.
* `close()` against `reconnect()` of another thread, and `get_tcp_pose` after `close()`, reopen
  a session. A `core.stop` that was abandoned is followed by the release of the lock.
* A contender between the holder's flock and its record is told the pid of a dead process.

*Republisher*

* A clock set between the two readings of one publication gives a false age: data older than
  `STALE_MS` by as much as the clock was set back is published as fresh. `FreshIsRecent`
  excepts that publication, up to the size of the step.
* When the motion toast's put raises in the round that would have recorded a healthy state,
  the next fault shows no edge and is not toasted. A payload that is too large is dropped
  without a word.

## 5. What is proved

TLAPS checks the following for every value of the constants that satisfies the named
assumptions of the modules: any set of callers, ladders, clients or processes, any
threshold, capacity and bound.

| Module | Theorem | Statement |
|---|---|---|
| `TickCoreProofs` | `TypeCorrect` | `Spec => []TypeOK` |
| | `FaultLatches` | `Spec => []FaultLatched` |
| | `RunningPlayed`, `PlayedOpen`, `SlotMatches` | `Spec => []SlotMatchesProfile`, and its two halves |
| | `OutcomesFinal` | `Spec => OutcomeIsFinal` |
| | `KillGatesFault` | `Spec => []KillGateFaults` |
| | `WireIsContinuous` | `Spec => WireContinuity` |
| | `ResumeIsMeasured` | `Spec => ResumesAtMeasured` |
| | `SilentTxIsLoss` | `Spec => []SilentTxOnlyOnLoss` |
| | `RecoveryHeard` | `DwellTicks >= ParkTicks` implies `Spec => RecoveryHeardController` |
| | `ImplementsContract` | `Spec => ContractHolds` |
| `RealtimeCoreProofs` | `CoreTypes` | `Spec => []TypeOK` |
| | `StopAlwaysWins` | `Spec => []StopWins` |
| `CoreDataProofs` | `NoBufferIsLost` | `Spec => []BuffersReclaimable` |
| | `KnotsOutlive` | `Spec => []KnotsOutliveMotion` |
| | `OutcomesAreReadable` | `Spec => []ResolvedIsReadable` |
| | `TableIsTrue` | `Spec => []TableTellsTruth` |
| `SupervisorProofs` | `TypesHold` | `Spec => []TypeOK` |
| | `RecordedFaultNeedsArm` | `Spec => []RecordedNeedsArm` |
| | `LadderKeepsGate` | `Spec => []LadderGated` |
| `BringupProofs` | `ForksOnce` | `Spec => []ForkOnce` |
| | `NeverGoesStale` | `Spec => []NeverStale` |
| | `FailsClean` | `Spec => []CleanFailure` |
| | `RefusesOnEvidence` | `Spec => []RefusedOnEvidence` |
| `RmiClientProofs` | `TypesHold` | `Spec => []TypeOK` |
| | `PushesSurvive` | `Spec => RingSurvives` |
| | `ReadsAlone` | `Spec => []SoleReader` |
| `GripperProofs` | `LeaksOnce` | `Spec => []OneLeak` |
| `DriverProofs` | `HolderIsNamed` | `Spec => []HolderNamed` |
| | `SoleTalkerHolds` | `Spec => []SoleTalker` |
| | `GateIsHeld` | `Spec => []GateHeld` |

So every invariant a passing run checks is also proved but `PushedIsAnswered`, and every
action property but `FreshIsRecent`.
Everywhere the argument is one inductive invariant per concern, preserved by every action
given the types and the invariants before it.

### The tick core

* **Type** (`TypeOK`) is split into `FlagsOK` (Boolean variables, which Zenon handles) and
  `DataOK` (numbers, sets and functions, which the SMT solver handles).
* **`ModeInv`**. `FaultLatched` alone is not inductive: a force trip begins a brake in
  whatever mode it finds, which would take a faulted core out of its fault mode with the
  fault still latched. It cannot, because only a trajectory arms the force guard and every
  way from a trajectory to a fault or a brake disarms it; `forceArmed => mode \in {HOLD,
  CAPTURE, TRAJECTORY}` is the missing conjunct. A recovery is pending only in a fault mode.
* **`MotionInv`**. A RUNNING slot names an open motion, which is the one being played; a
  moving mode plays an open motion, even after a refusal has taken the slot from it. Since
  every step writes a terminal status only over an open motion, outcomes are final.
* **`GateInv`**. While streaming the kill conditions are the last gates seen; without a
  latched fault those are all inherited. The dwell's level test is what re-establishes it
  when a recovery clears the latch.
* **`WireInv`**. The anchor is what was last sent. A parked core whose last window was
  transmitted is still inside the tick that parked it, and the silence that parked it keeps
  the dwell from completing, so the re-seed never meets a live wire. A streaming core with a
  silent wire is parked, or anchored at the measured pose, or in a fault entered this tick.
* **`LossInv`**. Past the silence ladder of a tick that has lasted the park time, the core is
  parked, or SUPERVISOR_LOST un-parked it in this very tick.
* **`HeardInv`**. A dwell that has heard nothing since it was asked for has counted fewer
  ticks than the silence has lasted; the park stops it at `ParkTicks`. The theorem's
  hypothesis on the two thresholds is therefore needed, and it is the only place where it is.
* The **refinement** maps each step to one contract step: a fault entry to `Fault`, the park to
  `Park` (or a stutter before streaming), the dwell to `Recover`, a mode change inside a
  healthy tick to `Move` or `Rest`, and the end of a tick to `Window` or `Rest`.

### The threads around it

* **`TypeInv`** says more than `TypeOK`: each thread at each of its places holds what that
  place needs, such as a target with an id, or a slot of the table.
* **`PipeInv`**. Ids are handed out under `submit_mu_`, which also covers the push, so the
  mailbox is sorted by id, `pending` and `popped` are older than anything in it, and whatever
  is being submitted is newer than whatever was pushed.
* **`StopInv`**. A stop counts only against the motions pushed before it read `stop_gen_`.
  A target under way that a stop has outrun carries an older stamp than `stop_gen_`, so
  `consume_superseded` is true for it at the tick; a motion already playing meets the stop
  request itself, which is still pending until the tick takes it.
* **`RoomInv`**. The retire ring may hold, before anybody reaps, the buffers of a full
  mailbox, of the popped and the pending target and of the one being submitted: its load is
  at most `MailboxCap + 3`. `RoomAssumption` gives the ring that many places, so the push on it
  never fails, and **`ReclaimInv`**, that every allocated buffer has an owner, is preserved.
  The code has a mailbox of 15 and a ring of 63.
* **`KnotInv`**. Every target under way has the buffer its caller wrote, no two share one, and
  the buffer played is the pending target's or `active_traj_owner_`'s, never both. The
  theorem ends at the first `reconnect()`, which clears `live_buffers_` under a mailbox that
  survives it (section 4); that is why the property is stated for `reconnects = 0`.
* **`TableInv`**. The table is filled from the front (`SlotsInv`) and each entry is the outcome
  of a different resolved motion; a resolved motion is in the table, or among the events
  still to be drained, or is the displaced target between the two stores of
  `record_resolution_` (`EventsInv`); what has not been played yet is PENDING (`FreshInv`).
  That the table never wraps over a motion is a pigeonhole argument: as many motions as slots
  would have to be recorded, all different, and one more resolve. `TableSize >= MaxMotions`
  is the other half of `RoomAssumption`. In the code, with 1024 slots, it holds for the first
  1024 motions of a core; later an old handle may read PENDING, which is outside the model
  (section 6).
* **`ReadInv`**. A poll that has matched a slot's id still finds that id there, so the status
  it loads afterwards is that motion's.

### Supervisor and bring-up

* **`ArmInv`** and **`FlightInv`**. Whatever records a fault that needs a human inhibits motion
  and only `arm()` takes either back. `LadderGated` alone is not inductive: that the
  `finally` of one ladder does not lower the gate of another needs single flight, as
  "two ladders in flight are the same one, and `recovering` is set".
* **`SeqInv`**: from the re-anchoring in `initialize()` on, the client's counter is not behind
  the controller's. **`ForkInv`**: the fork is reached only with the latch down.
  **`DownInv`**: the core is stopped at every place before its start and after a teardown; it
  needs that a stopped core reports no motion. **`GroundsInv`** rests on one lemma about
  `Preflight`, that a non-empty set of hard blocks is founded on an alarm or a file that was
  read, or is the half-read order file, for every combination of facts.

### RMI client and gripper

* **`TypeInv`** of the client is proved for every script of calls and every number of threads:
  a call in progress is one of its script's, at a place its kind of call visits; sockets,
  requests and readers are in their ranges. Its choices of a free socket, request or reader take the least one; that
  a least one exists is proved from the well-foundedness of the order (`FirstIn`).
* **`SoleInv`** holds until a recall. A live reader is the registered one, one `stop()` is
  joining, or one `stop()` gave up on, and the last is blocked for ever: its inbox is full and
  nobody waits for the request it belongs to any more (`ReaderInv`). Two of the first two kinds never
  coexist: from raising its signal to its return a `stop()` finds the signal up, so no reader
  is started while it joins (`SignalInv`), and no two calls of `stop()` join one each
  (`LeaveInv`). A recall is the step that breaks `SignalInv`, hence the exception.
* **`RingSurvives`** is an action property; the case that matters is the push on a full
  ring, which drops the oldest packet and nothing else.
* **`LeakInv`** of the gripper. All that has leaked under the gate is one command, and while the
  gate is up a worker with a register still to write is at work on that very command.
  `OneLeak` counts; what is inductive is the name of the command.

### Driver

* **`LockInv`**: `lock = p` if and only if `p` is between acquire and release; from the second step of
  `_write_holder` on the record is its own.
* **`BusyInv`**: whoever is inside an exchange has not been told to stop yet, or the wait for it
  is over and it is `late`.
* **`DownInv`**: a teardown brings down the threads, then the stream, then the session; what is
  down stays down, because only a thread could reopen it, and by `BusyInv` that thread is late.
* **`GateInv`**: from `shutdown()` on no ladder begins, one that is left when the rebuild begins
  is late, and the gate is up until it ends.

### What is only model-checked

The liveness properties: `ProfilesEnd`, `LossesAct`, `FaultsHeal`,
`RecoveryLetsGo`, `CallsReturn`, `BringupEnds`, `WaitsEnd`, `CloseReleases` and
`FaultAnnounced`. Liveness under fairness, `ENABLED`, and what recursive definitions compute
are beyond the proof system and stay with TLC; no module declares a recursive operator.
The invariant `PushedIsAnswered` and the action property `FreshIsRecent` have no proof yet.

## 6. Not modelled, and the plan

Left out for good, and why:

* codec and bindings: byte layout and glue, no state;
* the profile numerics (Hermite, capture, Ruckig, servo), the PLL, the receive interface's
  velocity fit and calibration gate: floating point;
* the snapshot seqlock and the `joints_at` ring: their correctness rests on the C++ memory
  model, which is weaker than the sequential consistency TLC explores, so a model would show
  less than it seems to;
* configuration and profiles: validated records; the test doubles and the examples.

Left out so far: several packets in the RX batch of one window (`TickCore` takes one); the
resolution table after it has wrapped, when an old handle reads PENDING; the numbers that
validation and planning of trajectories compute, and the read-only getters of the driver; the comparison of joint
limits in preflight, which only warns, and the parsers of the probe; the payloads of the
republisher.

Proofs left: `PushedIsAnswered` of `RealtimeCore` and `FreshIsRecent` of `Republisher`;
type correctness of `Bringup`, `Gripper` and `Driver` is proved only as part of the inductive
invariants (`TypeInv`, `SeqInv`), which is all their theorems need.
