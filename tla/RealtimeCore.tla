---------------------------- MODULE RealtimeCore ----------------------------
(***************************************************************************)
(* The threads around the tick (src/cpp/rt_core/realtime_core.cpp): caller *)
(* threads that submit motions and call stop_j, the RT thread's loop, the  *)
(* thread that polls a MotionHandle, and FanucDriver.reconnect, which      *)
(* stops and restarts the same core.  Every atomic load, store, ring push  *)
(* and pop that another thread can observe is a step of its own.           *)
(*                                                                         *)
(* Abstractions.  The tick is one step with the effect it has on the slot, *)
(* the epoch and the profile being played (module TickCore has its inside).*)
(* What the controller and the profile do in a window is the input of that *)
(* step.  A TrajBuffer is the address it is allocated at.                  *)
(***************************************************************************)
EXTENDS Integers, FiniteSets, Sequences

CONSTANTS
    Callers,       \* threads that submit motions and call stop_j
    Entries,       \* what they call: move_j, move_trajectory, servo_j, and the core itself
    Addrs,         \* addresses the allocator hands out for a TrajBuffer
    NoAddr,        \* nullptr
    MaxMotions,    \* bound: motions submitted
    MaxStops,      \* bound: stop_j calls of the callers
    MaxEpoch,      \* bound: fault entries and recoveries
    MaxReconnects, \* bound: reconnect() calls
    MailboxCap,    \* targets the mailbox holds
    RetireCap,     \* buffers the retire ring holds
    TableSize,     \* kResolutions
    Windows,       \* what a window may bring: quiet, fault, hold, lapse, silent, recover
    Polling        \* whether a thread polls the handles

\* What each entry point submits; the driver calls neither of the last two.
KindOf == [move_j |-> "kTrajectory", move_trajectory |-> "kTrajectory",
           servo_j |-> "kServo", submit_brake |-> "kBrake", submit_hold |-> "kHold"]
TargetKinds == {KindOf[e] : e \in Entries}

ASSUME SizeAssumption ==
    /\ Entries \subseteq DOMAIN KindOf
    /\ NoAddr \notin Addrs
    /\ {MaxMotions, MaxStops, MaxEpoch, MaxReconnects} \subseteq Nat
    /\ MailboxCap \in Nat \ {0} /\ RetireCap \in Nat /\ TableSize \in Nat \ {0}
    /\ Polling \in BOOLEAN

\* The code has a mailbox of 15, a retire ring of 63 (a ring of n keeps one
\* entry empty) and a table of 1024.  The retire ring outlasts what can be
\* retired between two reaps; the table outlasts a handle that is polled.
ASSUME RoomAssumption ==
    /\ RetireCap >= MailboxCap + 3
    /\ TableSize >= MaxMotions

Ids == 1..MaxMotions
Terminal == {"DONE", "STOPPED", "PREEMPTED", "FAULTED", "REJECTED"}
Status == {"PENDING", "RUNNING"} \cup Terminal

Target == [id: 0..MaxMotions, kind: TargetKinds \cup {"kNone"}, epoch: 0..MaxEpoch,
           stop_gen: 0..(MaxStops + MaxReconnects), addr: Addrs \cup {NoAddr}]
NoTarget == [id |-> 0, kind |-> "kNone", epoch |-> 0, stop_gen |-> 0, addr |-> NoAddr]

VARIABLES
    \* caller threads: where each is, the target it builds, what was pushed
    \* before its stop_j began
    at, building, before,
    \* shared by the threads
    submitMu, mailbox, nextId, stopGen, stopReq, recoverReq, publishedEpoch,
    live,       \* live_buffers_: the motion whose knots an address holds, or 0
    retireRing, resolutions, activeId, activeStatus, stopFlag,
    \* the RT thread
    rt, core, pending, popped, superseded, stopping, accepted, head,
    activeOwner,
    \* the polling thread, and reconnect()
    reader, reconnect, reconnects,
    \* history: targets pushed; motions pushed before a stop_j that is asked
    \* for, and before one the RT thread has taken
    pushed, outrun, stopped

callerVars == <<at, building, before>>
ringVars   == <<mailbox, retireRing, live>>
rtVars     == <<core, pending, popped, superseded, stopping, accepted, head, activeOwner>>
pubVars    == <<publishedEpoch, resolutions, activeId, activeStatus>>
opVars     == <<stopReq, recoverReq, outrun, stopped>>
lifeVars   == <<stopFlag, reconnect, reconnects>>

vars == <<callerVars, submitMu, nextId, stopGen, ringVars, rt, rtVars, pubVars,
          opVars, lifeVars, reader, pushed>>

Core == [mode: {"rest", "moving", "fault"}, playing: 0..MaxMotions,
         buf: Addrs \cup {NoAddr}, slot: 0..MaxMotions, status: Status,
         epoch: 0..MaxEpoch, recovering: BOOLEAN,
         events: Seq([id: Ids, status: Terminal]), outcome: [Ids -> Status]]

TypeOK ==
    /\ at \in [Callers -> {"idle", "planned", "stamping", "pushing", "stopping"}
                         \cup TargetKinds]
    /\ building \in [Callers -> Target]
    /\ before \in [Callers -> SUBSET Ids]
    /\ submitMu \subseteq Callers
    /\ mailbox \in Seq(Target) /\ Len(mailbox) <= MailboxCap
    /\ nextId \in 1..(MaxMotions + 1)
    /\ stopGen \in 0..(MaxStops + MaxReconnects)
    /\ stopReq \in BOOLEAN /\ recoverReq \in BOOLEAN /\ stopFlag \in BOOLEAN
    /\ superseded \in BOOLEAN /\ stopping \in BOOLEAN /\ accepted \in BOOLEAN
    /\ publishedEpoch \in 0..MaxEpoch
    /\ live \in [Addrs -> 0..MaxMotions]
    /\ retireRing \in Seq(Addrs) /\ Len(retireRing) <= RetireCap
    /\ resolutions \in [1..TableSize -> [id: 0..MaxMotions, status: Status]]
    /\ activeId \in 0..MaxMotions /\ activeStatus \in Status
    /\ rt \in {"top", "drain", "displace", "displaced", "gen", "tick", "retire",
               "publish", "publishStatus", "events", "eventId", "exited"}
    /\ core \in Core
    /\ pending \in Target /\ popped \in Target
    /\ head \in 1..TableSize
    /\ activeOwner \in Addrs \cup {NoAddr}
    /\ reader \in [at: {"idle", "scan", "slot", "active", "status"}, id: 0..MaxMotions,
                   k: 1..(TableSize + 1), got: Status, via: {"none", "table", "active"}]
    /\ reconnect \in {"idle", "asked", "shutdown", "stop", "start", "hold", "failed"}
    /\ reconnects \in 0..MaxReconnects
    /\ pushed \subseteq Ids /\ outrun \subseteq Ids /\ stopped \subseteq Ids

Init ==
    /\ at = [c \in Callers |-> "idle"]
    /\ building = [c \in Callers |-> NoTarget]
    /\ before = [c \in Callers |-> {}]
    /\ submitMu = {} /\ mailbox = <<>> /\ nextId = 1
    /\ stopGen = 0 /\ stopReq = FALSE /\ recoverReq = FALSE /\ publishedEpoch = 0
    /\ live = [a \in Addrs |-> 0] /\ retireRing = <<>>
    /\ resolutions = [k \in 1..TableSize |-> [id |-> 0, status |-> "PENDING"]]
    /\ activeId = 0 /\ activeStatus = "PENDING" /\ stopFlag = FALSE
    /\ rt = "top"
    /\ core = [mode |-> "rest", playing |-> 0, buf |-> NoAddr, slot |-> 0,
               status |-> "PENDING", epoch |-> 0, recovering |-> FALSE,
               events |-> <<>>, outcome |-> [m \in Ids |-> "PENDING"]]
    /\ pending = NoTarget /\ popped = NoTarget
    /\ superseded = FALSE /\ stopping = FALSE /\ accepted = FALSE
    /\ head = 1 /\ activeOwner = NoAddr
    /\ reader = [at |-> "idle", id |-> 0, k |-> 1, got |-> "PENDING", via |-> "none"]
    /\ reconnect = "idle" /\ reconnects = 0
    /\ pushed = {} /\ outrun = {} /\ stopped = {}

-----------------------------------------------------------------------------
(* Caller threads: submit_* and stop_j.                                    *)

\* reap_retired_locked_: every retired address is dropped from live_buffers_.
Reaped(buffers) ==
    LET retired == {retireRing[i] : i \in 1..Len(retireRing)} IN
    [a \in Addrs |-> IF a \in retired THEN 0 ELSE buffers[a]]

\* _require_commandable: every call is refused from shutdown() on.  A fault refuses calls
\* too once the watch loop has seen it, which may be at any time after the fault.
CommandRejected == reconnect \notin {"idle", "asked"}

Enter(c, from, to) ==
    /\ at[c] = from /\ nextId <= MaxMotions
    /\ at' = [at EXCEPT ![c] = to]
    /\ UNCHANGED <<building, before, submitMu, nextId, stopGen, ringVars, rt, rtVars,
                   pubVars, opVars, lifeVars, reader, pushed>>

\* move_j: the gate, a target and a speed within limits, an arm the snapshot shows at
\* rest (which one that moves also is, for a moment), a profile planned from there.
MoveJ(c) == "move_j" \in Entries /\ ~CommandRejected /\ Enter(c, "idle", "planned")

\* _capture_gate: the path from the pose the snapshot shows to the first knot is refused
\* or collides, and the call raises; or the submit goes ahead, also with a path that
\* will be refused if the call is asynchronous.
CaptureGate(c, from) ==
    Enter(c, from, "kTrajectory") \/ (from # "idle" /\ Enter(c, from, "idle"))

\* move_trajectory, called or from move_j: the gate (again), the guards' thresholds,
\* _validate_trajectory, _capture_gate.  A call that raises has changed nothing.
MoveTrajectory(c) ==
    \/ "move_trajectory" \in Entries /\ ~CommandRejected /\ CaptureGate(c, "idle")
    \/ ~CommandRejected /\ CaptureGate(c, "planned")
    \/ CommandRejected /\ Enter(c, "planned", "idle")

\* servo_j: the gate and a finite target; no path is checked.
ServoJ(c) == "servo_j" \in Entries /\ ~CommandRejected /\ Enter(c, "idle", "kServo")

\* submit_brake and submit_hold as the bindings offer them, past the driver's gate.
CallCore(c) == \E e \in Entries \cap {"submit_brake", "submit_hold"} : Enter(c, "idle", KindOf[e])

\* submit_*: lock, reap, copy the knots into a buffer; enqueue_ then takes an
\* id and stamps the published epoch.
Submit(c, kind) ==
    /\ at[c] = kind /\ submitMu = {} /\ nextId <= MaxMotions
    /\ \E a \in IF kind = "kTrajectory" THEN {x \in Addrs : Reaped(live)[x] = 0} ELSE {NoAddr} :
          /\ building' = [building EXCEPT ![c] =
                            [id |-> nextId, kind |-> kind, epoch |-> publishedEpoch,
                             stop_gen |-> 0, addr |-> a]]
          /\ live' = [x \in Addrs |-> IF x = a THEN nextId ELSE Reaped(live)[x]]
    /\ retireRing' = <<>>
    /\ submitMu' = {c} /\ nextId' = nextId + 1
    /\ at' = [at EXCEPT ![c] = "stamping"]
    /\ UNCHANGED <<before, stopGen, mailbox, rt, rtVars, pubVars, opVars, lifeVars,
                   reader, pushed>>

StampStopGen(c) ==
    /\ at[c] = "stamping"
    /\ building' = [building EXCEPT ![c].stop_gen = stopGen]
    /\ at' = [at EXCEPT ![c] = "pushing"]
    /\ UNCHANGED <<before, submitMu, nextId, stopGen, ringVars, rt, rtVars, pubVars,
                   opVars, lifeVars, reader, pushed>>

BugDropKeepsBuffer(t) == live

\* A full mailbox drops the target and frees its buffer at once.
BuffersAfterDrop(t) == [a \in Addrs |-> IF a = t.addr THEN 0 ELSE live[a]]

Push(c) ==
    LET t == building[c] IN
    /\ at[c] = "pushing"
    /\ \/ /\ Len(mailbox) < MailboxCap
          /\ mailbox' = Append(mailbox, t)
          /\ pushed' = pushed \cup {t.id}
          /\ UNCHANGED live
       \/ /\ Len(mailbox) >= MailboxCap
          /\ live' = BuffersAfterDrop(t)
          /\ UNCHANGED <<mailbox, pushed>>
    /\ submitMu' = {}
    /\ at' = [at EXCEPT ![c] = "idle"]
    /\ building' = [building EXCEPT ![c] = NoTarget]
    /\ UNCHANGED <<before, nextId, stopGen, retireRing, rt, rtVars, pubVars, opVars,
                   lifeVars, reader>>

\* kick() reaps as well.
Kick ==
    /\ submitMu = {} /\ retireRing # <<>>
    /\ live' = Reaped(live) /\ retireRing' = <<>>
    /\ UNCHANGED <<callerVars, submitMu, nextId, stopGen, mailbox, rt, rtVars, pubVars,
                   opVars, lifeVars, reader, pushed>>

\* stop_j: the generation moves first, the request is stored second.  A stop
\* outruns whatever was pushed before the call began.
BugStopSwapped(c, first) ==
    IF first
    THEN stopReq' = TRUE /\ outrun' = outrun \cup pushed
         /\ UNCHANGED <<stopGen, recoverReq, stopped>>
    ELSE stopGen' = stopGen + 1 /\ UNCHANGED opVars

StopStore(c, first) ==
    IF first
    THEN stopGen' = stopGen + 1 /\ UNCHANGED opVars
    ELSE stopReq' = TRUE /\ outrun' = outrun \cup before[c]
         /\ UNCHANGED <<stopGen, recoverReq, stopped>>

StopJ(c) ==
    /\ \/ /\ at[c] = "idle" /\ stopGen - reconnects < MaxStops
          /\ StopStore(c, TRUE)
          /\ before' = [before EXCEPT ![c] = pushed]
          /\ at' = [at EXCEPT ![c] = "stopping"]
       \/ /\ at[c] = "stopping"
          /\ StopStore(c, FALSE)
          /\ before' = [before EXCEPT ![c] = {}]
          /\ at' = [at EXCEPT ![c] = "idle"]
    /\ UNCHANGED <<building, submitMu, nextId, ringVars, rt, rtVars, pubVars, lifeVars,
                   reader, pushed>>

-----------------------------------------------------------------------------
(* The tick as the loop sees it, as functions of the core's state.         *)

\* resolve_active, and the event it emits.
Emit(c, m, st) ==
    [c EXCEPT !.outcome[m] = st,
              !.events = IF st \in Terminal THEN Append(@, [id |-> m, status |-> st]) ELSE @]

Resolve(c, st) ==
    IF c.status = "RUNNING" THEN [Emit(c, c.slot, st) EXCEPT !.status = st] ELSE c

Halt(c, mode) == [c EXCEPT !.mode = mode, !.playing = 0, !.buf = NoAddr]

\* enter_fault moves the epoch and withdraws a recovery.
Fault(c) ==
    [Halt(Resolve(c, "FAULTED"), "fault") EXCEPT !.epoch = @ + 1, !.recovering = FALSE]

\* enter_rx_silent leaves a recovery that was asked for pending.
Park(c) == [Halt(Resolve(c, "FAULTED"), "fault") EXCEPT !.epoch = @ + 1]

Stop(c) == IF c.mode = "fault" THEN c ELSE Halt(Resolve(c, "STOPPED"), "rest")

Hold(c) == IF c.mode = "moving" THEN Halt(Resolve(c, "PREEMPTED"), "rest") ELSE c

\* The dwell is over: the epoch moves and HOLD is entered.
Recover(c) == [Halt(c, "rest") EXCEPT !.epoch = @ + 1, !.recovering = FALSE]

Accepts(c, t, late, splices) ==
    /\ t.epoch = c.epoch
    /\ t.kind \in {"kTrajectory", "kServo"} => ~late
    /\ t.kind # "kHold" => c.mode # "fault"
    /\ t.kind = "kTrajectory" => splices

\* A refused target takes the slot without resolving the motion in it.
Reject(c, t) == [Emit(c, t.id, "REJECTED") EXCEPT !.slot = t.id, !.status = "REJECTED"]

Accept(c, t) ==
    LET st == IF t.kind = "kHold" THEN "DONE" ELSE "RUNNING"
        d  == [Emit(Resolve(c, "PREEMPTED"), t.id, st) EXCEPT !.slot = t.id, !.status = st] IN
    CASE t.kind = "kHold" -> IF c.mode = "moving" THEN Halt(d, "rest") ELSE d
      [] t.kind = "kBrake" -> Halt(d, "rest")
      [] OTHER -> [d EXCEPT !.mode = "moving", !.playing = t.id, !.buf = t.addr]

\* The profile being played ends: a trajectory settles, a brake comes to rest.
Finish(c) ==
    IF (c.mode = "moving" /\ c.buf # NoAddr) \/ c.mode = "rest"
    THEN Halt(Resolve(c, "DONE"), "rest") ELSE c

-----------------------------------------------------------------------------
(* The RT thread: one window of rt_main_.                                  *)

\* The request atomics are exchanged, stop_j's first.
TakeRequests ==
    /\ rt = "top" /\ ~stopFlag
    /\ rt' = "drain"
    /\ stopping' = stopReq /\ stopReq' = FALSE
    /\ core' = [core EXCEPT !.recovering = @ \/ (recoverReq /\ core.mode = "fault")]
    /\ recoverReq' = FALSE
    /\ stopped' = IF stopReq THEN stopped \cup outrun ELSE stopped
    /\ outrun' = IF stopReq THEN {} ELSE outrun
    /\ UNCHANGED <<callerVars, submitMu, nextId, stopGen, ringVars, pending, popped,
                   superseded, accepted, head, activeOwner, pubVars, lifeVars, reader, pushed>>

\* Latest wins: a second target popped in the same window displaces the first.
Pop ==
    /\ rt = "drain" /\ mailbox # <<>>
    /\ mailbox' = Tail(mailbox)
    /\ IF pending = NoTarget
       THEN pending' = Head(mailbox) /\ UNCHANGED <<rt, popped>>
       ELSE popped' = Head(mailbox) /\ rt' = "displace" /\ UNCHANGED pending
    /\ UNCHANGED <<callerVars, submitMu, nextId, stopGen, live, retireRing, core,
                   superseded, stopping, accepted, head, activeOwner, pubVars, opVars,
                   lifeVars, reader, pushed>>

BugRetiresNull(a) == IF Len(retireRing) < RetireCap THEN Append(retireRing, a) ELSE retireRing

\* retire_ring_.push: nullptr is never pushed, and a full ring loses the entry.
Retired(a) ==
    IF a # NoAddr /\ Len(retireRing) < RetireCap THEN Append(retireRing, a) ELSE retireRing

\* record_resolution_ stores a status, then the id that publishes it.
BugRecordIdFirst(m, st, first) ==
    resolutions' = IF first THEN [resolutions EXCEPT ![head].id = m]
                            ELSE [resolutions EXCEPT ![head].status = st]

RecordResolution(m, st, first) ==
    resolutions' = IF first THEN [resolutions EXCEPT ![head].status = st]
                            ELSE [resolutions EXCEPT ![head].id = m]

BugSlotStuck == UNCHANGED head

NextSlot == head' = IF head = TableSize THEN 1 ELSE head + 1

BugDisplacedForgotten(t) == retireRing' = Retired(t.addr) /\ UNCHANGED core

\* The displaced target has no other way to resolve.  It emits its event
\* from the loop, not from the tick, so none is left to drain.
DisplaceTarget(t) ==
    /\ retireRing' = Retired(t.addr)
    /\ core' = [core EXCEPT !.outcome[t.id] = "PREEMPTED"]

Displace ==
    /\ \/ /\ rt = "displace" /\ rt' = "displaced"
          /\ DisplaceTarget(pending)
          /\ RecordResolution(pending.id, "PREEMPTED", TRUE)
          /\ UNCHANGED <<head, pending, popped>>
       \/ /\ rt = "displaced" /\ rt' = "drain"
          /\ RecordResolution(pending.id, "PREEMPTED", FALSE)
          /\ NextSlot
          /\ pending' = popped /\ popped' = NoTarget
          /\ UNCHANGED <<retireRing, core>>
    /\ UNCHANGED <<callerVars, submitMu, nextId, stopGen, mailbox, live, superseded,
                   stopping, accepted, activeOwner, publishedEpoch, activeId, activeStatus,
                   opVars, lifeVars, reader, pushed>>

\* The failed pop that ends the drain, then consume_superseded's load.
DrainEmpty ==
    /\ rt = "drain" /\ mailbox = <<>>
    /\ rt' = "gen"
    /\ UNCHANGED <<callerVars, submitMu, nextId, stopGen, ringVars, rtVars, pubVars,
                   opVars, lifeVars, reader, pushed>>

ConsumeSuperseded == pending # NoTarget /\ pending.stop_gen # stopGen

LoadStopGen ==
    /\ rt = "gen"
    /\ rt' = "tick"
    /\ superseded' = ConsumeSuperseded
    /\ UNCHANGED <<callerVars, submitMu, nextId, stopGen, ringVars, core, pending, popped,
                   stopping, accepted, head, activeOwner, pubVars, opVars, lifeVars,
                   reader, pushed>>

\* tick(): a gate, the control operations, the watchdogs, the dwell, consume, dispatch;
\* then the new epoch is published.
RunTick(window, end, splices) ==
    LET c1 == IF window = "fault" THEN Fault(core) ELSE core
        c2 == IF stopping THEN Stop(c1) ELSE IF window = "hold" THEN Hold(c1) ELSE c1
        c3 == CASE window = "lapse" -> Fault(c2)
                [] window = "silent" -> Park(c2)
                [] window = "recover" -> Recover(c2)
                [] OTHER -> c2
        ok == Accepts(c3, pending, superseded, splices)
        c4 == IF pending = NoTarget THEN c3
              ELSE IF ok THEN Accept(c3, pending) ELSE Reject(c3, pending)
        c5 == IF end = "done" THEN Finish(c4) ELSE IF end = "error" THEN Fault(c4) ELSE c4 IN
    /\ rt = "tick"
    /\ window = "recover" => c2.recovering
    /\ ~splices => pending.kind = "kTrajectory"
    /\ end = "done" => c5 # c4
    /\ end = "error" => c4.mode # "fault" /\ c4.buf = NoAddr
    /\ c5.epoch <= MaxEpoch
    /\ rt' = "retire"
    /\ core' = c5
    /\ accepted' = (pending # NoTarget /\ ok)
    /\ publishedEpoch' = c5.epoch
    /\ stopping' = FALSE /\ superseded' = FALSE
    /\ UNCHANGED <<callerVars, submitMu, nextId, stopGen, ringVars, pending, popped, head,
                   activeOwner, resolutions, activeId, activeStatus, opVars, lifeVars,
                   reader, pushed>>

BugRetireActive == activeOwner

\* An accepted target retires the buffer it replaces, a refused one its own.
ToRetire == IF accepted THEN activeOwner ELSE pending.addr

RetireBuffers ==
    /\ rt = "retire"
    /\ rt' = "publish"
    /\ IF pending = NoTarget THEN UNCHANGED <<retireRing, activeOwner>>
       ELSE /\ retireRing' = Retired(ToRetire)
            /\ activeOwner' = IF accepted THEN pending.addr ELSE activeOwner
    /\ pending' = NoTarget /\ accepted' = FALSE
    /\ UNCHANGED <<callerVars, submitMu, nextId, stopGen, mailbox, live, core, popped,
                   superseded, stopping, head, pubVars, opVars, lifeVars, reader, pushed>>

\* publish_snapshot_ ends with two stores, the id and then its status.
PublishActive ==
    /\ \/ /\ rt = "publish" /\ rt' = "publishStatus"
          /\ activeId' = core.slot /\ UNCHANGED activeStatus
       \/ /\ rt = "publishStatus" /\ rt' = "events"
          /\ activeStatus' = core.status /\ UNCHANGED activeId
    /\ UNCHANGED <<callerVars, submitMu, nextId, stopGen, ringVars, rtVars, publishedEpoch,
                   resolutions, opVars, lifeVars, reader, pushed>>

DrainTickEvents ==
    /\ IF core.events = <<>>
       THEN rt = "events" /\ rt' = "top" /\ UNCHANGED <<resolutions, head, core>>
       ELSE LET e == Head(core.events) IN
            \/ /\ rt = "events" /\ rt' = "eventId"
               /\ RecordResolution(e.id, e.status, TRUE)
               /\ UNCHANGED <<head, core>>
            \/ /\ rt = "eventId" /\ rt' = "events"
               /\ RecordResolution(e.id, e.status, FALSE)
               /\ NextSlot
               /\ core' = [core EXCEPT !.events = Tail(@)]
    /\ UNCHANGED <<callerVars, submitMu, nextId, stopGen, ringVars, pending, popped,
                   superseded, stopping, accepted, activeOwner, publishedEpoch, activeId,
                   activeStatus, opVars, lifeVars, reader, pushed>>

-----------------------------------------------------------------------------
(* A thread that polls motion_status for a handle it holds.                *)

Reader(pc, m, k, got, via) ==
    reader' = [at |-> pc, id |-> m, k |-> k, got |-> got, via |-> via]

\* Scan the table, then compare the active id; each load is a step.
MotionStatus ==
    /\ \/ /\ Polling /\ reader.at = "idle"
          /\ \E m \in pushed : Reader("scan", m, 1, "PENDING", "none")
       \/ /\ reader.at = "scan" /\ reader.k <= TableSize
          /\ IF resolutions[reader.k].id = reader.id
             THEN Reader("slot", reader.id, reader.k, "PENDING", "none")
             ELSE Reader("scan", reader.id, reader.k + 1, "PENDING", "none")
       \/ /\ reader.at = "slot"
          /\ Reader("idle", reader.id, 1, resolutions[reader.k].status, "table")
       \/ /\ reader.at = "scan" /\ reader.k > TableSize
          /\ IF activeId = reader.id
             THEN Reader("status", reader.id, 1, "PENDING", "none")
             ELSE Reader("idle", reader.id, 1, "PENDING", "none")
       \/ /\ reader.at = "status"
          /\ Reader("idle", reader.id, 1, activeStatus, "active")
    /\ UNCHANGED <<callerVars, submitMu, nextId, stopGen, ringVars, rt, rtVars, pubVars,
                   opVars, lifeVars, pushed>>

-----------------------------------------------------------------------------
(* The supervisor: its ladder's recover(), and FanucDriver.reconnect.      *)

RequestRecover ==
    /\ core.mode = "fault" /\ ~recoverReq /\ reconnect \in {"idle", "asked"}
    /\ "recover" \in Windows
    /\ recoverReq' = TRUE
    /\ UNCHANGED <<callerVars, submitMu, nextId, stopGen, ringVars, rt, rtVars, pubVars,
                   stopReq, outrun, stopped, lifeVars, reader, pushed>>

\* stop_j (its two stores at once), then the supervisor's shutdown.
Reconnect ==
    /\ \/ /\ reconnect = "idle" /\ reconnects < MaxReconnects
          /\ reconnect' = "asked" /\ reconnects' = reconnects + 1
          /\ stopGen' = stopGen + 1 /\ stopReq' = TRUE
          /\ outrun' = outrun \cup pushed
       \/ /\ reconnect = "asked" /\ reconnect' = "shutdown"
          /\ UNCHANGED <<reconnects, stopGen, stopReq, outrun>>
    /\ UNCHANGED <<callerVars, submitMu, nextId, ringVars, rt, rtVars, pubVars,
                   recoverReq, stopped, stopFlag, reader, pushed>>

\* core.stop(): the loop leaves at its top; then reap and drop every buffer.
\* The mailbox, the slot, the fault and active_traj_owner_ survive.
CoreStop ==
    /\ \/ /\ reconnect = "shutdown" /\ reconnect' = "stop"
          /\ stopFlag' = TRUE
          /\ UNCHANGED <<rt, live, retireRing>>
       \/ /\ rt = "top" /\ stopFlag /\ rt' = "exited"
          /\ UNCHANGED <<reconnect, stopFlag, live, retireRing>>
       \/ /\ reconnect = "stop" /\ rt = "exited" /\ submitMu = {}
          /\ reconnect' = "start"
          /\ live' = [a \in Addrs |-> 0] /\ retireRing' = <<>>
          /\ UNCHANGED <<rt, stopFlag>>
    /\ UNCHANGED <<callerVars, submitMu, nextId, stopGen, mailbox, rtVars, pubVars,
                   opVars, reconnects, reader, pushed>>

\* core.start(), wait_ready, then _wait_mode(HOLD): bring-up succeeds on HOLD
\* and gives up when another mode outlasts the wait.  streaming_ready_ is still
\* set, so wait_ready returns at once and begin_streaming does not run again.
CoreStart ==
    /\ \/ /\ reconnect = "start" /\ reconnect' = "hold"
          /\ stopFlag' = FALSE /\ rt' = "top"
       \/ /\ reconnect = "hold" /\ core.mode = "rest" /\ reconnect' = "idle"
          /\ UNCHANGED <<stopFlag, rt>>
       \/ /\ reconnect = "hold" /\ core.mode # "rest" /\ reconnect' = "failed"
          /\ stopFlag' = TRUE /\ UNCHANGED rt
    /\ UNCHANGED <<callerVars, submitMu, nextId, stopGen, ringVars, rtVars, pubVars,
                   opVars, reconnects, reader, pushed>>

-----------------------------------------------------------------------------
Window(windows) ==
    \/ TakeRequests \/ Pop \/ Displace \/ DrainEmpty \/ LoadStopGen
    \/ \E window \in windows, end \in {"run", "done", "error"}, splices \in BOOLEAN :
          RunTick(window, end, splices)
    \/ RetireBuffers \/ PublishActive \/ DrainTickEvents

Calls(c) ==
    \/ MoveJ(c) \/ MoveTrajectory(c) \/ ServoJ(c) \/ CallCore(c)
    \/ (\E kind \in TargetKinds : Submit(c, kind)) \/ StampStopGen(c) \/ Push(c) \/ StopJ(c)

Restart == Reconnect \/ CoreStop \/ CoreStart

Next == Window(Windows) \/ (\E c \in Callers : Calls(c)) \/ Kick \/ MotionStatus
        \/ RequestRecover \/ Restart

Spec == Init /\ [][Next]_vars

-----------------------------------------------------------------------------
(* Properties.                                                             *)

\* stop_j wins over every motion submitted before it: once the RT thread has
\* run the tick that took the request, no such motion is being played and none
\* starts later, however late its target is popped (stop_gen_, enqueue_'s
\* stamp, consume_superseded).
StopWins ==
    rt \in {"top", "retire", "publish", "publishStatus", "events", "eventId", "exited"}
        => core.playing \notin stopped

\* At the end of every window the table answers for every motion that has
\* resolved, the targets displaced in the mailbox included, with the status
\* the core gave it (record_resolution_, drain_tick_events_).
ResolvedIsReadable ==
    rt = "top" =>
        \A m \in Ids : core.outcome[m] \in Terminal =>
            \E k \in 1..TableSize : resolutions[k] = [id |-> m, status |-> core.outcome[m]]

HoldsKnots(t) == t.addr # NoAddr => live[t.addr] = t.id

\* The knots of a trajectory that is queued or played are the ones its caller
\* wrote: until a restart of the core drops every buffer, no retire, reap or drop
\* frees or reuses them before the motion ends (retire_ring_, reap_retired_locked_).
KnotsOutliveMotion ==
    reconnects = 0 =>
        /\ \A i \in 1..Len(mailbox) : HoldsKnots(mailbox[i])
        /\ HoldsKnots(popped)
        /\ rt \in {"drain", "gen", "tick", "retire"} => HoldsKnots(pending)
        /\ core.buf # NoAddr => live[core.buf] = core.playing

\* No buffer is lost: each one that is allocated is still being submitted,
\* queued, popped, owned by the last accepted trajectory, or on the ring a
\* later submit or kick reaps.
BuffersReclaimable ==
    \A a \in Addrs : live[a] # 0 =>
        \/ \E c \in Callers : building[c].addr = a
        \/ \E i \in 1..Len(mailbox) : mailbox[i].addr = a
        \/ a \in {pending.addr, popped.addr, activeOwner}
        \/ \E i \in 1..Len(retireRing) : retireRing[i] = a

\* A status a handle reads from the table is the motion's own outcome,
\* whatever the RT thread stores between the loads of motion_status.
TableTellsTruth == reader.via = "table" => reader.got = core.outcome[reader.id]

\* No target that reached the mailbox gets lost on its way to the tick: between two
\* windows, and while the loop is down for a reconnect, it is queued still or has been
\* started, refused or displaced.
PushedIsAnswered ==
    rt \in {"top", "exited"} =>
        \A m \in pushed : \/ core.outcome[m] # "PENDING"
                          \/ \E i \in 1..Len(mailbox) : mailbox[i].id = m
=============================================================================
