------------------------- MODULE RealtimeCoreProofs -------------------------
(***************************************************************************)
(* Proofs about RealtimeCore, for any number of callers, motions, stops,   *)
(* restarts and addresses, any mailbox, and a retire ring and a table no   *)
(* smaller than RoomAssumption says.                                       *)
(***************************************************************************)
EXTENDS RealtimeCore, SequenceTheorems, TLAPS

\* The bounds are numbers.
LEMMA Sizes ==
    /\ MaxMotions \in Nat /\ MaxStops \in Nat /\ MaxEpoch \in Nat /\ MaxReconnects \in Nat
    /\ MailboxCap \in Nat \ {0} /\ RetireCap \in Nat /\ TableSize \in Nat \ {0}
  BY SizeAssumption

-----------------------------------------------------------------------------
(* The tick as a function of the core's state.                             *)

\* The core between the parts of a tick, where the epoch is not bounded yet.
Shapes == [mode: {"rest", "moving", "fault"}, playing: 0..MaxMotions,
           buf: Addrs \cup {NoAddr}, slot: 0..MaxMotions, status: Status,
           epoch: Nat, recovering: BOOLEAN,
           events: Seq([id: Ids, status: Terminal]), outcome: [Ids -> Status]]

\* A running slot holds a motion, and only a core that moves plays one.
Sound(c) ==
    /\ c \in Shapes
    /\ c.status = "RUNNING" => c.slot # 0
    /\ c.mode # "moving" => c.playing = 0 /\ c.buf = NoAddr

\* What is left of the motion being played by a step that starts none.
Keeps(c, d) ==
    \/ d.playing = c.playing /\ d.buf = c.buf
    \/ d.playing = 0 /\ d.buf = NoAddr

LEMMA EmitSound ==
    ASSUME NEW c, Sound(c), NEW m \in Ids, NEW st \in Status
    PROVE  /\ Sound(Emit(c, m, st))
           /\ Emit(c, m, st).mode = c.mode
           /\ Emit(c, m, st).playing = c.playing
           /\ Emit(c, m, st).buf = c.buf
           /\ Emit(c, m, st).epoch = c.epoch
  <1>1. st \in Terminal => Append(c.events, [id |-> m, status |-> st])
                              \in Seq([id: Ids, status: Terminal])
    BY DEF Sound, Shapes
  <1> QED
    BY <1>1 DEF Emit, Sound, Shapes

LEMMA ResolveSound ==
    ASSUME NEW c, Sound(c), NEW st \in Terminal
    PROVE  /\ Sound(Resolve(c, st))
           /\ Resolve(c, st).status # "RUNNING"
           /\ Resolve(c, st).mode = c.mode
           /\ Resolve(c, st).playing = c.playing
           /\ Resolve(c, st).buf = c.buf
           /\ Resolve(c, st).epoch = c.epoch
  <1>1. CASE c.status = "RUNNING"
    <2>1. c.slot \in Ids /\ st \in Status
      BY <1>1, Sizes DEF Sound, Shapes, Ids, Status
    <2> DEFINE d == Emit(c, c.slot, st)
    <2>2. /\ Sound(d) /\ d.mode = c.mode /\ d.playing = c.playing
          /\ d.buf = c.buf /\ d.epoch = c.epoch
      BY <2>1, EmitSound
    <2>3. Resolve(c, st) = [d EXCEPT !.status = st]
      BY <1>1 DEF Resolve
    <2>4. st # "RUNNING"
      BY DEF Terminal
    <2> HIDE DEF d
    <2> QED
      BY <2>1, <2>2, <2>3, <2>4 DEF Sound, Shapes
  <1>2. CASE c.status # "RUNNING"
    BY <1>2 DEF Resolve
  <1> QED
    BY <1>1, <1>2

LEMMA HaltSound ==
    ASSUME NEW c, Sound(c), NEW mode \in {"rest", "fault"}
    PROVE  /\ Sound(Halt(c, mode)) /\ Keeps(c, Halt(c, mode))
           /\ Halt(c, mode).playing = 0 /\ Halt(c, mode).buf = NoAddr
  <1>1. Halt(c, mode) \in Shapes
    <2>1. 0 \in 0..MaxMotions /\ NoAddr \in Addrs \cup {NoAddr}
      BY Sizes
    <2>2. mode \in {"rest", "moving", "fault"}
      OBVIOUS
    <2> QED
      BY <2>1, <2>2 DEF Halt, Sound, Shapes
  <1>2. /\ Halt(c, mode).playing = 0 /\ Halt(c, mode).buf = NoAddr
        /\ Halt(c, mode).mode = mode
        /\ Halt(c, mode).status = c.status /\ Halt(c, mode).slot = c.slot
    BY DEF Halt, Sound, Shapes
  <1> QED
    BY <1>1, <1>2 DEF Sound, Keeps

\* The two ends of a motion that need no target: what happens to the slot, then rest.
LEMMA EndSound ==
    ASSUME NEW c, Sound(c), NEW st \in Terminal, NEW mode \in {"rest", "fault"}
    PROVE  LET d == Halt(Resolve(c, st), mode) IN
           Sound(d) /\ Keeps(c, d) /\ d.playing = 0 /\ d.buf = NoAddr
  <1>1. Sound(Resolve(c, st))
    BY ResolveSound
  <1> QED
    BY <1>1, ResolveSound, HaltSound DEF Keeps

LEMMA MovedEpochSound ==
    ASSUME NEW c, Sound(c)
    PROVE  LET d == [c EXCEPT !.epoch = @ + 1, !.recovering = FALSE] IN
           Sound(d) /\ d.playing = c.playing /\ d.buf = c.buf
  <1> DEFINE d == [c EXCEPT !.epoch = @ + 1, !.recovering = FALSE]
  <1>1. c.epoch + 1 \in Nat /\ FALSE \in BOOLEAN
    BY DEF Sound, Shapes
  <1>2. d \in Shapes
    BY <1>1 DEF Sound, Shapes
  <1>3. /\ d.playing = c.playing /\ d.buf = c.buf /\ d.mode = c.mode
        /\ d.status = c.status /\ d.slot = c.slot
    BY DEF Sound, Shapes
  <1> QED
    BY <1>2, <1>3 DEF Sound

LEMMA FaultSound ==
    ASSUME NEW c, Sound(c)
    PROVE  Sound(Fault(c)) /\ Keeps(c, Fault(c))
  <1> DEFINE d == Halt(Resolve(c, "FAULTED"), "fault")
  <1>1. Sound(d) /\ Keeps(c, d)
    BY EndSound DEF Terminal
  <1>2. Fault(c) = [d EXCEPT !.epoch = @ + 1, !.recovering = FALSE]
    BY DEF Fault
  <1> HIDE DEF d
  <1> QED
    BY <1>1, <1>2, MovedEpochSound DEF Keeps

LEMMA ParkSound ==
    ASSUME NEW c, Sound(c)
    PROVE  Sound(Park(c)) /\ Keeps(c, Park(c))
  <1> DEFINE d == Halt(Resolve(c, "FAULTED"), "fault")
  <1>1. Sound(d) /\ Keeps(c, d)
    BY EndSound DEF Terminal
  <1>2. Park(c) = [d EXCEPT !.epoch = @ + 1]
    BY DEF Park
  <1> HIDE DEF d
  <1>3. d.epoch + 1 \in Nat
    BY <1>1 DEF Sound, Shapes
  <1>4. Park(c) \in Shapes
    BY <1>1, <1>2, <1>3 DEF Sound, Shapes
  <1>5. /\ Park(c).playing = d.playing /\ Park(c).buf = d.buf /\ Park(c).mode = d.mode
        /\ Park(c).status = d.status /\ Park(c).slot = d.slot
    BY <1>1, <1>2 DEF Sound, Shapes
  <1> QED
    BY <1>1, <1>4, <1>5 DEF Sound, Keeps

LEMMA StopSound ==
    ASSUME NEW c, Sound(c)
    PROVE  /\ Sound(Stop(c)) /\ Keeps(c, Stop(c))
           /\ Stop(c).playing = 0 /\ Stop(c).buf = NoAddr
  <1>1. CASE c.mode = "fault"
    BY <1>1 DEF Stop, Sound, Keeps
  <1>2. CASE c.mode # "fault"
    BY <1>2, EndSound DEF Stop, Terminal
  <1> QED
    BY <1>1, <1>2

LEMMA HoldSound ==
    ASSUME NEW c, Sound(c)
    PROVE  Sound(Hold(c)) /\ Keeps(c, Hold(c))
  <1>1. CASE c.mode = "moving"
    BY <1>1, EndSound DEF Hold, Terminal
  <1>2. CASE c.mode # "moving"
    BY <1>2 DEF Hold, Keeps
  <1> QED
    BY <1>1, <1>2

LEMMA RecoverSound ==
    ASSUME NEW c, Sound(c)
    PROVE  Sound(Recover(c)) /\ Keeps(c, Recover(c))
  <1> DEFINE d == Halt(c, "rest")
  <1>1. Sound(d) /\ Keeps(c, d)
    BY HaltSound
  <1>2. Recover(c) = [d EXCEPT !.epoch = @ + 1, !.recovering = FALSE]
    BY DEF Recover
  <1> HIDE DEF d
  <1> QED
    BY <1>1, <1>2, MovedEpochSound DEF Keeps

LEMMA FinishSound ==
    ASSUME NEW c, Sound(c)
    PROVE  Sound(Finish(c)) /\ Keeps(c, Finish(c))
  <1>1. CASE Finish(c) = c
    BY <1>1 DEF Keeps
  <1>2. CASE Finish(c) = Halt(Resolve(c, "DONE"), "rest")
    BY <1>2, EndSound DEF Terminal
  <1> QED
    BY <1>1, <1>2 DEF Finish

\* A target that reached the mailbox.
Real(t) == t \in Target /\ t.id # 0 /\ t.kind \in TargetKinds

LEMMA RealTarget ==
    ASSUME NEW t, Real(t)
    PROVE  /\ t.id \in Ids /\ t.addr \in Addrs \cup {NoAddr} /\ t # NoTarget
           /\ t.kind \in {"kTrajectory", "kServo", "kBrake", "kHold"}
  <1>1. t.id \in Ids /\ t.addr \in Addrs \cup {NoAddr}
    BY Sizes DEF Real, Target, Ids
  <1>2. TargetKinds \subseteq {"kTrajectory", "kServo", "kBrake", "kHold"}
    <2>1. DOMAIN KindOf = {"move_j", "move_trajectory", "servo_j", "submit_brake",
                           "submit_hold"}
      BY DEF KindOf
    <2>2. \A e \in DOMAIN KindOf : KindOf[e] \in {"kTrajectory", "kServo", "kBrake", "kHold"}
      BY <2>1 DEF KindOf
    <2> QED
      BY <2>2, SizeAssumption DEF TargetKinds
  <1>3. NoTarget.id = 0
    BY DEF NoTarget
  <1> QED
    BY <1>1, <1>2, <1>3 DEF Real

LEMMA RealNumbers ==
    ASSUME NEW t, Real(t)
    PROVE  t.stop_gen \in Nat /\ t.id \in Nat
  BY Sizes DEF Real, Target

\* The slot goes to the target, with the status it is given.
Slotted(c, m, st) == [Emit(c, m, st) EXCEPT !.slot = m, !.status = st]

LEMMA SlotSound ==
    ASSUME NEW c, Sound(c), NEW m \in Ids, NEW st \in Status
    PROVE  /\ Sound(Slotted(c, m, st))
           /\ Slotted(c, m, st).playing = c.playing
           /\ Slotted(c, m, st).buf = c.buf
           /\ Slotted(c, m, st).mode = c.mode
  <1> DEFINE e == Emit(c, m, st)
             d == [e EXCEPT !.slot = m, !.status = st]
  <1>1. /\ Sound(e) /\ e.playing = c.playing /\ e.buf = c.buf
        /\ e.mode = c.mode /\ e.epoch = c.epoch
    BY EmitSound
  <1>2. m \in 0..MaxMotions /\ m # 0
    BY Sizes DEF Ids
  <1> HIDE DEF e
  <1>3. d \in Shapes
    BY <1>1, <1>2 DEF Sound, Shapes
  <1>4. /\ d.playing = e.playing /\ d.buf = e.buf /\ d.mode = e.mode
        /\ d.slot = m
    BY <1>1 DEF Sound, Shapes
  <1>5. d = Slotted(c, m, st)
    BY DEF Slotted, e
  <1>6. Sound(d)
    BY <1>1, <1>2, <1>3, <1>4 DEF Sound
  <1> HIDE DEF d
  <1> QED
    BY <1>1, <1>4, <1>5, <1>6

LEMMA RejectSound ==
    ASSUME NEW c, Sound(c), NEW t, Real(t)
    PROVE  Sound(Reject(c, t)) /\ Keeps(c, Reject(c, t))
  <1>1. Reject(c, t) = Slotted(c, t.id, "REJECTED")
    BY DEF Reject, Slotted
  <1>2. "REJECTED" \in Status
    BY DEF Status, Terminal
  <1> QED
    BY <1>1, <1>2, RealTarget, SlotSound DEF Keeps

\* A target that is accepted ends what was played; it is played itself if it is a
\* trajectory or a servo target.
LEMMA AcceptSound ==
    ASSUME NEW c, Sound(c), NEW t, Real(t)
    PROVE  /\ Sound(Accept(c, t))
           /\ \/ Accept(c, t).playing = 0 /\ Accept(c, t).buf = NoAddr
              \/ /\ t.kind \in {"kTrajectory", "kServo"}
                 /\ Accept(c, t).playing = t.id /\ Accept(c, t).buf = t.addr
  <1> DEFINE st == IF t.kind = "kHold" THEN "DONE" ELSE "RUNNING"
             b == Resolve(c, "PREEMPTED")
             d == Slotted(b, t.id, st)
  <1>1. Sound(b) /\ b.playing = c.playing /\ b.buf = c.buf /\ b.mode = c.mode
    BY ResolveSound DEF Terminal
  <1>2. st \in Status
    BY DEF Status, Terminal
  <1>3. Sound(d) /\ d.playing = c.playing /\ d.buf = c.buf /\ d.mode = c.mode
    <2> HIDE DEF b, st
    <2> QED
      BY <1>1, <1>2, RealTarget, SlotSound
  <1>4. Accept(c, t) =
          CASE t.kind = "kHold" -> IF c.mode = "moving" THEN Halt(d, "rest") ELSE d
            [] t.kind = "kBrake" -> Halt(d, "rest")
            [] OTHER -> [d EXCEPT !.mode = "moving", !.playing = t.id, !.buf = t.addr]
    BY DEF Accept, Slotted
  <1> HIDE DEF d
  <1>5. CASE c.mode # "moving" /\ Accept(c, t) = d
    BY <1>3, <1>5 DEF Sound
  <1>6. CASE Accept(c, t) = Halt(d, "rest")
    BY <1>3, <1>6, HaltSound
  <1>7. CASE /\ t.kind \in {"kTrajectory", "kServo"}
             /\ Accept(c, t) = [d EXCEPT !.mode = "moving", !.playing = t.id, !.buf = t.addr]
    <2> DEFINE e == [d EXCEPT !.mode = "moving", !.playing = t.id, !.buf = t.addr]
    <2>1. t.id \in 0..MaxMotions /\ t.addr \in Addrs \cup {NoAddr}
      BY RealTarget, Sizes DEF Ids
    <2>2. e \in Shapes
      BY <1>3, <2>1 DEF Sound, Shapes
    <2>3. /\ e.playing = t.id /\ e.buf = t.addr /\ e.mode = "moving"
          /\ e.status = d.status /\ e.slot = d.slot
      BY <1>3 DEF Sound, Shapes
    <2> QED
      BY <1>3, <1>7, <2>2, <2>3 DEF Sound
  <1> QED
    BY <1>4, <1>5, <1>6, <1>7, RealTarget

\* The parts of a tick, one after the other.
Parts(c1, c2, c3, c4, splices) ==
    /\ c1 \in {core, Fault(core)}
    /\ c2 = Stop(c1) \/ (~stopping /\ c2 \in {c1, Hold(c1)})
    /\ c3 \in {c2, Fault(c2), Park(c2), Recover(c2)}
    /\ \/ pending = NoTarget /\ c4 = c3 /\ accepted' = FALSE
       \/ /\ pending # NoTarget /\ Accepts(c3, pending, superseded, splices)
          /\ c4 = Accept(c3, pending) /\ accepted' = TRUE
       \/ pending # NoTarget /\ c4 = Reject(c3, pending) /\ accepted' = FALSE
    /\ core' \in {c4, Finish(c4), Fault(c4)}

LEMMA TickParts ==
    ASSUME NEW window, NEW end, NEW splices, RunTick(window, end, splices)
    PROVE  \E c1, c2, c3, c4 : Parts(c1, c2, c3, c4, splices)
  <1> DEFINE c1 == IF window = "fault" THEN Fault(core) ELSE core
             c2 == IF stopping THEN Stop(c1) ELSE IF window = "hold" THEN Hold(c1) ELSE c1
             c3 == CASE window = "lapse" -> Fault(c2)
                     [] window = "silent" -> Park(c2)
                     [] window = "recover" -> Recover(c2)
                     [] OTHER -> c2
             ok == Accepts(c3, pending, superseded, splices)
             c4 == IF pending = NoTarget THEN c3
                   ELSE IF ok THEN Accept(c3, pending) ELSE Reject(c3, pending)
             c5 == IF end = "done" THEN Finish(c4)
                   ELSE IF end = "error" THEN Fault(c4) ELSE c4
  <1>1. core' = c5 /\ accepted' = (pending # NoTarget /\ ok)
    BY DEF RunTick
  <1>2. c1 \in {core, Fault(core)}
    OBVIOUS
  <1>3. c2 = Stop(c1) \/ (~stopping /\ c2 \in {c1, Hold(c1)})
    OBVIOUS
  <1>4. c3 \in {c2, Fault(c2), Park(c2), Recover(c2)}
    <2> HIDE DEF c2
    <2> QED
      OBVIOUS
  <1>5. \/ pending = NoTarget /\ c4 = c3 /\ accepted' = FALSE
        \/ pending # NoTarget /\ ok /\ c4 = Accept(c3, pending) /\ accepted' = TRUE
        \/ pending # NoTarget /\ c4 = Reject(c3, pending) /\ accepted' = FALSE
    <2> HIDE DEF c3, ok
    <2> QED
      BY <1>1
  <1>6. core' \in {c4, Finish(c4), Fault(c4)}
    <2> HIDE DEF c4
    <2> QED
      BY <1>1
  <1> HIDE DEF c1, c2, c3, c4
  <1> QED
    BY <1>2, <1>3, <1>4, <1>5, <1>6 DEF Parts

\* What a tick may do to the motion being played: keep it or end it, end it if stop_j
\* was asked for, or start the pending one unless a stop_j has superseded it.
LEMMA TickPlays ==
    ASSUME Sound(core), pending = NoTarget \/ Real(pending),
           NEW window, NEW end, NEW splices, RunTick(window, end, splices)
    PROVE  /\ Sound(core')
           /\ \/ /\ Keeps(core, core')
                 /\ stopping \/ accepted' => core'.playing = 0 /\ core'.buf = NoAddr
              \/ /\ pending # NoTarget /\ accepted' /\ ~superseded
                 /\ core'.playing = pending.id /\ core'.buf = pending.addr
  <1>1. PICK c1, c2, c3, c4 : Parts(c1, c2, c3, c4, splices)
    BY TickParts
  <1>2. Sound(c1) /\ Keeps(core, c1)
    BY <1>1, FaultSound DEF Keeps, Parts
  <1>3. /\ Sound(c2) /\ Keeps(c1, c2)
        /\ stopping => c2.playing = 0 /\ c2.buf = NoAddr
    <2>1. CASE c2 = Stop(c1)
      BY <1>2, <2>1, StopSound DEF Keeps, Sound
    <2>2. CASE ~stopping /\ c2 \in {c1, Hold(c1)}
      BY <1>2, <2>2, HoldSound DEF Keeps
    <2> QED
      BY <1>1, <2>1, <2>2 DEF Parts
  <1>4. Sound(c3) /\ Keeps(c2, c3)
    BY <1>1, <1>3, FaultSound, ParkSound, RecoverSound DEF Keeps, Parts
  <1>5. Sound(c4) => Sound(core') /\ Keeps(c4, core')
    BY <1>1, FinishSound, FaultSound DEF Keeps, Parts
  <1>6. CASE accepted' = FALSE
    <2>1. Sound(c4) /\ Keeps(c3, c4)
      BY <1>1, <1>4, <1>6, RejectSound DEF Keeps, Parts
    <2> QED
      BY <1>2, <1>3, <1>4, <1>5, <1>6, <2>1 DEF Keeps
  <1>7. CASE accepted' = TRUE
    <2>1. /\ pending # NoTarget /\ Real(pending) /\ c4 = Accept(c3, pending)
          /\ Accepts(c3, pending, superseded, splices)
      BY <1>1, <1>7 DEF Parts
    <2>2. /\ Sound(c4)
          /\ \/ c4.playing = 0 /\ c4.buf = NoAddr
             \/ /\ pending.kind \in {"kTrajectory", "kServo"}
                /\ c4.playing = pending.id /\ c4.buf = pending.addr
      BY <1>4, <2>1, AcceptSound
    <2>3. pending.kind \in {"kTrajectory", "kServo"} => ~superseded
      BY <2>1 DEF Accepts
    <2> QED
      BY <1>5, <1>7, <2>1, <2>2, <2>3 DEF Keeps
  <1> QED
    BY <1>1, <1>6, <1>7 DEF Parts

-----------------------------------------------------------------------------
(* Types.                                                                  *)

\* TypeOK in parts, with what they need to be inductive: the callers' side, the flags,
\* and the side of the RT thread and the pollers.
CallerOK ==
    /\ at \in [Callers -> {"idle", "planned", "stamping", "pushing", "stopping"}
                         \cup TargetKinds]
    /\ building \in [Callers -> Target]
    /\ before \in [Callers -> SUBSET Ids]
    /\ submitMu \subseteq Callers
    /\ nextId \in 1..(MaxMotions + 1)
    /\ stopGen \in Nat /\ reconnects \in 0..MaxReconnects
    /\ reconnects <= stopGen /\ stopGen - reconnects <= MaxStops
    /\ pushed \subseteq Ids /\ outrun \subseteq Ids /\ stopped \subseteq Ids
    /\ \A c \in Callers : at[c] = "planned" => "move_j" \in Entries
    /\ \A c \in Callers : at[c] \in {"stamping", "pushing"} => Real(building[c])
    /\ mailbox \in Seq(Target) /\ Len(mailbox) <= MailboxCap
    /\ \A i \in 1..Len(mailbox) : Real(mailbox[i])
    /\ publishedEpoch \in 0..MaxEpoch
    /\ live \in [Addrs -> 0..MaxMotions]

FlagsOK ==
    /\ stopReq \in BOOLEAN /\ recoverReq \in BOOLEAN /\ stopFlag \in BOOLEAN
    /\ superseded \in BOOLEAN /\ stopping \in BOOLEAN /\ accepted \in BOOLEAN

\* What the entry points submit.
LEMMA EntryKinds ==
    /\ "move_j" \in Entries \/ "move_trajectory" \in Entries => "kTrajectory" \in TargetKinds
    /\ "servo_j" \in Entries => "kServo" \in TargetKinds
    /\ \A e \in Entries : KindOf[e] \in TargetKinds
    /\ TargetKinds \subseteq {"kTrajectory", "kServo", "kBrake", "kHold"}
  <1>1. /\ KindOf["move_j"] = "kTrajectory" /\ KindOf["move_trajectory"] = "kTrajectory"
        /\ KindOf["servo_j"] = "kServo" /\ KindOf["submit_brake"] = "kBrake"
        /\ KindOf["submit_hold"] = "kHold"
    BY DEF KindOf
  <1>2. DOMAIN KindOf = {"move_j", "move_trajectory", "servo_j", "submit_brake",
                         "submit_hold"}
    BY DEF KindOf
  <1> QED
    BY <1>1, <1>2, SizeAssumption DEF TargetKinds

\* Reaping frees addresses and allots none.
LEMMA ReapedType ==
    ASSUME live \in [Addrs -> 0..MaxMotions]
    PROVE  Reaped(live) \in [Addrs -> 0..MaxMotions]
  BY Sizes DEF Reaped

LEMMA EnterOK ==
    ASSUME CallerOK, NEW c \in Callers, NEW from, NEW to, Enter(c, from, to),
           to \in {"idle", "planned"} \cup TargetKinds, to = "planned" => "move_j" \in Entries
    PROVE  CallerOK'
  <1>1. to \notin {"stamping", "pushing"}
    BY EntryKinds
  <1> QED
    BY <1>1 DEF CallerOK, Enter, ringVars, rtVars, pubVars, opVars, lifeVars

\* Every step keeps the flags Boolean.
LEMMA FlagsStep ==
    ASSUME FlagsOK, [Next]_vars
    PROVE  FlagsOK'
  <1> USE DEF callerVars, ringVars, rtVars, pubVars, opVars, lifeVars, FlagsOK
  <1>1. CASE UNCHANGED vars
    BY <1>1 DEF vars
  <1>2. ASSUME NEW c \in Callers, MoveJ(c) PROVE FlagsOK'
    BY <1>2 DEF MoveJ, Enter
  <1>3. ASSUME NEW c \in Callers, MoveTrajectory(c) PROVE FlagsOK'
    BY <1>3 DEF MoveTrajectory, CaptureGate, Enter
  <1>4. ASSUME NEW c \in Callers, ServoJ(c) PROVE FlagsOK'
    BY <1>4 DEF ServoJ, Enter
  <1>5. ASSUME NEW c \in Callers, CallCore(c) PROVE FlagsOK'
    BY <1>5 DEF CallCore, Enter
  <1>6. ASSUME NEW c \in Callers, NEW kind \in TargetKinds, Submit(c, kind)
        PROVE  FlagsOK'
    BY <1>6 DEF Submit
  <1>7. ASSUME NEW c \in Callers, StampStopGen(c) PROVE FlagsOK'
    BY <1>7 DEF StampStopGen
  <1>8. ASSUME NEW c \in Callers, Push(c) PROVE FlagsOK'
    BY <1>8 DEF Push
  <1>9. ASSUME NEW c \in Callers, StopJ(c) PROVE FlagsOK'
    BY <1>9 DEF StopJ, StopStore
  <1>10. CASE Kick
    BY <1>10 DEF Kick
  <1>11. CASE TakeRequests
    BY <1>11 DEF TakeRequests
  <1>12. CASE Pop
    BY <1>12 DEF Pop
  <1>13. CASE Displace
    BY <1>13 DEF Displace
  <1>14. CASE DrainEmpty
    BY <1>14 DEF DrainEmpty
  <1>15. CASE LoadStopGen
    BY <1>15 DEF LoadStopGen, ConsumeSuperseded
  <1>16. ASSUME NEW window \in Windows, NEW end \in {"run", "done", "error"},
               NEW splices \in BOOLEAN, RunTick(window, end, splices)
        PROVE  FlagsOK'
    BY <1>16 DEF RunTick
  <1>17. CASE RetireBuffers
    BY <1>17 DEF RetireBuffers
  <1>18. CASE PublishActive
    BY <1>18 DEF PublishActive
  <1>19. CASE DrainTickEvents
    BY <1>19 DEF DrainTickEvents
  <1>20. CASE MotionStatus
    BY <1>20 DEF MotionStatus
  <1>21. CASE RequestRecover
    BY <1>21 DEF RequestRecover
  <1>22. CASE Reconnect
    BY <1>22 DEF Reconnect
  <1>23. CASE CoreStop
    BY <1>23 DEF CoreStop
  <1>24. CASE CoreStart
    BY <1>24 DEF CoreStart
  <1> QED
    BY <1>1, <1>2, <1>3, <1>4, <1>5, <1>6, <1>7, <1>8, <1>9, <1>10, <1>11, <1>12, <1>13,
       <1>14, <1>15, <1>16, <1>17, <1>18, <1>19, <1>20, <1>21, <1>22, <1>23, <1>24 DEF Next,
       Window, Calls, Restart

\* Every step keeps the callers' side in its range.
LEMMA CallerStep ==
    ASSUME CallerOK, Sound(core), pending = NoTarget \/ Real(pending), [Next]_vars
    PROVE  CallerOK'
  <1> USE Sizes DEF callerVars, ringVars, rtVars, pubVars, opVars, lifeVars, CallerOK
  <1>1. CASE UNCHANGED vars
    BY <1>1 DEF vars
  <1>2. ASSUME NEW c \in Callers, MoveJ(c) PROVE CallerOK'
    BY <1>2, EnterOK DEF MoveJ
  <1>3. ASSUME NEW c \in Callers, MoveTrajectory(c) PROVE CallerOK'
    <2>1. CASE CommandRejected /\ Enter(c, "planned", "idle")
      BY <2>1, EnterOK
    <2>2. CASE \E from \in {"idle", "planned"} :
                 CaptureGate(c, from) /\ (from = "idle" => "move_trajectory" \in Entries)
      <3>1. PICK from \in {"idle", "planned"} :
                 CaptureGate(c, from) /\ (from = "idle" => "move_trajectory" \in Entries)
        BY <2>2
      <3>2. "kTrajectory" \in TargetKinds
        BY <3>1, EntryKinds DEF CaptureGate, Enter
      <3> QED
        BY <3>1, <3>2, EnterOK DEF CaptureGate
    <2> QED
      BY <1>3, <2>1, <2>2 DEF MoveTrajectory
  <1>4. ASSUME NEW c \in Callers, ServoJ(c) PROVE CallerOK'
    BY <1>4, EnterOK, EntryKinds DEF ServoJ
  <1>5. ASSUME NEW c \in Callers, CallCore(c) PROVE CallerOK'
    BY <1>5, EnterOK, EntryKinds DEF CallCore
  <1>6. ASSUME NEW c \in Callers, NEW kind \in TargetKinds, Submit(c, kind)
        PROVE  CallerOK'
    <2>1. PICK a \in IF kind = "kTrajectory" THEN {x \in Addrs : Reaped(live)[x] = 0}
                     ELSE {NoAddr} :
            /\ building' = [building EXCEPT ![c] =
                              [id |-> nextId, kind |-> kind, epoch |-> publishedEpoch,
                               stop_gen |-> 0, addr |-> a]]
            /\ live' = [x \in Addrs |-> IF x = a THEN nextId ELSE Reaped(live)[x]]
      BY <1>6 DEF Submit
    <2>2. nextId \in 1..MaxMotions /\ a \in Addrs \cup {NoAddr}
      BY <1>6 DEF Submit
    <2>3. live' \in [Addrs -> 0..MaxMotions]
      BY <2>1, <2>2, ReapedType
    <2> DEFINE t == [id |-> nextId, kind |-> kind, epoch |-> publishedEpoch,
                     stop_gen |-> 0, addr |-> a]
    <2>4. Real(t)
      BY <2>2 DEF Real, Target
    <2> HIDE DEF t
    <2>5. building' \in [Callers -> Target] /\ building' = [building EXCEPT ![c] = t]
      BY <2>1, <2>4 DEF Real, t
    <2> QED
      BY <1>6, <2>2, <2>3, <2>4, <2>5 DEF Submit
  <1>7. ASSUME NEW c \in Callers, StampStopGen(c) PROVE CallerOK'
    <2>1. stopGen \in 0..(MaxStops + MaxReconnects)
      OBVIOUS
    <2> DEFINE t == [building[c] EXCEPT !.stop_gen = stopGen]
    <2>2. Real(t)
      BY <1>7, <2>1 DEF StampStopGen, Real, Target
    <2> HIDE DEF t
    <2>3. building' \in [Callers -> Target] /\ building' = [building EXCEPT ![c] = t]
      BY <1>7, <2>2 DEF StampStopGen, Real, t
    <2> QED
      BY <1>7, <2>2, <2>3 DEF StampStopGen
  <1>8. ASSUME NEW c \in Callers, Push(c) PROVE CallerOK'
    <2>1. Real(building[c]) /\ building[c].id \in Ids
      BY <1>8, RealTarget DEF Push
    <2>2. NoTarget \in Target
      BY DEF NoTarget, Target
    <2>3. /\ mailbox' \in Seq(Target) /\ Len(mailbox') <= MailboxCap
          /\ \A i \in 1..Len(mailbox') : Real(mailbox'[i])
      <3>1. CASE UNCHANGED mailbox
        BY <3>1
      <3>2. CASE Len(mailbox) < MailboxCap /\ mailbox' = Append(mailbox, building[c])
        <4>1. building[c] \in Target
          OBVIOUS
        <4>2. /\ mailbox' \in Seq(Target) /\ Len(mailbox') = Len(mailbox) + 1
              /\ \A i \in 1..Len(mailbox) : mailbox'[i] = mailbox[i]
              /\ mailbox'[Len(mailbox) + 1] = building[c]
          BY <3>2, <4>1, AppendProperties
        <4> QED
          BY <2>1, <3>2, <4>2
      <3> QED
        BY <1>8, <3>1, <3>2 DEF Push
    <2>4. live' \in [Addrs -> 0..MaxMotions]
      BY <1>8 DEF Push, BuffersAfterDrop
    <2> QED
      BY <1>8, <2>1, <2>2, <2>3, <2>4 DEF Push
  <1>9. ASSUME NEW c \in Callers, StopJ(c) PROVE CallerOK'
    <2>1. CASE at[c] = "idle"
      BY <1>9, <2>1 DEF StopJ, StopStore
    <2>2. CASE at[c] = "stopping"
      BY <1>9, <2>2 DEF StopJ, StopStore
    <2> QED
      BY <1>9, <2>1, <2>2 DEF StopJ
  <1>10. CASE Kick
    BY <1>10, ReapedType DEF Kick
  <1>11. CASE TakeRequests
    BY <1>11 DEF TakeRequests
  <1>12. CASE Pop
    BY <1>12 DEF Pop
  <1>13. CASE Displace
    BY <1>13 DEF Displace
  <1>14. CASE DrainEmpty
    BY <1>14 DEF DrainEmpty
  <1>15. CASE LoadStopGen
    BY <1>15 DEF LoadStopGen
  <1>16. ASSUME NEW window \in Windows, NEW end \in {"run", "done", "error"},
               NEW splices \in BOOLEAN, RunTick(window, end, splices)
        PROVE  CallerOK'
    <2>1. publishedEpoch' = core'.epoch /\ core'.epoch <= MaxEpoch
      BY <1>16 DEF RunTick
    <2>2. core'.epoch \in Nat
      BY <1>16, TickPlays DEF Sound, Shapes
    <2>3. publishedEpoch' \in 0..MaxEpoch
      BY <2>1, <2>2
    <2>4. UNCHANGED <<callerVars, submitMu, nextId, stopGen, ringVars, opVars, lifeVars, pushed>>
      BY <1>16 DEF RunTick
    <2> QED
      BY <2>3, <2>4
  <1>17. CASE RetireBuffers
    BY <1>17 DEF RetireBuffers
  <1>18. CASE PublishActive
    BY <1>18 DEF PublishActive
  <1>19. CASE DrainTickEvents
    BY <1>19 DEF DrainTickEvents
  <1>20. CASE MotionStatus
    BY <1>20 DEF MotionStatus
  <1>21. CASE RequestRecover
    BY <1>21 DEF RequestRecover
  <1>22. CASE Reconnect
    BY <1>22 DEF Reconnect
  <1>23. CASE CoreStop
    BY <1>23 DEF CoreStop
  <1>24. CASE CoreStart
    BY <1>24 DEF CoreStart
  <1> QED
    BY <1>1, <1>2, <1>3, <1>4, <1>5, <1>6, <1>7, <1>8, <1>9, <1>10, <1>11, <1>12, <1>13,
       <1>14, <1>15, <1>16, <1>17, <1>18, <1>19, <1>20, <1>21, <1>22, <1>23, <1>24 DEF Next,
       Window, Calls, Restart


RtOK ==
    /\ rt \in {"top", "drain", "displace", "displaced", "gen", "tick", "retire",
               "publish", "publishStatus", "events", "eventId", "exited"}
    /\ Sound(core) /\ core.epoch <= MaxEpoch
    /\ pending = NoTarget \/ Real(pending)
    /\ popped = NoTarget \/ Real(popped)
    /\ rt \in {"displace", "displaced"} <=> popped # NoTarget
    /\ rt \in {"displace", "displaced"} => Real(pending)
    /\ pending # NoTarget =>
          rt \in {"drain", "displace", "displaced", "gen", "tick", "retire"}
    /\ reconnect = "start" => rt = "exited"
    /\ activeOwner \in Addrs \cup {NoAddr}
    /\ retireRing \in Seq(Addrs) /\ Len(retireRing) <= RetireCap

PollOK ==
    /\ resolutions \in [1..TableSize -> [id: 0..MaxMotions, status: Status]]
    /\ activeId \in 0..MaxMotions /\ activeStatus \in Status
    /\ head \in 1..TableSize
    /\ reader \in [at: {"idle", "scan", "slot", "active", "status"}, id: 0..MaxMotions,
                   k: 1..(TableSize + 1), got: Status, via: {"none", "table", "active"}]
    /\ reader.at = "slot" => reader.k <= TableSize
    /\ reconnect \in {"idle", "asked", "shutdown", "stop", "start", "hold", "failed"}

\* retire_ring_.push keeps to the ring's size.
LEMMA RetiredType ==
    ASSUME RtOK, NEW a \in Addrs \cup {NoAddr}
    PROVE  Retired(a) \in Seq(Addrs) /\ Len(Retired(a)) <= RetireCap
  <1>1. CASE a # NoAddr /\ Len(retireRing) < RetireCap
    <2>1. Append(retireRing, a) \in Seq(Addrs) /\ Len(Append(retireRing, a)) = Len(retireRing) + 1
      BY <1>1, AppendProperties DEF RtOK
    <2> QED
      BY <1>1, <2>1, Sizes DEF Retired, RtOK
  <1>2. CASE ~(a # NoAddr /\ Len(retireRing) < RetireCap)
    BY <1>2 DEF Retired, RtOK
  <1> QED
    BY <1>1, <1>2

\* The head goes round the table.
LEMMA SlotType ==
    ASSUME PollOK, UNCHANGED head \/ NextSlot
    PROVE  head' \in 1..TableSize
  BY Sizes DEF PollOK, NextSlot

\* record_resolution_ keeps the table a table.
LEMMA RecordType ==
    ASSUME PollOK, NEW m \in 0..MaxMotions, NEW st \in Status, NEW first \in BOOLEAN,
           RecordResolution(m, st, first)
    PROVE  resolutions' \in [1..TableSize -> [id: 0..MaxMotions, status: Status]]
  BY DEF PollOK, RecordResolution

\* Every step keeps the RT thread's side in its range.
LEMMA RtStep ==
    ASSUME RtOK, CallerOK, [Next]_vars
    PROVE  RtOK'
  <1> USE Sizes DEF callerVars, ringVars, rtVars, pubVars, opVars, lifeVars, RtOK
  <1>1. CASE UNCHANGED vars
    BY <1>1 DEF vars
  <1>2. ASSUME NEW c \in Callers, MoveJ(c) PROVE RtOK'
    BY <1>2 DEF MoveJ, Enter
  <1>3. ASSUME NEW c \in Callers, MoveTrajectory(c) PROVE RtOK'
    BY <1>3 DEF MoveTrajectory, CaptureGate, Enter
  <1>4. ASSUME NEW c \in Callers, ServoJ(c) PROVE RtOK'
    BY <1>4 DEF ServoJ, Enter
  <1>5. ASSUME NEW c \in Callers, CallCore(c) PROVE RtOK'
    BY <1>5 DEF CallCore, Enter
  <1>6. ASSUME NEW c \in Callers, NEW kind \in TargetKinds, Submit(c, kind)
        PROVE  RtOK'
    BY <1>6 DEF Submit
  <1>7. ASSUME NEW c \in Callers, StampStopGen(c) PROVE RtOK'
    BY <1>7 DEF StampStopGen
  <1>8. ASSUME NEW c \in Callers, Push(c) PROVE RtOK'
    BY <1>8 DEF Push
  <1>9. ASSUME NEW c \in Callers, StopJ(c) PROVE RtOK'
    BY <1>9 DEF StopJ
  <1>10. CASE Kick
    BY <1>10 DEF Kick
  <1>11. CASE TakeRequests
    <2> DEFINE r == core.recovering \/ (recoverReq /\ core.mode = "fault")
    <2>1. core' = [core EXCEPT !.recovering = r]
      BY <1>11 DEF TakeRequests
    <2>2. r \in BOOLEAN
      OBVIOUS
    <2> HIDE DEF r
    <2>3. Sound(core') /\ core'.epoch = core.epoch
      BY <2>1, <2>2 DEF Sound, Shapes
    <2> QED
      BY <1>11, <2>3 DEF TakeRequests
  <1>12. CASE Pop
    <2>1. Real(Head(mailbox)) /\ Head(mailbox) # NoTarget
      BY <1>12, RealTarget DEF Pop, CallerOK
    <2> QED
      BY <1>12, <2>1 DEF Pop
  <1>13. CASE Displace
    <2>1. CASE rt = "displace"
      <3>1. pending.id \in Ids /\ pending.addr \in Addrs \cup {NoAddr}
        BY <2>1, RealTarget
      <3>2. "PREEMPTED" \in Status
        BY DEF Status, Terminal
      <3>3. core' = [core EXCEPT !.outcome[pending.id] = "PREEMPTED"]
        BY <1>13, <2>1 DEF Displace, DisplaceTarget
      <3>4. Sound(core') /\ core'.epoch = core.epoch
        BY <3>1, <3>2, <3>3 DEF Sound, Shapes
      <3>5. retireRing' = Retired(pending.addr)
        BY <1>13, <2>1 DEF Displace, DisplaceTarget
      <3>6. retireRing' \in Seq(Addrs) /\ Len(retireRing') <= RetireCap
        BY <3>1, <3>5, RetiredType
      <3> QED
        BY <1>13, <2>1, <3>4, <3>6 DEF Displace
    <2>2. CASE rt = "displaced"
      BY <1>13, <2>2 DEF Displace
    <2> QED
      BY <1>13, <2>1, <2>2 DEF Displace
  <1>14. CASE DrainEmpty
    BY <1>14 DEF DrainEmpty
  <1>15. CASE LoadStopGen
    BY <1>15 DEF LoadStopGen
  <1>16. ASSUME NEW window \in Windows, NEW end \in {"run", "done", "error"},
               NEW splices \in BOOLEAN, RunTick(window, end, splices)
        PROVE  RtOK'
    <2>1. core'.epoch <= MaxEpoch
      BY <1>16 DEF RunTick
    <2>2. Sound(core')
      BY <1>16, TickPlays
    <2> QED
      BY <1>16, <2>1, <2>2 DEF RunTick
  <1>17. CASE RetireBuffers
    <2>1. pending # NoTarget => pending.addr \in Addrs \cup {NoAddr}
      BY RealTarget
    <2>2. retireRing' \in Seq(Addrs) /\ Len(retireRing') <= RetireCap
      BY <1>17, <2>1, RetiredType DEF RetireBuffers, ToRetire
    <2>3. activeOwner' \in Addrs \cup {NoAddr}
      BY <1>17, <2>1 DEF RetireBuffers
    <2> QED
      BY <1>17, <2>2, <2>3 DEF RetireBuffers
  <1>18. CASE PublishActive
    BY <1>18 DEF PublishActive
  <1>19. CASE DrainTickEvents
    <2>1. CASE UNCHANGED core
      BY <1>19, <2>1 DEF DrainTickEvents
    <2>2. CASE core.events # <<>> /\ core' = [core EXCEPT !.events = Tail(core.events)]
      <3> DEFINE e == Tail(core.events)
      <3>1. e \in Seq([id: Ids, status: Terminal])
        BY <2>2, HeadTailProperties DEF Sound, Shapes
      <3>2. core' = [core EXCEPT !.events = e]
        BY <2>2
      <3> HIDE DEF e
      <3>3. Sound(core') /\ core'.epoch = core.epoch
        BY <3>1, <3>2 DEF Sound, Shapes
      <3> QED
        BY <1>19, <3>3 DEF DrainTickEvents
    <2>3. \/ UNCHANGED core
          \/ core.events # <<>> /\ core' = [core EXCEPT !.events = Tail(core.events)]
      BY <1>19 DEF DrainTickEvents
    <2> QED
      BY <2>1, <2>2, <2>3
  <1>20. CASE MotionStatus
    BY <1>20 DEF MotionStatus
  <1>21. CASE RequestRecover
    BY <1>21 DEF RequestRecover
  <1>22. CASE Reconnect
    BY <1>22 DEF Reconnect
  <1>23. CASE CoreStop
    <2>1. retireRing' \in Seq(Addrs) /\ Len(retireRing') <= RetireCap
      <3>1. CASE retireRing' = <<>>
        BY <3>1
      <3>2. CASE UNCHANGED retireRing
        BY <3>2
      <3> QED
        BY <1>23, <3>1, <3>2 DEF CoreStop
    <2> QED
      BY <1>23, <2>1 DEF CoreStop
  <1>24. CASE CoreStart
    BY <1>24 DEF CoreStart
  <1> QED
    BY <1>1, <1>2, <1>3, <1>4, <1>5, <1>6, <1>7, <1>8, <1>9, <1>10, <1>11, <1>12, <1>13,
       <1>14, <1>15, <1>16, <1>17, <1>18, <1>19, <1>20, <1>21, <1>22, <1>23, <1>24 DEF Next,
       Window, Calls, Restart

\* Every step keeps what is published in its range.
LEMMA PollStep ==
    ASSUME PollOK, RtOK, CallerOK, [Next]_vars
    PROVE  PollOK'
  <1> USE Sizes DEF callerVars, ringVars, rtVars, pubVars, opVars, lifeVars, PollOK
  <1>1. CASE UNCHANGED vars
    BY <1>1 DEF vars
  <1>2. ASSUME NEW c \in Callers, MoveJ(c) PROVE PollOK'
    BY <1>2 DEF MoveJ, Enter
  <1>3. ASSUME NEW c \in Callers, MoveTrajectory(c) PROVE PollOK'
    BY <1>3 DEF MoveTrajectory, CaptureGate, Enter
  <1>4. ASSUME NEW c \in Callers, ServoJ(c) PROVE PollOK'
    BY <1>4 DEF ServoJ, Enter
  <1>5. ASSUME NEW c \in Callers, CallCore(c) PROVE PollOK'
    BY <1>5 DEF CallCore, Enter
  <1>6. ASSUME NEW c \in Callers, NEW kind \in TargetKinds, Submit(c, kind)
        PROVE  PollOK'
    BY <1>6 DEF Submit
  <1>7. ASSUME NEW c \in Callers, StampStopGen(c) PROVE PollOK'
    BY <1>7 DEF StampStopGen
  <1>8. ASSUME NEW c \in Callers, Push(c) PROVE PollOK'
    BY <1>8 DEF Push
  <1>9. ASSUME NEW c \in Callers, StopJ(c) PROVE PollOK'
    BY <1>9 DEF StopJ
  <1>10. CASE Kick
    BY <1>10 DEF Kick
  <1>11. CASE TakeRequests
    BY <1>11 DEF TakeRequests
  <1>12. CASE Pop
    BY <1>12 DEF Pop
  <1>13. CASE Displace
    <2>1. pending.id \in 0..MaxMotions /\ "PREEMPTED" \in Status
      <3>1. Real(pending)
        BY <1>13 DEF Displace, RtOK
      <3> QED
        BY <3>1, RealTarget DEF Ids, Status, Terminal
    <2>2. resolutions' \in [1..TableSize -> [id: 0..MaxMotions, status: Status]]
      BY <1>13, <2>1, RecordType DEF Displace
    <2>3. head' \in 1..TableSize
      BY <1>13, SlotType DEF Displace
    <2> QED
      BY <1>13, <2>2, <2>3 DEF Displace
  <1>14. CASE DrainEmpty
    BY <1>14 DEF DrainEmpty
  <1>15. CASE LoadStopGen
    BY <1>15 DEF LoadStopGen
  <1>16. ASSUME NEW window \in Windows, NEW end \in {"run", "done", "error"},
               NEW splices \in BOOLEAN, RunTick(window, end, splices)
        PROVE  PollOK'
    BY <1>16 DEF RunTick
  <1>17. CASE RetireBuffers
    BY <1>17 DEF RetireBuffers
  <1>18. CASE PublishActive
    <2>1. core.slot \in 0..MaxMotions /\ core.status \in Status
      BY DEF RtOK, Sound, Shapes
    <2> QED
      BY <1>18, <2>1 DEF PublishActive
  <1>19. CASE DrainTickEvents
    <2>1. CASE core.events = <<>>
      BY <1>19, <2>1 DEF DrainTickEvents
    <2>2. CASE core.events # <<>>
      <3> DEFINE e == Head(core.events)
      <3>1. e \in [id: Ids, status: Terminal]
        BY <2>2, HeadTailProperties DEF RtOK, Sound, Shapes
      <3>2. e.id \in 0..MaxMotions /\ e.status \in Status
        BY <3>1 DEF Ids, Status
      <3>3. \E first \in BOOLEAN : RecordResolution(e.id, e.status, first)
        BY <1>19, <2>2 DEF DrainTickEvents
      <3>4. head' \in 1..TableSize
        BY <1>19, <2>2, SlotType DEF DrainTickEvents
      <3> HIDE DEF e
      <3>5. resolutions' \in [1..TableSize -> [id: 0..MaxMotions, status: Status]]
        BY <3>2, <3>3, RecordType
      <3> QED
        BY <1>19, <3>4, <3>5 DEF DrainTickEvents
    <2> QED
      BY <2>1, <2>2
  <1>20. CASE MotionStatus
    <2>1. reader.id \in 0..MaxMotions /\ reader.k \in 1..(TableSize + 1)
      OBVIOUS
    <2>2. "PENDING" \in Status /\ activeStatus \in Status
      BY DEF Status
    <2>3. reader.at = "slot" => resolutions[reader.k].status \in Status
      BY <2>1
    <2>4. \A m \in pushed : m \in 0..MaxMotions
      BY DEF CallerOK, Ids
    <2>5. \E pc \in {"idle", "scan", "slot", "status"}, m \in 0..MaxMotions,
            k \in 1..(TableSize + 1), got \in Status, via \in {"none", "table", "active"} :
            Reader(pc, m, k, got, via) /\ (pc = "slot" => k <= TableSize)
      <3>1. CASE reader.at = "idle"
        BY <1>20, <2>2, <2>4, <3>1 DEF MotionStatus
      <3>2. CASE reader.at = "scan" /\ reader.k <= TableSize
        <4>1. reader.k + 1 \in 1..(TableSize + 1)
          BY <2>1, <3>2
        <4> QED
          BY <1>20, <2>1, <2>2, <3>2, <4>1 DEF MotionStatus
      <3>3. CASE reader.at = "slot"
        BY <1>20, <2>1, <2>3, <3>3 DEF MotionStatus
      <3>4. CASE reader.at = "scan" /\ reader.k > TableSize
        BY <1>20, <2>1, <2>2, <3>4 DEF MotionStatus
      <3>5. CASE reader.at = "status"
        BY <1>20, <2>1, <2>2, <3>5 DEF MotionStatus
      <3> QED
        BY <1>20, <3>1, <3>2, <3>3, <3>4, <3>5 DEF MotionStatus
    <2>6. /\ reader' \in [at: {"idle", "scan", "slot", "active", "status"}, id: 0..MaxMotions,
                          k: 1..(TableSize + 1), got: Status, via: {"none", "table", "active"}]
          /\ reader'.at = "slot" => reader'.k <= TableSize
      BY <2>5 DEF Reader
    <2> QED
      BY <1>20, <2>6 DEF MotionStatus
  <1>21. CASE RequestRecover
    BY <1>21 DEF RequestRecover
  <1>22. CASE Reconnect
    BY <1>22 DEF Reconnect
  <1>23. CASE CoreStop
    BY <1>23 DEF CoreStop
  <1>24. CASE CoreStart
    BY <1>24 DEF CoreStart
  <1> QED
    BY <1>1, <1>2, <1>3, <1>4, <1>5, <1>6, <1>7, <1>8, <1>9, <1>10, <1>11, <1>12, <1>13,
       <1>14, <1>15, <1>16, <1>17, <1>18, <1>19, <1>20, <1>21, <1>22, <1>23, <1>24 DEF Next,
       Window, Calls, Restart


TypeInv == CallerOK /\ FlagsOK /\ RtOK /\ PollOK

LEMMA TypeStep ==
    ASSUME TypeInv, [Next]_vars
    PROVE  TypeInv'
  BY CallerStep, FlagsStep, RtStep, PollStep DEF TypeInv, RtOK

LEMMA TypeInit ==
    ASSUME Init
    PROVE  TypeInv
  <1> USE Sizes
  <1>1. NoTarget \in Target
    BY DEF NoTarget, Target
  <1>2. CallerOK
    BY <1>1 DEF Init, CallerOK
  <1>3. FlagsOK
    BY DEF Init, FlagsOK
  <1>4. Sound(core) /\ core.epoch = 0
    <2>1. "PENDING" \in Status
      BY DEF Status
    <2>2. <<>> \in Seq([id: Ids, status: Terminal])
      OBVIOUS
    <2> QED
      BY <2>1, <2>2 DEF Init, Sound, Shapes
  <1>5. RtOK
    BY <1>4 DEF Init, RtOK
  <1>6. PollOK
    BY DEF Init, PollOK, Status
  <1> QED
    BY <1>2, <1>3, <1>5, <1>6 DEF TypeInv

\* Every variable of the realtime core keeps its range whatever its threads do: rings
\* keep to their sizes, the table's head stays in the table, a running slot has a motion.
THEOREM CoreTypes == Spec => []TypeOK
  <1>1. Init => TypeInv
    BY TypeInit
  <1>2. TypeInv /\ [Next]_vars => TypeInv'
    BY TypeStep
  <1>3. TypeInv => TypeOK
    <2> SUFFICES ASSUME TypeInv PROVE TypeOK
      OBVIOUS
    <2>1. core \in Core
      BY Sizes DEF TypeInv, RtOK, Sound, Shapes, Core
    <2>2. pending \in Target /\ popped \in Target
      BY Sizes DEF TypeInv, RtOK, Real, NoTarget, Target
    <2>3. stopGen \in 0..(MaxStops + MaxReconnects)
      BY Sizes DEF TypeInv, CallerOK
    <2> QED
      BY <2>1, <2>2, <2>3 DEF TypeInv, TypeOK, CallerOK, FlagsOK, RtOK, PollOK
  <1> QED
    BY <1>1, <1>2, <1>3, PTL DEF Spec

-----------------------------------------------------------------------------
(* The pipeline of targets.                                                *)

\* Ids rise along the way of a target: pending, popped, the mailbox from its head, the
\* one being built under submit_mu_.  So no two targets under way share an id.
PipeInv ==
    /\ \A m \in pushed : m < nextId
    /\ \A c \in Callers : at[c] \in {"stamping", "pushing"} =>
          /\ submitMu = {c} /\ building[c].id < nextId
          /\ \A m \in pushed : m < building[c].id
    /\ \A i \in 1..Len(mailbox) : mailbox[i].id \in pushed
    /\ \A i, j \in 1..Len(mailbox) : i < j => mailbox[i].id < mailbox[j].id
    /\ pending # NoTarget => /\ pending.id \in pushed
                             /\ \A i \in 1..Len(mailbox) : pending.id < mailbox[i].id
    /\ popped # NoTarget => /\ popped.id \in pushed /\ pending.id < popped.id
                            /\ \A i \in 1..Len(mailbox) : popped.id < mailbox[i].id

\* Every step keeps the order.
LEMMA PipeStep ==
    ASSUME TypeInv, PipeInv, [Next]_vars
    PROVE  PipeInv'
  <1> USE EntryKinds DEF callerVars, ringVars, rtVars, pubVars, opVars, lifeVars, PipeInv
  <1>1. CASE UNCHANGED vars
    BY <1>1 DEF vars
  <1>2. ASSUME NEW c \in Callers, MoveJ(c) PROVE PipeInv'
    BY <1>2 DEF MoveJ, Enter
  <1>3. ASSUME NEW c \in Callers, MoveTrajectory(c) PROVE PipeInv'
    <2>1. \E from, to \in {"idle", "planned", "kTrajectory"} : Enter(c, from, to)
      BY <1>3 DEF MoveTrajectory, CaptureGate
    <2> QED
      BY <2>1 DEF Enter, TypeInv, CallerOK
  <1>4. ASSUME NEW c \in Callers, ServoJ(c) PROVE PipeInv'
    BY <1>4 DEF ServoJ, Enter
  <1>5. ASSUME NEW c \in Callers, CallCore(c) PROVE PipeInv'
    BY <1>5 DEF CallCore, Enter
  <1>6. ASSUME NEW c \in Callers, NEW kind \in TargetKinds, Submit(c, kind)
        PROVE  PipeInv'
    <2>1. /\ \A d \in Callers : at[d] \notin {"stamping", "pushing"}
          /\ at \in [Callers -> {"idle", "planned", "stamping", "pushing", "stopping"}
                                \cup TargetKinds]
          /\ building \in [Callers -> Target] /\ nextId \in Nat /\ pushed \subseteq Nat
      BY <1>6, Sizes DEF Submit, TypeInv, CallerOK, Ids
    <2>2. at' = [at EXCEPT ![c] = "stamping"] /\ submitMu' = {c} /\ nextId' = nextId + 1
      BY <1>6 DEF Submit
    <2>3. building'[c].id = nextId
      BY <1>6, <2>1 DEF Submit
    <2>4. UNCHANGED <<pushed, mailbox, pending, popped>>
      BY <1>6 DEF Submit
    <2> QED
      BY <2>1, <2>2, <2>3, <2>4
  <1>7. ASSUME NEW c \in Callers, StampStopGen(c) PROVE PipeInv'
    <2>1. /\ at \in [Callers -> {"idle", "planned", "stamping", "pushing", "stopping"}
                                \cup TargetKinds]
          /\ building \in [Callers -> Target]
      BY DEF TypeInv, CallerOK
    <2>2. building'[c].id = building[c].id /\ \A d \in Callers : d # c => building'[d] = building[d]
      BY <1>7, <2>1 DEF StampStopGen, Target
    <2> QED
      BY <1>7, <2>1, <2>2 DEF StampStopGen
  <1>8. ASSUME NEW c \in Callers, Push(c) PROVE PipeInv'
    <2>1. /\ at \in [Callers -> {"idle", "planned", "stamping", "pushing", "stopping"}
                                \cup TargetKinds]
          /\ mailbox \in Seq(Target) /\ building[c] \in Target
          /\ \A m \in pushed : m \in Nat
          /\ building[c].id \in Nat /\ nextId \in Nat
      BY <1>8, Sizes DEF Push, TypeInv, CallerOK, Ids, Target
    <2>2. /\ at' = [at EXCEPT ![c] = "idle"] /\ UNCHANGED <<nextId, pending, popped>>
          /\ \A d \in Callers : d # c => at[d] \notin {"stamping", "pushing"}
          /\ \A d \in Callers : at'[d] \notin {"stamping", "pushing"}
      BY <1>8, <2>1 DEF Push
    <2>3. CASE UNCHANGED <<mailbox, pushed>>
      BY <2>2, <2>3
    <2>4. CASE mailbox' = Append(mailbox, building[c]) /\ pushed' = pushed \cup {building[c].id}
      <3>1. /\ Len(mailbox') = Len(mailbox) + 1 /\ Len(mailbox) \in Nat
            /\ \A i \in 1..Len(mailbox) : mailbox'[i] = mailbox[i]
            /\ mailbox'[Len(mailbox) + 1] = building[c]
        BY <2>1, <2>4, AppendProperties
      <3>2. building[c].id < nextId /\ \A m \in pushed : m < building[c].id
        BY <1>8 DEF Push
      <3>3. \A i, j \in 1..Len(mailbox') : i < j => mailbox'[i].id < mailbox'[j].id
        BY <3>1, <3>2
      <3>4. /\ pending # NoTarget => \A i \in 1..Len(mailbox') : pending.id < mailbox'[i].id
            /\ popped # NoTarget => \A i \in 1..Len(mailbox') : popped.id < mailbox'[i].id
        BY <3>1, <3>2
      <3>5. \A i \in 1..Len(mailbox') : mailbox'[i].id \in pushed'
        BY <2>4, <3>1
      <3> QED
        BY <2>2, <2>4, <3>2, <3>3, <3>4, <3>5
    <2> QED
      BY <1>8, <2>3, <2>4 DEF Push
  <1>9. ASSUME NEW c \in Callers, StopJ(c) PROVE PipeInv'
    <2>1. at \in [Callers -> {"idle", "planned", "stamping", "pushing", "stopping"}
                             \cup TargetKinds]
      BY DEF TypeInv, CallerOK
    <2>2. \E to \in {"idle", "stopping"} : at' = [at EXCEPT ![c] = to]
      BY <1>9 DEF StopJ
    <2> QED
      BY <1>9, <2>1, <2>2 DEF StopJ
  <1>10. CASE Kick
    BY <1>10 DEF Kick
  <1>11. CASE TakeRequests
    BY <1>11 DEF TakeRequests
  <1>12. CASE Pop
    <2>1. /\ Len(mailbox) \in Nat \ {0} /\ Len(mailbox') = Len(mailbox) - 1
          /\ Head(mailbox) = mailbox[1]
          /\ \A i \in 1..Len(mailbox') : mailbox'[i] = mailbox[i + 1]
      BY <1>12, HeadTailProperties, EmptySeq DEF Pop, TypeInv, CallerOK
    <2>2. 1 \in 1..Len(mailbox) /\ \A i \in 1..Len(mailbox') : i + 1 \in 1..Len(mailbox) /\ 1 < i + 1
      BY <2>1
    <2>3. popped = NoTarget
      BY <1>12 DEF Pop, TypeInv, RtOK
    <2>4. \A i, j \in 1..Len(mailbox') : i < j => mailbox'[i].id < mailbox'[j].id
      BY <2>1, <2>2
    <2>5. \A i \in 1..Len(mailbox') : mailbox'[i].id \in pushed /\ mailbox[1].id < mailbox'[i].id
      BY <2>1, <2>2
    <2>6. pending # NoTarget => /\ pending.id < mailbox[1].id
                                /\ \A i \in 1..Len(mailbox') : pending.id < mailbox'[i].id
      BY <2>1, <2>2
    <2> QED
      BY <1>12, <2>1, <2>2, <2>3, <2>4, <2>5, <2>6 DEF Pop
  <1>13. CASE Displace
    BY <1>13 DEF Displace
  <1>14. CASE DrainEmpty
    BY <1>14 DEF DrainEmpty
  <1>15. CASE LoadStopGen
    BY <1>15 DEF LoadStopGen
  <1>16. ASSUME NEW window \in Windows, NEW end \in {"run", "done", "error"},
               NEW splices \in BOOLEAN, RunTick(window, end, splices)
        PROVE  PipeInv'
    BY <1>16 DEF RunTick
  <1>17. CASE RetireBuffers
    <2>1. popped = NoTarget
      BY <1>17 DEF RetireBuffers, TypeInv, RtOK
    <2> QED
      BY <1>17, <2>1 DEF RetireBuffers
  <1>18. CASE PublishActive
    BY <1>18 DEF PublishActive
  <1>19. CASE DrainTickEvents
    BY <1>19 DEF DrainTickEvents
  <1>20. CASE MotionStatus
    BY <1>20 DEF MotionStatus
  <1>21. CASE RequestRecover
    BY <1>21 DEF RequestRecover
  <1>22. CASE Reconnect
    BY <1>22 DEF Reconnect
  <1>23. CASE CoreStop
    BY <1>23 DEF CoreStop
  <1>24. CASE CoreStart
    BY <1>24 DEF CoreStart
  <1> QED
    BY <1>1, <1>2, <1>3, <1>4, <1>5, <1>6, <1>7, <1>8, <1>9, <1>10, <1>11, <1>12, <1>13,
       <1>14, <1>15, <1>16, <1>17, <1>18, <1>19, <1>20, <1>21, <1>22, <1>23, <1>24 DEF Next,
       Window, Calls, Restart

-----------------------------------------------------------------------------
(* stop_j.                                                                 *)

\* A motion pushed before some stop_j began, asked for or taken or still between its
\* two stores.
Outrun(m) == m \in outrun \cup stopped \/ \E c \in Callers : m \in before[c]

\* A target under way was stamped with a generation that has been; a stop that outran
\* it has moved the generation since.
Stamped(t) == t.stop_gen <= stopGen /\ (Outrun(t.id) => t.stop_gen < stopGen)

StopInv ==
    /\ \A c \in Callers : before[c] \subseteq pushed
    /\ outrun \subseteq pushed /\ stopped \subseteq pushed
    /\ \A c \in Callers : at[c] = "pushing" => building[c].stop_gen <= stopGen
    /\ \A i \in 1..Len(mailbox) : Stamped(mailbox[i])
    /\ pending # NoTarget => Stamped(pending)
    /\ popped # NoTarget => Stamped(popped)
    /\ rt = "tick" /\ pending # NoTarget /\ pending.id \in stopped => superseded
    /\ rt \in {"drain", "displace", "displaced", "gen", "tick"} /\ core.playing \in stopped
          => stopping
    /\ StopWins

\* No step lets a motion past the stop_j that outran it.
LEMMA StopStep ==
    ASSUME TypeInv, PipeInv, StopInv, [Next]_vars
    PROVE  StopInv'
  <1> USE EntryKinds DEF callerVars, ringVars, rtVars, pubVars, opVars, lifeVars, StopInv,
     Stamped, Outrun, StopWins
  <1>1. CASE UNCHANGED vars
    BY <1>1 DEF vars
  <1>2. ASSUME NEW c \in Callers, MoveJ(c) PROVE StopInv'
    BY <1>2 DEF MoveJ, Enter
  <1>3. ASSUME NEW c \in Callers, MoveTrajectory(c) PROVE StopInv'
    <2>1. \E from, to \in {"idle", "planned", "kTrajectory"} : Enter(c, from, to)
      BY <1>3 DEF MoveTrajectory, CaptureGate
    <2> QED
      BY <2>1 DEF Enter, TypeInv, CallerOK
  <1>4. ASSUME NEW c \in Callers, ServoJ(c) PROVE StopInv'
    BY <1>4 DEF ServoJ, Enter
  <1>5. ASSUME NEW c \in Callers, CallCore(c) PROVE StopInv'
    BY <1>5 DEF CallCore, Enter
  <1>6. ASSUME NEW c \in Callers, NEW kind \in TargetKinds, Submit(c, kind)
        PROVE  StopInv'
    BY <1>6 DEF Submit
  <1>7. ASSUME NEW c \in Callers, StampStopGen(c) PROVE StopInv'
    <2>1. /\ at \in [Callers -> {"idle", "planned", "stamping", "pushing", "stopping"}
                                \cup TargetKinds]
          /\ building \in [Callers -> Target] /\ stopGen \in Nat
      BY DEF TypeInv, CallerOK
    <2>2. building'[c].stop_gen = stopGen /\ \A d \in Callers : d # c => building'[d] = building[d]
      BY <1>7, <2>1 DEF StampStopGen, Target
    <2> QED
      BY <1>7, <2>1, <2>2 DEF StampStopGen
  <1>8. ASSUME NEW c \in Callers, Push(c) PROVE StopInv'
    <2>1. /\ at \in [Callers -> {"idle", "planned", "stamping", "pushing", "stopping"}
                                \cup TargetKinds]
          /\ mailbox \in Seq(Target) /\ building[c] \in Target
          /\ \A m \in pushed : m \in Nat
          /\ building[c].id \in Nat
      BY <1>8, Sizes, RealNumbers DEF Push, TypeInv, CallerOK, Ids
    <2>2. building[c].id \notin pushed
      BY <1>8, <2>1 DEF Push, PipeInv
    <2>3. Stamped(building[c])
      BY <1>8, <2>2 DEF Push
    <2>4. \A i \in 1..Len(mailbox') : Stamped(mailbox'[i])
      <3>1. CASE UNCHANGED mailbox
        BY <3>1
      <3>2. CASE mailbox' = Append(mailbox, building[c])
        <4> HIDE DEF Stamped
        <4>1. /\ Len(mailbox') = Len(mailbox) + 1 /\ Len(mailbox) \in Nat
              /\ \A i \in 1..Len(mailbox) : mailbox'[i] = mailbox[i]
              /\ mailbox'[Len(mailbox) + 1] = building[c]
          BY <2>1, <3>2, AppendProperties
        <4> QED
          BY <2>3, <4>1
      <3> QED
        BY <1>8, <3>1, <3>2 DEF Push
    <2>5. \A d \in Callers : at'[d] = "pushing" => building'[d] = building[d] /\ at[d] = "pushing"
      BY <1>8, <2>1 DEF Push
    <2> QED
      BY <1>8, <2>4, <2>5 DEF Push
  <1>9. ASSUME NEW c \in Callers, StopJ(c) PROVE StopInv'
    <2>0. /\ at \in [Callers -> {"idle", "planned", "stamping", "pushing", "stopping"}
                                \cup TargetKinds]
          /\ before \in [Callers -> SUBSET Ids]
      BY DEF TypeInv, CallerOK
    <2>1. /\ stopGen \in Nat
          /\ \A i \in 1..Len(mailbox) : mailbox[i].stop_gen \in Nat
          /\ pending # NoTarget => pending.stop_gen \in Nat
          /\ popped # NoTarget => popped.stop_gen \in Nat
          /\ \A d \in Callers : at[d] = "pushing" => building[d].stop_gen \in Nat
      BY RealNumbers DEF TypeInv, CallerOK, RtOK
    <2>2. CASE at[c] = "idle"
      <3>1. /\ stopGen' = stopGen + 1 /\ at' = [at EXCEPT ![c] = "stopping"]
            /\ before' = [before EXCEPT ![c] = pushed] /\ UNCHANGED opVars
        BY <1>9, <2>2 DEF StopJ, StopStore
      <3> QED
        BY <1>9, <2>0, <2>1, <3>1 DEF StopJ
    <2>3. CASE at[c] = "stopping"
      <3>1. /\ at' = [at EXCEPT ![c] = "idle"] /\ before' = [before EXCEPT ![c] = {}]
            /\ outrun' = outrun \cup before[c] /\ UNCHANGED <<stopGen, stopped>>
        BY <1>9, <2>3 DEF StopJ, StopStore
      <3>2. \A m : Outrun(m)' => Outrun(m)
        BY <2>0, <3>1
      <3>3. \A d \in Callers : before'[d] \subseteq pushed
        BY <2>0, <3>1
      <3> QED
        BY <1>9, <2>0, <2>1, <3>1, <3>2, <3>3 DEF StopJ
    <2> QED
      BY <1>9, <2>2, <2>3 DEF StopJ
  <1>10. CASE Kick
    BY <1>10 DEF Kick
  <1>11. CASE TakeRequests
    BY <1>11 DEF TakeRequests
  <1>12. CASE Pop
    BY <1>12 DEF Pop
  <1>13. CASE Displace
    <2>1. core'.playing = core.playing
      BY <1>13 DEF Displace, DisplaceTarget, TypeInv, RtOK, Sound, Shapes
    <2>2. /\ UNCHANGED <<before, at, building, mailbox, stopGen, outrun, stopped, pushed,
                         stopping, superseded>>
          /\ rt \in {"displace", "displaced"} /\ rt' \in {"displaced", "drain"}
          /\ \/ UNCHANGED <<pending, popped>>
             \/ pending' = popped /\ popped' = NoTarget /\ popped # NoTarget
      BY <1>13 DEF Displace, TypeInv, RtOK
    <2> QED
      BY <2>1, <2>2
  <1>14. CASE DrainEmpty
    BY <1>14 DEF DrainEmpty
  <1>15. CASE LoadStopGen
    <2>1. /\ stopGen \in Nat
          /\ \A i \in 1..Len(mailbox) : mailbox[i].stop_gen \in Nat
          /\ pending # NoTarget => pending.stop_gen \in Nat
          /\ popped # NoTarget => popped.stop_gen \in Nat
          /\ \A d \in Callers : at[d] = "pushing" => building[d].stop_gen \in Nat
      BY RealNumbers DEF TypeInv, CallerOK, RtOK
    <2>2. pending # NoTarget /\ pending.id \in stopped => superseded'
      <3>1. pending # NoTarget /\ pending.id \in stopped => ConsumeSuperseded
        BY <2>1 DEF ConsumeSuperseded
      <3> QED
        BY <1>15, <3>1 DEF LoadStopGen
    <2> QED
      BY <1>15, <2>2 DEF LoadStopGen
  <1>16. ASSUME NEW window \in Windows, NEW end \in {"run", "done", "error"},
               NEW splices \in BOOLEAN, RunTick(window, end, splices)
        PROVE  StopInv'
    <2>1. Sound(core) /\ (pending = NoTarget \/ Real(pending)) /\ 0 \notin stopped
      BY Sizes DEF TypeInv, RtOK, CallerOK, Ids
    <2>2. \/ Keeps(core, core') /\ (stopping => core'.playing = 0)
          \/ pending # NoTarget /\ ~superseded /\ core'.playing = pending.id
      BY <1>16, <2>1, TickPlays
    <2>3. core'.playing \notin stopped
      BY <1>16, <2>1, <2>2 DEF RunTick, Keeps
    <2> QED
      BY <1>16, <2>3 DEF RunTick
  <1>17. CASE RetireBuffers
    BY <1>17 DEF RetireBuffers
  <1>18. CASE PublishActive
    BY <1>18 DEF PublishActive
  <1>19. CASE DrainTickEvents
    <2>1. core'.playing = core.playing
      BY <1>19 DEF DrainTickEvents, TypeInv, RtOK, Sound, Shapes
    <2> QED
      BY <1>19, <2>1 DEF DrainTickEvents
  <1>20. CASE MotionStatus
    BY <1>20 DEF MotionStatus
  <1>21. CASE RequestRecover
    BY <1>21 DEF RequestRecover
  <1>22. CASE Reconnect
    <2>1. /\ stopGen \in Nat
          /\ \A i \in 1..Len(mailbox) : mailbox[i].stop_gen \in Nat
          /\ pending # NoTarget => pending.stop_gen \in Nat
          /\ popped # NoTarget => popped.stop_gen \in Nat
          /\ \A d \in Callers : at[d] = "pushing" => building[d].stop_gen \in Nat
      BY RealNumbers DEF TypeInv, CallerOK, RtOK
    <2>2. CASE reconnect = "idle"
      BY <1>22, <2>1, <2>2 DEF Reconnect
    <2>3. CASE reconnect = "asked"
      BY <1>22, <2>3 DEF Reconnect
    <2> QED
      BY <1>22, <2>2, <2>3 DEF Reconnect
  <1>23. CASE CoreStop
    BY <1>23 DEF CoreStop
  <1>24. CASE CoreStart
    <2>1. UNCHANGED rt \/ (rt = "exited" /\ rt' = "top")
      BY <1>24 DEF CoreStart, TypeInv, RtOK
    <2> QED
      BY <1>24, <2>1 DEF CoreStart
  <1> QED
    BY <1>1, <1>2, <1>3, <1>4, <1>5, <1>6, <1>7, <1>8, <1>9, <1>10, <1>11, <1>12, <1>13,
       <1>14, <1>15, <1>16, <1>17, <1>18, <1>19, <1>20, <1>21, <1>22, <1>23, <1>24 DEF Next,
       Window, Calls, Restart

\* stop_j wins over every motion submitted before it, whatever the interleaving of its
\* two stores with submits, pops and ticks, over any number of stops and restarts:
\* stop_gen_ is moved before the request is stored, and consume_superseded compares.
THEOREM StopAlwaysWins == Spec => []StopWins
  <1>1. Init => TypeInv /\ PipeInv /\ StopInv
    <2> SUFFICES ASSUME Init PROVE PipeInv /\ StopInv
      BY TypeInit
    <2> QED
      BY DEF Init, PipeInv, StopInv, StopWins
  <1>2. TypeInv /\ PipeInv /\ StopInv /\ [Next]_vars => (TypeInv /\ PipeInv /\ StopInv)'
    BY TypeStep, PipeStep, StopStep
  <1>3. StopInv => StopWins
    BY DEF StopInv
  <1> QED
    BY <1>1, <1>2, <1>3, PTL DEF Spec
=============================================================================
