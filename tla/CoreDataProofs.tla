--------------------------- MODULE CoreDataProofs ---------------------------
(***************************************************************************)
(* What the threads of RealtimeCore hand to each other: the knot buffers,  *)
(* from the allocation in submit_* to the reap, and the resolution table   *)
(* that motion_status reads.                                               *)
(***************************************************************************)
EXTENDS RealtimeCoreProofs, FiniteSetTheorems

-----------------------------------------------------------------------------
(* Targets under way.                                                      *)

\* The target this thread holds submit_mu_ for.
Submitting(c) == at[c] \in {"stamping", "pushing"}

\* Being submitted, in the mailbox, or popped over the pending one.
Behind(t) ==
    \/ \E c \in Callers : Submitting(c) /\ t = building[c]
    \/ \E i \in 1..Len(mailbox) : t = mailbox[i]
    \/ popped # NoTarget /\ t = popped

\* And the pending one, unless it has been displaced.
UnderWay(t) == Behind(t) \/ (pending # NoTarget /\ rt # "displaced" /\ t = pending)

LEMMA WayIsReal ==
    ASSUME TypeInv, NEW t, UnderWay(t)
    PROVE  Real(t)
  BY DEF TypeInv, CallerOK, RtOK, UnderWay, Behind, Submitting

\* What is behind the pending target has a higher id.
LEMMA BehindPending ==
    ASSUME TypeInv, PipeInv, pending # NoTarget, NEW t, Behind(t)
    PROVE  pending.id < t.id
  BY DEF PipeInv, Behind, Submitting

\* What is being submitted has the highest.
LEMMA BuildingIsLast ==
    ASSUME TypeInv, PipeInv, NEW c \in Callers, Submitting(c), NEW t, UnderWay(t)
    PROVE  t = building[c] \/ t.id < building[c].id
  BY DEF PipeInv, UnderWay, Behind, Submitting

-----------------------------------------------------------------------------
(* The steps that move targets and buffers, and those that do not.         *)

Calm ==
    /\ UNCHANGED <<building, submitMu, mailbox, live, retireRing, pending, popped, activeOwner>>
    /\ \A c \in Callers : Submitting(c)' <=> Submitting(c)
    /\ rt' = "displaced" <=> rt = "displaced"

LEMMA DataSteps ==
    ASSUME TypeInv, [Next]_vars
    PROVE  \/ Calm
           \/ \E c \in Callers : \/ \E kind \in TargetKinds : Submit(c, kind)
                                 \/ StampStopGen(c) \/ Push(c)
           \/ Kick \/ Pop \/ Displace \/ RetireBuffers \/ CoreStop
  <1> DEFINE Goal ==
           \/ Calm
           \/ \E c \in Callers : \/ \E kind \in TargetKinds : Submit(c, kind)
                                 \/ StampStopGen(c) \/ Push(c)
           \/ Kick \/ Pop \/ Displace \/ RetireBuffers \/ CoreStop
  <1> USE EntryKinds DEF callerVars, ringVars, rtVars, pubVars, opVars, lifeVars, Calm,
     Submitting
  <1>1. CASE UNCHANGED vars
    BY <1>1 DEF vars
  <1>2. ASSUME NEW c \in Callers, MoveJ(c) PROVE Goal
    BY <1>2 DEF MoveJ, Enter
  <1>3. ASSUME NEW c \in Callers, MoveTrajectory(c) PROVE Goal
    <2>1. \E from, to \in {"idle", "planned", "kTrajectory"} : Enter(c, from, to)
      BY <1>3 DEF MoveTrajectory, CaptureGate
    <2> QED
      BY <2>1 DEF Enter, TypeInv, CallerOK
  <1>4. ASSUME NEW c \in Callers, ServoJ(c) PROVE Goal
    BY <1>4 DEF ServoJ, Enter
  <1>5. ASSUME NEW c \in Callers, CallCore(c) PROVE Goal
    BY <1>5 DEF CallCore, Enter
  <1>6. ASSUME NEW c \in Callers, NEW kind \in TargetKinds, Submit(c, kind)
        PROVE  Goal
    BY <1>6
  <1>7. ASSUME NEW c \in Callers, StampStopGen(c) PROVE Goal
    BY <1>7
  <1>8. ASSUME NEW c \in Callers, Push(c) PROVE Goal
    BY <1>8
  <1>9. ASSUME NEW c \in Callers, StopJ(c) PROVE Goal
    <2>1. at \in [Callers -> {"idle", "planned", "stamping", "pushing", "stopping"}
                             \cup TargetKinds]
      BY DEF TypeInv, CallerOK
    <2>2. \E to \in {"idle", "stopping"} : at' = [at EXCEPT ![c] = to]
      BY <1>9 DEF StopJ
    <2> QED
      BY <1>9, <2>1, <2>2 DEF StopJ
  <1>10. CASE Kick
    BY <1>10
  <1>11. CASE TakeRequests
    BY <1>11 DEF TakeRequests
  <1>12. CASE Pop
    BY <1>12
  <1>13. CASE Displace
    BY <1>13
  <1>14. CASE DrainEmpty
    BY <1>14 DEF DrainEmpty
  <1>15. CASE LoadStopGen
    BY <1>15 DEF LoadStopGen
  <1>16. ASSUME NEW window \in Windows, NEW end \in {"run", "done", "error"},
               NEW splices \in BOOLEAN, RunTick(window, end, splices)
        PROVE  Goal
    BY <1>16 DEF RunTick
  <1>17. CASE RetireBuffers
    BY <1>17
  <1>18. CASE PublishActive
    BY <1>18 DEF PublishActive
  <1>19. CASE DrainTickEvents
    BY <1>19 DEF DrainTickEvents
  <1>20. CASE MotionStatus
    BY <1>20 DEF MotionStatus
  <1>21. CASE RequestRecover
    BY <1>21 DEF RequestRecover
  <1>22. CASE Reconnect
    BY <1>22 DEF Reconnect
  <1>23. CASE CoreStop
    BY <1>23
  <1>24. CASE CoreStart
    <2>1. UNCHANGED rt \/ (rt = "exited" /\ rt' = "top")
      BY <1>24 DEF CoreStart, TypeInv, RtOK
    <2> QED
      BY <1>24, <2>1 DEF CoreStart
  <1> QED
    BY <1>1, <1>2, <1>3, <1>4, <1>5, <1>6, <1>7, <1>8, <1>9, <1>10, <1>11, <1>12, <1>13,
       <1>14, <1>15, <1>16, <1>17, <1>18, <1>19, <1>20, <1>21, <1>22, <1>23, <1>24 DEF Next,
       Window, Calls, Restart

\* What the callers' own steps do to the target that is being submitted.
LEMMA SubmitMoves ==
    ASSUME TypeInv, PipeInv, NEW c \in Callers, NEW kind \in TargetKinds, Submit(c, kind)
    PROVE  /\ building'[c].id = nextId /\ building'[c].kind = kind
           /\ Submitting(c)' /\ \A d \in Callers : ~Submitting(d)
           /\ \A d \in Callers : d # c => ~Submitting(d)'
           /\ \/ kind # "kTrajectory" /\ building'[c].addr = NoAddr /\ live' = Reaped(live)
              \/ /\ kind = "kTrajectory" /\ building'[c].addr \in Addrs
                 /\ Reaped(live)[building'[c].addr] = 0
                 /\ live' = [x \in Addrs |-> IF x = building'[c].addr THEN nextId
                                                                      ELSE Reaped(live)[x]]
  <1>1. /\ building \in [Callers -> Target]
        /\ at \in [Callers -> {"idle", "planned", "stamping", "pushing", "stopping"}
                              \cup TargetKinds]
    BY DEF TypeInv, CallerOK
  <1>2. PICK a \in IF kind = "kTrajectory" THEN {x \in Addrs : Reaped(live)[x] = 0}
                                           ELSE {NoAddr} :
          /\ building' = [building EXCEPT ![c] =
                            [id |-> nextId, kind |-> kind, epoch |-> publishedEpoch,
                             stop_gen |-> 0, addr |-> a]]
          /\ live' = [x \in Addrs |-> IF x = a THEN nextId ELSE Reaped(live)[x]]
    BY DEF Submit
  <1>3. /\ building'[c].id = nextId /\ building'[c].kind = kind /\ building'[c].addr = a
    BY <1>1, <1>2
  <1>4. \A d \in Callers : ~Submitting(d)
    BY DEF Submit, PipeInv, Submitting
  <1>5. at' = [at EXCEPT ![c] = "stamping"]
    BY DEF Submit
  <1>6. Submitting(c)' /\ \A d \in Callers : d # c => ~Submitting(d)'
    BY <1>1, <1>4, <1>5 DEF Submitting
  <1>7. a = NoAddr => live' = Reaped(live)
    BY <1>2, SizeAssumption DEF Reaped
  <1> QED
    BY <1>2, <1>3, <1>4, <1>6, <1>7

LEMMA StampMoves ==
    ASSUME TypeInv, NEW c \in Callers, StampStopGen(c)
    PROVE  /\ building'[c].id = building[c].id /\ building'[c].addr = building[c].addr
           /\ \A d \in Callers : d # c => building'[d] = building[d]
           /\ \A d \in Callers : Submitting(d)' <=> Submitting(d)
           /\ Submitting(c)
  <1>1. /\ building \in [Callers -> Target]
        /\ at \in [Callers -> {"idle", "planned", "stamping", "pushing", "stopping"}
                              \cup TargetKinds]
    BY DEF TypeInv, CallerOK
  <1>2. /\ building'[c].id = building[c].id /\ building'[c].addr = building[c].addr
        /\ \A d \in Callers : d # c => building'[d] = building[d] /\ at'[d] = at[d]
    BY <1>1 DEF StampStopGen, Target
  <1>3. at[c] = "stamping" /\ at'[c] = "pushing"
    BY <1>1 DEF StampStopGen
  <1> QED
    BY <1>2, <1>3 DEF Submitting

LEMMA PushMoves ==
    ASSUME TypeInv, PipeInv, NEW c \in Callers, Push(c)
    PROVE  /\ Submitting(c) /\ submitMu = {c}
           /\ \A d \in Callers : d # c => ~Submitting(d)
           /\ \A d \in Callers : ~Submitting(d)'
           /\ Len(mailbox) \in Nat
           /\ \/ /\ Len(mailbox') = Len(mailbox) + 1 /\ UNCHANGED live
                 /\ \A i \in 1..Len(mailbox) : mailbox'[i] = mailbox[i]
                 /\ mailbox'[Len(mailbox) + 1] = building[c]
              \/ UNCHANGED mailbox /\ live' = BuffersAfterDrop(building[c])
  <1>1. /\ building \in [Callers -> Target] /\ mailbox \in Seq(Target)
        /\ at \in [Callers -> {"idle", "planned", "stamping", "pushing", "stopping"}
                              \cup TargetKinds]
    BY DEF TypeInv, CallerOK
  <1>2. Submitting(c) /\ submitMu = {c} /\ \A d \in Callers : d # c => ~Submitting(d)
    BY DEF Push, Submitting, PipeInv
  <1>3. \A d \in Callers : ~Submitting(d)'
    BY <1>1, <1>2 DEF Push, Submitting
  <1>4. CASE mailbox' = Append(mailbox, building[c]) /\ UNCHANGED live
    BY <1>1, <1>2, <1>3, <1>4, AppendProperties
  <1>5. CASE UNCHANGED mailbox /\ live' = BuffersAfterDrop(building[c])
    BY <1>1, <1>2, <1>3, <1>5
  <1> QED
    BY <1>4, <1>5 DEF Push

LEMMA PopMoves ==
    ASSUME TypeInv, Pop
    PROVE  /\ Len(mailbox) \in Nat \ {0} /\ Len(mailbox') = Len(mailbox) - 1
           /\ \A i \in 1..Len(mailbox') : i + 1 \in 1..Len(mailbox) /\ mailbox'[i] = mailbox[i + 1]
           /\ Real(mailbox[1]) /\ popped = NoTarget
           /\ \/ /\ pending = NoTarget /\ pending' = mailbox[1]
                 /\ UNCHANGED <<rt, popped>> /\ rt = "drain"
              \/ /\ pending # NoTarget /\ popped' = mailbox[1]
                 /\ UNCHANGED pending /\ rt = "drain" /\ rt' = "displace"
  <1>1. /\ Len(mailbox) \in Nat \ {0} /\ Len(mailbox') = Len(mailbox) - 1
        /\ Head(mailbox) = mailbox[1]
        /\ \A i \in 1..Len(mailbox') : mailbox'[i] = mailbox[i + 1]
    BY HeadTailProperties, EmptySeq DEF Pop, TypeInv, CallerOK
  <1>2. 1 \in 1..Len(mailbox) /\ \A i \in 1..Len(mailbox') : i + 1 \in 1..Len(mailbox)
    BY <1>1
  <1>3. Real(mailbox[1]) /\ popped = NoTarget
    BY <1>2 DEF Pop, TypeInv, CallerOK, RtOK
  <1> QED
    BY <1>1, <1>2, <1>3 DEF Pop

LEMMA DisplaceMoves ==
    ASSUME TypeInv, Displace
    PROVE  /\ Real(pending) /\ Real(popped) /\ pending # NoTarget /\ popped # NoTarget
           /\ \/ /\ rt = "displace" /\ rt' = "displaced" /\ UNCHANGED <<pending, popped>>
                 /\ retireRing' = Retired(pending.addr)
              \/ /\ rt = "displaced" /\ rt' = "drain" /\ UNCHANGED retireRing
                 /\ pending' = popped /\ popped' = NoTarget
  <1>1. Real(pending) /\ Real(popped)
    BY DEF Displace, TypeInv, RtOK
  <1> QED
    BY <1>1, RealTarget DEF Displace, DisplaceTarget

\* How a target comes to be under way: it was, or it is being submitted; its stamp
\* changes neither its id nor its buffer.  None goes back behind the pending one.
LEMMA WayStep ==
    ASSUME TypeInv, PipeInv, [Next]_vars, NEW t, UnderWay(t)'
    PROVE  \/ UnderWay(t) /\ (Behind(t)' => Behind(t))
           \/ \E c \in Callers, kind \in TargetKinds : Submit(c, kind) /\ t = building'[c]
           \/ \E c \in Callers : /\ StampStopGen(c) /\ Behind(building[c])
                                 /\ t.id = building[c].id /\ t.addr = building[c].addr
  <1> DEFINE Stays == UnderWay(t) /\ (Behind(t)' => Behind(t))
  <1> USE DEF UnderWay, Behind, callerVars, ringVars, rtVars
  <1>1. CASE Calm
    BY <1>1 DEF Calm
  <1>2. ASSUME NEW c \in Callers, NEW kind \in TargetKinds, Submit(c, kind), t # building'[c]
        PROVE  Stays
    BY <1>2, SubmitMoves DEF Submit
  <1>3. ASSUME NEW c \in Callers, StampStopGen(c)
        PROVE  \/ Stays
               \/ Behind(building[c]) /\ t.id = building[c].id /\ t.addr = building[c].addr
    BY <1>3, StampMoves DEF StampStopGen
  <1>4. ASSUME NEW c \in Callers, Push(c) PROVE Stays
    <2>1. \A i \in 1..Len(mailbox') :
              mailbox'[i] = building[c] \/ \E j \in 1..Len(mailbox) : mailbox'[i] = mailbox[j]
      BY <1>4, PushMoves
    <2> QED
      BY <1>4, <2>1, PushMoves, ZenonT(60) DEF Push
  <1>5. CASE Pop
    <2>1. /\ 1 \in 1..Len(mailbox)
          /\ \A i \in 1..Len(mailbox') : \E j \in 1..Len(mailbox) : mailbox'[i] = mailbox[j]
      BY <1>5, PopMoves
    <2> QED
      BY <1>5, <2>1, PopMoves DEF Pop, Submitting
  <1>6. CASE Displace
    BY <1>6, DisplaceMoves DEF Displace, Submitting
  <1>7. CASE Kick \/ RetireBuffers
    BY <1>7 DEF Kick, RetireBuffers, Submitting
  <1>8. CASE CoreStop
    BY <1>8 DEF CoreStop, Submitting
  <1> QED
    BY DataSteps, <1>1, <1>2, <1>3, <1>4, <1>5, <1>6, <1>7, <1>8

-----------------------------------------------------------------------------
(* The retire ring has room, and no buffer is lost.                        *)

\* What is on the retire ring or may come to be on it before the next submit reaps it: at
\* most one buffer for each target in the mailbox, popped, pending or being submitted.
One(b) == IF b THEN 1 ELSE 0

Load == Len(retireRing) + Len(mailbox) + One(popped # NoTarget)
        + One(pending # NoTarget /\ rt # "displaced") + One(submitMu # {})

RoomInv == Load <= MailboxCap + 3

LEMMA Lengths ==
    ASSUME TypeInv
    PROVE  Len(retireRing) \in Nat /\ Len(mailbox) \in Nat /\ Len(mailbox) <= MailboxCap
  BY DEF TypeInv, CallerOK, RtOK

\* retire_ring_.push adds at most one entry.
LEMMA RetiredLength ==
    ASSUME TypeInv, NEW a \in Addrs \cup {NoAddr}
    PROVE  /\ Retired(a) = retireRing
              \/ (Retired(a) = Append(retireRing, a) /\ a \in Addrs)
           /\ Len(Retired(a)) \in {Len(retireRing), Len(retireRing) + 1}
  <1>1. a # NoAddr => a \in Addrs /\ Len(Append(retireRing, a)) = Len(retireRing) + 1
    BY AppendProperties DEF TypeInv, RtOK
  <1> QED
    BY <1>1 DEF Retired

\* The address a tick retires, if the target it consumed was accepted or refused.
LEMMA RetireMoves ==
    ASSUME TypeInv, RetireBuffers
    PROVE  /\ ToRetire \in Addrs \cup {NoAddr} /\ popped = NoTarget
           /\ pending' = NoTarget /\ UNCHANGED popped /\ rt = "retire" /\ rt' = "publish"
           /\ \/ pending = NoTarget /\ UNCHANGED <<retireRing, activeOwner>>
              \/ /\ Real(pending) /\ pending # NoTarget /\ retireRing' = Retired(ToRetire)
                 /\ activeOwner' = IF accepted THEN pending.addr ELSE activeOwner
  <1>1. /\ popped = NoTarget /\ (pending = NoTarget \/ Real(pending))
        /\ activeOwner \in Addrs \cup {NoAddr} /\ pending.addr \in Addrs \cup {NoAddr}
    BY RealTarget DEF RetireBuffers, TypeInv, RtOK, NoTarget
  <1> QED
    BY <1>1 DEF RetireBuffers, ToRetire

LEMMA RoomStep ==
    ASSUME TypeInv, PipeInv, RoomInv, [Next]_vars
    PROVE  RoomInv'
  <1> USE Lengths, Sizes DEF RoomInv, Load, One, callerVars, ringVars, rtVars
  <1>0. TypeInv'
    BY TypeStep
  <1>1. CASE Calm
    BY <1>1 DEF Calm
  <1>2. ASSUME NEW c \in Callers, NEW kind \in TargetKinds, Submit(c, kind)
        PROVE  RoomInv'
    <2>1. UNCHANGED <<mailbox, pending, popped, rt>>
      BY <1>2 DEF Submit
    <2>2. Len(retireRing') = 0
      BY <1>2 DEF Submit
    <2>3. Len(mailbox') \in Nat /\ Len(mailbox') <= MailboxCap
      BY <2>1
    <2> DEFINE p == One(popped # NoTarget)'
               q == One(pending # NoTarget /\ rt # "displaced")'
               r == One(submitMu # {})'
    <2>4. p \in {0, 1} /\ q \in {0, 1} /\ r \in {0, 1}
      OBVIOUS
    <2>5. Load' = Len(retireRing') + Len(mailbox') + p + q + r
      OBVIOUS
    <2> HIDE DEF p, q, r, Load
    <2> QED
      BY <2>2, <2>3, <2>4, <2>5
  <1>3. ASSUME NEW c \in Callers, StampStopGen(c) PROVE RoomInv'
    BY <1>3 DEF StampStopGen
  <1>4. ASSUME NEW c \in Callers, Push(c) PROVE RoomInv'
    <2>1. Len(mailbox') \in {Len(mailbox), Len(mailbox) + 1} /\ submitMu = {c}
      BY <1>4, PushMoves
    <2>2. UNCHANGED <<retireRing, rt, pending, popped>> /\ submitMu' = {}
      BY <1>4 DEF Push
    <2> QED
      BY <2>1, <2>2
  <1>5. CASE Pop
    <2>1. UNCHANGED <<retireRing, submitMu>>
      BY <1>5 DEF Pop
    <2> QED
      BY <1>5, <2>1, PopMoves
  <1>6. CASE Displace
    <2>1. UNCHANGED <<mailbox, submitMu>>
      BY <1>6 DEF Displace
    <2>2. Real(pending) => Len(Retired(pending.addr)) <= Len(retireRing) + 1
      BY RetiredLength, RealTarget
    <2> QED
      BY <1>6, <2>1, <2>2, DisplaceMoves
  <1>7. CASE Kick
    <2>1. UNCHANGED <<mailbox, pending, popped, rt>>
      BY <1>7 DEF Kick
    <2>2. Len(retireRing') = 0
      BY <1>7 DEF Kick
    <2>3. Len(mailbox') \in Nat /\ Len(mailbox') <= MailboxCap
      BY <2>1
    <2> DEFINE p == One(popped # NoTarget)'
               q == One(pending # NoTarget /\ rt # "displaced")'
               r == One(submitMu # {})'
    <2>4. p \in {0, 1} /\ q \in {0, 1} /\ r \in {0, 1}
      OBVIOUS
    <2>5. Load' = Len(retireRing') + Len(mailbox') + p + q + r
      OBVIOUS
    <2> HIDE DEF p, q, r, Load
    <2> QED
      BY <2>2, <2>3, <2>4, <2>5
  <1>8. CASE RetireBuffers
    <2>1. UNCHANGED <<mailbox, submitMu>>
      BY <1>8 DEF RetireBuffers
    <2>2. Len(Retired(ToRetire)) <= Len(retireRing) + 1
      BY <1>8, RetireMoves, RetiredLength
    <2> QED
      BY <1>8, <2>1, <2>2, RetireMoves
  <1>9. CASE CoreStop
    <2>1. /\ UNCHANGED <<mailbox, submitMu, pending, popped>>
          /\ retireRing' = <<>> \/ UNCHANGED retireRing
          /\ UNCHANGED rt \/ (rt = "top" /\ rt' = "exited")
      BY <1>9 DEF CoreStop
    <2> QED
      BY <2>1, EmptySeq
  <1> QED
    BY DataSteps, <1>1, <1>2, <1>3, <1>4, <1>5, <1>6, <1>7, <1>8, <1>9

\* So a buffer that is retired is on the ring, whatever the callers do.
LEMMA RoomToRetire ==
    ASSUME TypeInv, RoomInv, pending # NoTarget, rt # "displaced", NEW a \in Addrs
    PROVE  Retired(a) = Append(retireRing, a)
  BY Lengths, Sizes, RoomAssumption, SizeAssumption DEF RoomInv, Load, One, Retired

OnRing(a) == \E i \in 1..Len(retireRing) : retireRing[i] = a

LEMMA RetiredIsOnRing ==
    ASSUME TypeInv, RoomInv, pending # NoTarget, rt # "displaced",
           NEW a \in Addrs \cup {NoAddr}, retireRing' = Retired(a)
    PROVE  \A x \in Addrs : OnRing(x)' <=> (OnRing(x) \/ x = a)
  <1>1. CASE a = NoAddr
    BY <1>1, SizeAssumption DEF Retired, OnRing
  <1>2. CASE a \in Addrs
    <2>1. retireRing' = Append(retireRing, a)
      BY <1>2, RoomToRetire
    <2>2. /\ Len(retireRing') = Len(retireRing) + 1 /\ Len(retireRing) \in Nat
          /\ \A i \in 1..Len(retireRing) : retireRing'[i] = retireRing[i]
          /\ retireRing'[Len(retireRing) + 1] = a
      BY <1>2, <2>1, AppendProperties DEF TypeInv, RtOK
    <2> QED
      BY <2>2 DEF OnRing
  <1> QED
    BY <1>1, <1>2

LEMMA ReapedIsFree ==
    ASSUME NEW a \in Addrs
    PROVE  Reaped(live)[a] = IF OnRing(a) THEN 0 ELSE live[a]
  BY DEF Reaped, OnRing

\* Every buffer that is allocated has an owner.
Owned(a) == (\E t : UnderWay(t) /\ t.addr = a) \/ activeOwner = a \/ OnRing(a)

ReclaimInv == \A a \in Addrs : live[a] # 0 => Owned(a)

LEMMA ReclaimStep ==
    ASSUME TypeInv, PipeInv, RoomInv, ReclaimInv, [Next]_vars
    PROVE  ReclaimInv'
  <1> SUFFICES ASSUME NEW a \in Addrs, live'[a] # 0
               PROVE  Owned(a)'
    BY DEF ReclaimInv
  <1>0. live \in [Addrs -> 0..MaxMotions]
    BY DEF TypeInv, CallerOK
  <1> USE DEF callerVars, ringVars, rtVars
  <1>1. CASE Calm
    <2>1. Owned(a)
      BY <1>1 DEF Calm, ReclaimInv
    <2>2. \A t : UnderWay(t) => UnderWay(t)'
      BY <1>1 DEF Calm, UnderWay, Behind
    <2> QED
      BY <1>1, <2>1, <2>2 DEF Calm, Owned, OnRing
  <1>2. ASSUME NEW c \in Callers, NEW kind \in TargetKinds, Submit(c, kind)
        PROVE  Owned(a)'
    <2>1. CASE a = building'[c].addr
      <3>1. UnderWay(building[c])'
        BY <1>2, SubmitMoves DEF UnderWay, Behind
      <3> QED
        BY <2>1, <3>1 DEF Owned
    <2>2. CASE a # building'[c].addr
      <3>1. live'[a] = Reaped(live)[a]
        BY <1>2, <2>2, SubmitMoves
      <3>2. live[a] # 0 /\ ~OnRing(a)
        BY <3>1, ReapedIsFree
      <3>3. \A t : UnderWay(t) => UnderWay(t)'
        BY <1>2, SubmitMoves DEF Submit, UnderWay, Behind
      <3> QED
        BY <1>2, <3>2, <3>3 DEF Submit, ReclaimInv, Owned
    <2> QED
      BY <2>1, <2>2
  <1>3. ASSUME NEW c \in Callers, StampStopGen(c) PROVE Owned(a)'
    <2>1. Owned(a)
      BY <1>3 DEF StampStopGen, ReclaimInv
    <2>2. ASSUME NEW t, UnderWay(t), t.addr = a
          PROVE  UnderWay(t)' \/ (UnderWay(building[c])' /\ building'[c].addr = a)
      <3>1. CASE t = building[c]
        BY <1>3, <2>2, <3>1, StampMoves DEF UnderWay, Behind
      <3>2. CASE t # building[c]
        BY <1>3, <2>2, <3>2, StampMoves DEF StampStopGen, UnderWay, Behind
      <3> QED
        BY <3>1, <3>2
    <2> QED
      BY <1>3, <2>1, <2>2 DEF StampStopGen, Owned, OnRing
  <1>4. ASSUME NEW c \in Callers, Push(c) PROVE Owned(a)'
    <2>1. live[a] # 0 /\ live'[a] = live[a]
      BY <1>0, <1>4, PushMoves DEF BuffersAfterDrop
    <2>2. ASSUME NEW t, UnderWay(t), t.addr = a
          PROVE  UnderWay(t)'
      <3>1. CASE Len(mailbox') = Len(mailbox) + 1
        <4>1. /\ Len(mailbox) + 1 \in 1..Len(mailbox') /\ mailbox'[Len(mailbox) + 1] = building[c]
              /\ \A i \in 1..Len(mailbox) : i \in 1..Len(mailbox') /\ mailbox'[i] = mailbox[i]
          BY <1>4, <3>1, PushMoves
        <4>2. t = building[c] \/ UNCHANGED <<pending, popped, rt>>
          BY <1>4 DEF Push
        <4> QED
          BY <1>4, <2>2, <4>1, <4>2, PushMoves DEF Push, UnderWay, Behind
      <3>2. CASE UNCHANGED mailbox /\ live' = BuffersAfterDrop(building[c])
        <4>1. t # building[c]
          BY <2>2, <3>2 DEF BuffersAfterDrop
        <4> QED
          BY <1>4, <2>2, <3>2, <4>1, PushMoves DEF Push, UnderWay, Behind
      <3> QED
        BY <1>4, <3>1, <3>2, PushMoves
    <2> QED
      BY <1>4, <2>1, <2>2 DEF Push, ReclaimInv, Owned, OnRing
  <1>5. CASE Pop
    <2>1. \A t : UnderWay(t) => UnderWay(t)'
      <3> SUFFICES ASSUME NEW t, UnderWay(t) PROVE UnderWay(t)'
        OBVIOUS
      <3>1. ASSUME NEW i \in 1..Len(mailbox), t = mailbox[i]
            PROVE  t = mailbox[1] \/ \E j \in 1..Len(mailbox') : t = mailbox'[j]
        <4>1. CASE i = 1
          BY <3>1, <4>1
        <4>2. CASE i # 1
          <5>1. i - 1 \in 1..Len(mailbox') /\ mailbox'[i - 1] = mailbox[(i - 1) + 1]
                /\ (i - 1) + 1 = i
            BY <1>5, <3>1, <4>2, PopMoves
          <5> QED
            BY <3>1, <5>1
        <4> QED
          BY <4>1, <4>2
      <3> QED
        BY <1>5, <3>1, PopMoves, RealTarget DEF Pop, UnderWay, Behind, Submitting
    <2> QED
      BY <1>5, <2>1 DEF Pop, ReclaimInv, Owned, OnRing
  <1>6. CASE Displace
    <2>1. UNCHANGED <<live, mailbox, at, building, activeOwner>> /\ live[a] # 0
      BY <1>6 DEF Displace
    <2>2. \A t : UnderWay(t) => UnderWay(t)' \/ (rt = "displace" /\ t = pending)
      BY <1>6, <2>1, DisplaceMoves DEF UnderWay, Behind, Submitting
    <2>3. \A x \in Addrs : OnRing(x) => OnRing(x)'
      BY <1>6, DisplaceMoves, RetiredIsOnRing, RealTarget DEF OnRing
    <2>4. rt = "displace" /\ pending.addr = a => OnRing(a)'
      BY <1>6, DisplaceMoves, RetiredIsOnRing, RealTarget
    <2> QED
      BY <2>1, <2>2, <2>3, <2>4 DEF ReclaimInv, Owned
  <1>7. CASE Kick
    <2>1. live[a] # 0 /\ ~OnRing(a)
      BY <1>7, ReapedIsFree DEF Kick
    <2>2. \A t : UnderWay(t) => UnderWay(t)'
      BY <1>7 DEF Kick, UnderWay, Behind, Submitting
    <2> QED
      BY <1>7, <2>1, <2>2 DEF Kick, ReclaimInv, Owned
  <1>8. CASE RetireBuffers
    <2>1. UNCHANGED <<live, mailbox, at, building>> /\ live[a] # 0
      BY <1>8 DEF RetireBuffers
    <2>2. \A t : UnderWay(t) => UnderWay(t)' \/ (pending # NoTarget /\ t = pending)
      BY <1>8, <2>1, RetireMoves DEF UnderWay, Behind, Submitting
    <2>3. \A x \in Addrs : OnRing(x) => OnRing(x)'
      BY <1>8, RetireMoves, RetiredIsOnRing DEF OnRing
    <2>4. pending # NoTarget => (a = ToRetire => OnRing(a)')
      BY <1>8, RetireMoves, RetiredIsOnRing
    <2>5. pending # NoTarget /\ (pending.addr = a \/ activeOwner = a)
            => activeOwner' = a \/ OnRing(a)'
      BY <1>8, <2>4, RetireMoves DEF ToRetire
    <2>6. pending = NoTarget => UNCHANGED activeOwner
      BY <1>8, RetireMoves
    <2> QED
      BY <2>1, <2>2, <2>3, <2>5, <2>6 DEF ReclaimInv, Owned
  <1>9. CASE CoreStop
    <2>1. /\ UNCHANGED <<live, retireRing, mailbox, at, building, popped, pending, activeOwner>>
          /\ rt' \notin {"displaced"} \/ rt' = rt
      BY <1>9 DEF CoreStop
    <2>2. \A t : UnderWay(t) => UnderWay(t)'
      BY <2>1, <1>9 DEF CoreStop, UnderWay, Behind, Submitting
    <2> QED
      BY <2>1, <2>2 DEF ReclaimInv, Owned, OnRing
  <1> QED
    BY DataSteps, <1>1, <1>2, <1>3, <1>4, <1>5, <1>6, <1>7, <1>8, <1>9

\* All hold at the start.
LEMMA DataInit ==
    ASSUME Init
    PROVE  PipeInv /\ RoomInv /\ ReclaimInv
  <1>1. /\ Len(retireRing) = 0 /\ Len(mailbox) = 0 /\ popped = NoTarget /\ pending = NoTarget
        /\ submitMu = {} /\ live = [a \in Addrs |-> 0]
    BY DEF Init
  <1>2. PipeInv
    BY DEF Init, PipeInv
  <1> QED
    BY <1>1, <1>2, Sizes DEF RoomInv, Load, One, ReclaimInv

\* The buffer of a target that is submitted is never lost (submit_trajectory's
\* live_buffers_, retire_ring_, reap_retired_locked_): the retire ring has room for every
\* buffer that can be retired between two reaps, so each one reaches it.
THEOREM NoBufferIsLost == Spec => []BuffersReclaimable
  <1>1. Init => TypeInv /\ PipeInv /\ RoomInv /\ ReclaimInv
    BY TypeInit, DataInit
  <1>2. TypeInv /\ PipeInv /\ RoomInv /\ ReclaimInv /\ [Next]_vars
           => (TypeInv /\ PipeInv /\ RoomInv /\ ReclaimInv)'
    BY TypeStep, PipeStep, RoomStep, ReclaimStep
  <1>3. ReclaimInv => BuffersReclaimable
    BY DEF ReclaimInv, BuffersReclaimable, Owned, OnRing, UnderWay, Behind
  <1> QED
    BY <1>1, <1>2, <1>3, PTL DEF Spec

-----------------------------------------------------------------------------
(* The knots of a motion.                                                  *)

\* What is being played changes in a tick, and what the tick retires afterwards.
LEMMA PlaySteps ==
    ASSUME TypeInv, [Next]_vars
    PROVE  \/ /\ UNCHANGED <<accepted, activeOwner>>
              /\ rt = "retire" => UNCHANGED <<rt, pending>>
              /\ core'.buf = core.buf /\ core'.playing = core.playing
           \/ \E window \in Windows, end \in {"run", "done", "error"}, splices \in BOOLEAN :
                 RunTick(window, end, splices)
           \/ RetireBuffers
  <1> DEFINE Goal ==
           \/ /\ UNCHANGED <<accepted, activeOwner>>
              /\ rt = "retire" => UNCHANGED <<rt, pending>>
              /\ core'.buf = core.buf /\ core'.playing = core.playing
           \/ \E window \in Windows, end \in {"run", "done", "error"}, splices \in BOOLEAN :
                 RunTick(window, end, splices)
           \/ RetireBuffers
  <1> USE DEF callerVars, ringVars, rtVars, pubVars, opVars, lifeVars
  <1>1. CASE UNCHANGED vars
    BY <1>1 DEF vars
  <1>2. ASSUME NEW c \in Callers, MoveJ(c) PROVE Goal
    BY <1>2 DEF MoveJ, Enter
  <1>3. ASSUME NEW c \in Callers, MoveTrajectory(c) PROVE Goal
    <2>1. \E from, to \in {"idle", "planned", "kTrajectory"} : Enter(c, from, to)
      BY <1>3 DEF MoveTrajectory, CaptureGate
    <2> QED
      BY <2>1 DEF Enter
  <1>4. ASSUME NEW c \in Callers, ServoJ(c) PROVE Goal
    BY <1>4 DEF ServoJ, Enter
  <1>5. ASSUME NEW c \in Callers, CallCore(c) PROVE Goal
    BY <1>5 DEF CallCore, Enter
  <1>6. ASSUME NEW c \in Callers, NEW kind \in TargetKinds, Submit(c, kind)
        PROVE  Goal
    BY <1>6 DEF Submit
  <1>7. ASSUME NEW c \in Callers, StampStopGen(c) PROVE Goal
    BY <1>7 DEF StampStopGen
  <1>8. ASSUME NEW c \in Callers, Push(c) PROVE Goal
    BY <1>8 DEF Push
  <1>9. ASSUME NEW c \in Callers, StopJ(c) PROVE Goal
    BY <1>9 DEF StopJ
  <1>10. CASE Kick
    BY <1>10 DEF Kick
  <1>11. CASE TakeRequests
    <2>1. core'.buf = core.buf /\ core'.playing = core.playing
      BY <1>11 DEF TakeRequests, TypeInv, RtOK, Sound, Shapes
    <2> QED
      BY <1>11, <2>1 DEF TakeRequests
  <1>12. CASE Pop
    BY <1>12 DEF Pop
  <1>13. CASE Displace
    <2>1. core'.buf = core.buf /\ core'.playing = core.playing
      BY <1>13 DEF Displace, DisplaceTarget, TypeInv, RtOK, Sound, Shapes
    <2> QED
      BY <1>13, <2>1 DEF Displace
  <1>14. CASE DrainEmpty
    BY <1>14 DEF DrainEmpty
  <1>15. CASE LoadStopGen
    BY <1>15 DEF LoadStopGen
  <1>16. ASSUME NEW window \in Windows, NEW end \in {"run", "done", "error"},
               NEW splices \in BOOLEAN, RunTick(window, end, splices)
        PROVE  Goal
    BY <1>16
  <1>17. CASE RetireBuffers
    BY <1>17
  <1>18. CASE PublishActive
    BY <1>18 DEF PublishActive
  <1>19. CASE DrainTickEvents
    <2>1. core'.buf = core.buf /\ core'.playing = core.playing
      BY <1>19 DEF DrainTickEvents, TypeInv, RtOK, Sound, Shapes
    <2> QED
      BY <1>19, <2>1 DEF DrainTickEvents
  <1>20. CASE MotionStatus
    BY <1>20 DEF MotionStatus
  <1>21. CASE RequestRecover
    BY <1>21 DEF RequestRecover
  <1>22. CASE Reconnect
    BY <1>22 DEF Reconnect
  <1>23. CASE CoreStop
    BY <1>23 DEF CoreStop
  <1>24. CASE CoreStart
    BY <1>24 DEF CoreStart, TypeInv, RtOK
  <1> QED
    BY <1>1, <1>2, <1>3, <1>4, <1>5, <1>6, <1>7, <1>8, <1>9, <1>10, <1>11, <1>12, <1>13,
       <1>14, <1>15, <1>16, <1>17, <1>18, <1>19, <1>20, <1>21, <1>22, <1>23, <1>24 DEF Next,
       Window, Calls, Restart

\* A core that no reconnect() has stopped.
LEMMA FirstRun ==
    ASSUME TypeInv, [Next]_vars, reconnects = 0 => reconnect = "idle"
    PROVE  /\ reconnects' = 0 => reconnects = 0
           /\ (reconnects = 0 => reconnect = "idle")'
  <1> DEFINE Goal == /\ reconnects' = 0 => reconnects = 0
                     /\ (reconnects = 0 => reconnect = "idle")'
  <1> USE DEF callerVars, ringVars, rtVars, pubVars, opVars, lifeVars
  <1>1. CASE UNCHANGED vars
    BY <1>1 DEF vars
  <1>2. ASSUME NEW c \in Callers, MoveJ(c) PROVE Goal
    BY <1>2 DEF MoveJ, Enter
  <1>3. ASSUME NEW c \in Callers, MoveTrajectory(c) PROVE Goal
    <2>1. \E from, to \in {"idle", "planned", "kTrajectory"} : Enter(c, from, to)
      BY <1>3 DEF MoveTrajectory, CaptureGate
    <2> QED
      BY <2>1 DEF Enter
  <1>4. ASSUME NEW c \in Callers, ServoJ(c) PROVE Goal
    BY <1>4 DEF ServoJ, Enter
  <1>5. ASSUME NEW c \in Callers, CallCore(c) PROVE Goal
    BY <1>5 DEF CallCore, Enter
  <1>6. ASSUME NEW c \in Callers, NEW kind \in TargetKinds, Submit(c, kind)
        PROVE  Goal
    BY <1>6 DEF Submit
  <1>7. ASSUME NEW c \in Callers, StampStopGen(c) PROVE Goal
    BY <1>7 DEF StampStopGen
  <1>8. ASSUME NEW c \in Callers, Push(c) PROVE Goal
    BY <1>8 DEF Push
  <1>9. ASSUME NEW c \in Callers, StopJ(c) PROVE Goal
    BY <1>9 DEF StopJ
  <1>10. CASE Kick
    BY <1>10 DEF Kick
  <1>11. CASE TakeRequests
    BY <1>11 DEF TakeRequests
  <1>12. CASE Pop
    BY <1>12 DEF Pop
  <1>13. CASE Displace
    BY <1>13 DEF Displace
  <1>14. CASE DrainEmpty
    BY <1>14 DEF DrainEmpty
  <1>15. CASE LoadStopGen
    BY <1>15 DEF LoadStopGen
  <1>16. ASSUME NEW window \in Windows, NEW end \in {"run", "done", "error"},
               NEW splices \in BOOLEAN, RunTick(window, end, splices)
        PROVE  Goal
    BY <1>16 DEF RunTick
  <1>17. CASE RetireBuffers
    BY <1>17 DEF RetireBuffers
  <1>18. CASE PublishActive
    BY <1>18 DEF PublishActive
  <1>19. CASE DrainTickEvents
    BY <1>19 DEF DrainTickEvents
  <1>20. CASE MotionStatus
    BY <1>20 DEF MotionStatus
  <1>21. CASE RequestRecover
    BY <1>21 DEF RequestRecover
  <1>22. CASE Reconnect
    BY <1>22 DEF Reconnect, TypeInv, CallerOK
  <1>23. CASE CoreStop
    BY <1>23 DEF CoreStop
  <1>24. CASE CoreStart
    BY <1>24 DEF CoreStart
  <1> QED
    BY <1>1, <1>2, <1>3, <1>4, <1>5, <1>6, <1>7, <1>8, <1>9, <1>10, <1>11, <1>12, <1>13,
       <1>14, <1>15, <1>16, <1>17, <1>18, <1>19, <1>20, <1>21, <1>22, <1>23, <1>24 DEF Next,
       Window, Calls, Restart

\* Ids tell targets under way apart.
LEMMA WayIsInjective ==
    ASSUME TypeInv, PipeInv, NEW t, UnderWay(t), NEW u, UnderWay(u), t.id = u.id
    PROVE  t = u
  <1>1. t.id \in Nat /\ Real(t) /\ Real(u)
    BY WayIsReal, RealNumbers
  <1> DEFINE Built(x) == \E c \in Callers : Submitting(c) /\ x = building[c]
  <1>2. ASSUME NEW c \in Callers, Submitting(c), t = building[c]
        PROVE  t = u
    BY <1>1, <1>2, BuildingIsLast
  <1>3. ASSUME NEW c \in Callers, Submitting(c), u = building[c]
        PROVE  t = u
    BY <1>1, <1>3, BuildingIsLast
  <1>4. CASE ~Built(t) /\ ~Built(u)
    <2>1. ASSUME NEW i \in 1..Len(mailbox), NEW j \in 1..Len(mailbox), t = mailbox[i], u = mailbox[j]
          PROVE  t = u
      <3>1. i < j \/ j < i \/ i = j
        BY Lengths
      <3> QED
        BY <1>1, <2>1, <3>1 DEF PipeInv
    <2>2. t # u => (t = popped \/ t = pending \/ u = popped \/ u = pending)
      BY <1>4, <2>1 DEF UnderWay, Behind
    <2> QED
      BY <1>1, <1>4, <2>2 DEF UnderWay, Behind, PipeInv
  <1> QED
    BY <1>2, <1>3, <1>4

\* A target under way has its own buffer, and the ring does not.
HasKnots(t) == t.addr # NoAddr => live[t.addr] = t.id /\ ~OnRing(t.addr)

\* The buffer of the motion last accepted is nobody else's.
OwnerKept ==
    activeOwner # NoAddr => /\ live[activeOwner] # 0 /\ ~OnRing(activeOwner)
                            /\ \A t : UnderWay(t) => t.addr # activeOwner

\* What is played reads the owner's buffer, or that of the target the tick has accepted.
PlaysOwned ==
    /\ accepted => rt = "retire" /\ pending # NoTarget
    /\ \/ core.buf = NoAddr
       \/ accepted /\ core.buf = pending.addr
       \/ ~accepted /\ core.buf = activeOwner
    /\ core.buf # NoAddr => live[core.buf] = core.playing

KnotInv ==
    /\ reconnects = 0 => reconnect = "idle"
    /\ reconnects = 0 => (\A t : UnderWay(t) => HasKnots(t)) /\ OwnerKept /\ PlaysOwned

\* Two targets under way never share a buffer.
LEMMA OwnBuffer ==
    ASSUME TypeInv, PipeInv, \A t : UnderWay(t) => HasKnots(t),
           NEW t, UnderWay(t), NEW u, UnderWay(u), t.addr = u.addr, t.addr # NoAddr
    PROVE  t = u
  BY WayIsInjective DEF HasKnots

\* A buffer is freed or retired when the one target that has it leaves, and when the
\* motion that had it is replaced.
LEMMA KeptBuffer ==
    ASSUME TypeInv, PipeInv, RoomInv, [Next]_vars, reconnect = "idle",
           NEW a \in Addrs, live[a] # 0, ~OnRing(a)
    PROVE  \/ live'[a] = live[a] /\ ~OnRing(a)'
           \/ \E u : UnderWay(u) /\ u.addr = a /\ ~UnderWay(u)'
           \/ RetireBuffers /\ accepted /\ pending # NoTarget /\ a = activeOwner
  <1> USE DEF callerVars, ringVars, rtVars
  <1>1. CASE Calm
    BY <1>1 DEF Calm, OnRing
  <1>2. ASSUME NEW c \in Callers, NEW kind \in TargetKinds, Submit(c, kind)
        PROVE  live'[a] = live[a] /\ ~OnRing(a)'
    <2>1. Reaped(live)[a] = live[a]
      BY ReapedIsFree
    <2>2. live'[a] = Reaped(live)[a]
      BY <1>2, <2>1, SubmitMoves
    <2> QED
      BY <1>2, <2>1, <2>2 DEF Submit, OnRing
  <1>3. ASSUME NEW c \in Callers, StampStopGen(c)
        PROVE  live'[a] = live[a] /\ ~OnRing(a)'
    BY <1>3 DEF StampStopGen, OnRing
  <1>4. ASSUME NEW c \in Callers, Push(c)
        PROVE  \/ live'[a] = live[a] /\ ~OnRing(a)'
               \/ \E u : UnderWay(u) /\ u.addr = a /\ ~UnderWay(u)'
    <2>1. ~OnRing(a)'
      BY <1>4 DEF Push, OnRing
    <2>2. CASE UNCHANGED mailbox /\ live' = BuffersAfterDrop(building[c]) /\ building[c].addr = a
      <3>0. PICK u : u = building[c]
        OBVIOUS
      <3>1. UnderWay(u) /\ u.addr = a
        BY <1>4, <2>2, <3>0, PushMoves DEF UnderWay, Behind
      <3>2. /\ \A i \in 1..Len(mailbox) : u # mailbox[i]
            /\ pending # NoTarget => u # pending
            /\ popped # NoTarget => u # popped
        <4>1. u.id \in Nat /\ \A m \in pushed : m < u.id
          BY <1>4, <3>0, <3>1, PushMoves, WayIsReal, RealNumbers DEF PipeInv, Submitting
        <4> QED
          BY <4>1 DEF PipeInv
      <3>3. ~UnderWay(u)'
        <4>1. \A d \in Callers : ~Submitting(d)'
          BY <1>4, PushMoves
        <4>2. UNCHANGED <<mailbox, pending, popped>>
          BY <1>4, <2>2 DEF Push
        <4> HIDE DEF Submitting
        <4> QED
          BY <3>2, <4>1, <4>2 DEF UnderWay, Behind
      <3> QED
        BY <3>1, <3>3
    <2>3. CASE UNCHANGED live \/ (live' = BuffersAfterDrop(building[c]) /\ building[c].addr # a)
      BY <2>1, <2>3 DEF BuffersAfterDrop
    <2> QED
      BY <1>4, <2>2, <2>3, PushMoves
  <1>5. CASE Pop
    BY <1>5 DEF Pop, OnRing
  <1>6. CASE Displace
    <2>1. UNCHANGED live
      BY <1>6 DEF Displace
    <2>2. CASE rt = "displace" /\ pending.addr = a
      <3>0. PICK u : u = pending
        OBVIOUS
      <3>1. UnderWay(u) /\ u.addr = a
        BY <1>6, <2>2, <3>0, DisplaceMoves DEF UnderWay
      <3>2. ~Behind(u)
        BY <1>6, <3>0, BehindPending, DisplaceMoves, RealNumbers
      <3>3. ~UnderWay(u)'
        BY <1>6, <2>2, <3>2, DisplaceMoves DEF Displace, UnderWay, Behind, Submitting
      <3> QED
        BY <3>1, <3>3
    <2>3. CASE rt = "displaced" \/ pending.addr # a
      <3>1. ~OnRing(a)'
        BY <1>6, <2>3, DisplaceMoves, RetiredIsOnRing, RealTarget DEF OnRing
      <3> QED
        BY <2>1, <3>1
    <2> QED
      BY <1>6, <2>2, <2>3, DisplaceMoves
  <1>7. CASE Kick
    <2>1. Reaped(live)[a] = live[a]
      BY ReapedIsFree
    <2> QED
      BY <1>7, <2>1 DEF Kick, OnRing
  <1>8. CASE RetireBuffers
    <2>1. UNCHANGED live
      BY <1>8 DEF RetireBuffers
    <2>2. CASE pending = NoTarget \/ ToRetire # a
      <3>1. ~OnRing(a)'
        BY <1>8, <2>2, RetireMoves, RetiredIsOnRing DEF OnRing
      <3> QED
        BY <2>1, <3>1
    <2>3. CASE pending # NoTarget /\ ~accepted /\ ToRetire = a
      <3>0. PICK u : u = pending
        OBVIOUS
      <3>1. UnderWay(u) /\ u.addr = a
        BY <1>8, <2>3, <3>0, RetireMoves DEF UnderWay, ToRetire
      <3>2. ~Behind(u)
        BY <1>8, <2>3, <3>0, BehindPending, RetireMoves, RealNumbers
      <3>3. ~UnderWay(u)'
        BY <1>8, <3>2, RetireMoves DEF RetireBuffers, UnderWay, Behind, Submitting
      <3> QED
        BY <3>1, <3>3
    <2> QED
      BY <1>8, <2>2, <2>3 DEF ToRetire
  <1>9. CASE CoreStop
    BY <1>9 DEF CoreStop, OnRing
  <1> QED
    BY DataSteps, <1>1, <1>2, <1>3, <1>4, <1>5, <1>6, <1>7, <1>8, <1>9

\* No step takes a buffer from the target or the motion it belongs to.
LEMMA KnotStep ==
    ASSUME TypeInv, PipeInv, RoomInv, KnotInv, [Next]_vars
    PROVE  KnotInv'
  <1>1. /\ reconnects' = 0 => reconnects = 0
        /\ (reconnects = 0 => reconnect = "idle")'
    BY FirstRun DEF KnotInv
  <1> SUFFICES ASSUME reconnects = 0
               PROVE  (\A t : UnderWay(t) => HasKnots(t))' /\ OwnerKept' /\ PlaysOwned'
    BY <1>1 DEF KnotInv
  <1>2. /\ \A t : UnderWay(t) => HasKnots(t)
        /\ OwnerKept /\ PlaysOwned /\ reconnect = "idle"
    BY DEF KnotInv
  <1>3. /\ live \in [Addrs -> 0..MaxMotions] /\ NoAddr \notin Addrs
        /\ activeOwner \in Addrs \cup {NoAddr} /\ nextId # 0
        /\ \A t : UnderWay(t) => t.addr \in Addrs \cup {NoAddr} /\ t.id # 0
    BY SizeAssumption, Sizes, WayIsReal, RealTarget DEF TypeInv, CallerOK, RtOK, Real
  <1>4. ASSUME NEW t, UnderWay(t), t.addr # NoAddr, UnderWay(t)'
        PROVE  live'[t.addr] = live[t.addr] /\ ~OnRing(t.addr)'
    <2>1. t.addr \in Addrs /\ live[t.addr] # 0 /\ ~OnRing(t.addr)
      BY <1>2, <1>3, <1>4 DEF HasKnots
    <2>2. \A u : UnderWay(u) /\ u.addr = t.addr => u = t
      BY <1>2, <1>4, OwnBuffer
    <2>3. t.addr # activeOwner
      BY <1>2, <1>4 DEF OwnerKept
    <2> QED
      BY <1>2, <1>4, <2>1, <2>2, <2>3, KeptBuffer
  <1>5. ASSUME NEW t, UnderWay(t)'
        PROVE  HasKnots(t)'
    <2>1. CASE UnderWay(t)
      BY <1>2, <1>4, <1>5, <2>1 DEF HasKnots
    <2>2. ASSUME NEW c \in Callers, NEW kind \in TargetKinds, Submit(c, kind), t = building'[c]
          PROVE  HasKnots(t)'
      <3>1. ~OnRing(t.addr)'
        BY <2>2 DEF Submit, OnRing
      <3>2. t.addr # NoAddr => live'[t.addr] = t.id
        BY <2>2, SubmitMoves
      <3> QED
        BY <3>1, <3>2 DEF HasKnots
    <2>3. ASSUME NEW c \in Callers, StampStopGen(c), Behind(building[c]),
                 t.id = building[c].id, t.addr = building[c].addr
          PROVE  HasKnots(t)'
      BY <1>2, <2>3 DEF StampStopGen, HasKnots, OnRing, ringVars, UnderWay
    <2> QED
      BY <1>5, <2>1, <2>2, <2>3, WayStep
  <1>6. ASSUME NEW a, a = activeOwner, a # NoAddr,
               ~(RetireBuffers /\ accepted /\ pending # NoTarget)
        PROVE  /\ live'[a] = live[a] /\ live[a] # 0 /\ ~OnRing(a)'
               /\ \A t : UnderWay(t)' => t.addr # a
    <2>1. a \in Addrs /\ live[a] # 0 /\ ~OnRing(a)
      BY <1>2, <1>3, <1>6 DEF OwnerKept
    <2>2. \A u : UnderWay(u) => u.addr # a
      BY <1>2, <1>6 DEF OwnerKept
    <2>3. live'[a] = live[a] /\ ~OnRing(a)'
      BY <1>2, <1>6, <2>1, <2>2, KeptBuffer
    <2>4. ASSUME NEW t, UnderWay(t)' PROVE t.addr # a
      <3>1. ASSUME NEW c \in Callers, NEW kind \in TargetKinds, Submit(c, kind), t = building'[c]
            PROVE  t.addr # a
        <4>1. Reaped(live)[a] # 0
          BY <2>1, ReapedIsFree
        <4> QED
          BY <1>6, <3>1, <4>1, SubmitMoves
      <3> QED
        BY <2>2, <2>4, <3>1, WayStep DEF UnderWay
    <2> QED
      BY <2>1, <2>3, <2>4
  <1>7. CASE RetireBuffers
    <2>1. /\ UNCHANGED <<live, core>> /\ accepted' = FALSE
      BY <1>7 DEF RetireBuffers, ringVars
    <2>2. CASE ~accepted \/ pending = NoTarget
      <3>1. UNCHANGED activeOwner /\ ~accepted
        BY <1>2, <1>7, <2>2, RetireMoves DEF PlaysOwned
      <3>2. OwnerKept'
        BY <1>2, <1>6, <2>2, <3>1 DEF OwnerKept
      <3>3. PlaysOwned'
        BY <1>2, <2>1, <3>1 DEF PlaysOwned
      <3> QED
        BY <1>5, <3>2, <3>3
    <2>3. CASE accepted /\ pending # NoTarget
      <3>1. activeOwner' = pending.addr /\ UnderWay(pending) /\ ~Behind(pending)
        BY <1>7, <2>3, RetireMoves, BehindPending, RealNumbers DEF UnderWay
      <3>2. ASSUME NEW a, a = pending.addr, a # NoAddr
            PROVE  /\ live[a] # 0 /\ ~OnRing(a)'
                   /\ \A t : UnderWay(t)' => t.addr # a
        <4>1. a \in Addrs /\ live[a] # 0 /\ ~OnRing(a) /\ a # activeOwner
          BY <1>2, <1>3, <3>1, <3>2 DEF HasKnots, OwnerKept
        <4>2. ~OnRing(a)'
          BY <1>7, <2>3, <4>1, RetireMoves, RetiredIsOnRing DEF ToRetire
        <4>3. ASSUME NEW t, UnderWay(t)' PROVE t.addr # a
          <5>1. Behind(t)
            BY <1>7, <4>3, RetireMoves DEF UnderWay, Behind, Submitting, RetireBuffers,
               callerVars
          <5> QED
            BY <1>2, <3>1, <3>2, <5>1, OwnBuffer DEF UnderWay
        <4> QED
          BY <4>1, <4>2, <4>3
      <3>3. OwnerKept'
        BY <2>1, <3>1, <3>2 DEF OwnerKept
      <3>4. PlaysOwned'
        BY <1>2, <2>1, <2>3, <3>1 DEF PlaysOwned
      <3> QED
        BY <1>5, <3>3, <3>4
    <2> QED
      BY <2>2, <2>3
  <1>8. ASSUME NEW window, NEW end, NEW splices, RunTick(window, end, splices)
        PROVE  OwnerKept' /\ PlaysOwned'
    <2>1. /\ UNCHANGED <<live, activeOwner, pending>> /\ rt = "tick" /\ rt' = "retire"
          /\ accepted' => pending # NoTarget
      BY <1>8 DEF RunTick, ringVars
    <2>2. OwnerKept'
      BY <1>2, <1>6, <2>1 DEF OwnerKept, RetireBuffers
    <2>3. pending # NoTarget => UnderWay(pending)
      BY <2>1 DEF UnderWay
    <2>4. /\ ~accepted /\ core.buf \in {NoAddr, activeOwner}
          /\ core.buf # NoAddr => live[core.buf] = core.playing
      BY <1>2, <2>1 DEF PlaysOwned
    <2>5. \/ /\ Keeps(core, core')
             /\ accepted' => core'.buf = NoAddr
          \/ /\ pending # NoTarget /\ accepted'
             /\ core'.playing = pending.id /\ core'.buf = pending.addr
      BY <1>8, TickPlays DEF TypeInv, RtOK
    <2>6. CASE Keeps(core, core') /\ (accepted' => core'.buf = NoAddr)
      <3>1. CASE core'.buf = NoAddr
        BY <2>2, <2>1, <3>1 DEF PlaysOwned
      <3>2. CASE core'.buf # NoAddr
        <4>1. ~accepted' /\ core'.buf = core.buf /\ core'.playing = core.playing
          BY <2>6, <3>2 DEF Keeps
        <4>2. core'.buf = activeOwner' /\ live'[core'.buf] = core'.playing
          BY <2>1, <2>4, <3>2, <4>1
        <4> QED
          BY <2>2, <4>1, <4>2 DEF PlaysOwned
      <3> QED
        BY <3>1, <3>2
    <2>7. CASE /\ pending # NoTarget /\ accepted'
               /\ core'.playing = pending.id /\ core'.buf = pending.addr
      <3>1. pending.addr # NoAddr => live[pending.addr] = pending.id
        BY <1>2, <2>3, <2>7 DEF HasKnots
      <3>2. core'.buf = pending'.addr /\ (core'.buf # NoAddr => live'[core'.buf] = core'.playing)
        BY <2>1, <2>7, <3>1
      <3> QED
        BY <2>2, <2>1, <2>7, <3>2 DEF PlaysOwned
    <2> QED
      BY <2>2, <2>5, <2>6, <2>7
  <1>9. ASSUME UNCHANGED <<accepted, activeOwner>>, rt = "retire" => UNCHANGED <<rt, pending>>,
               core'.buf = core.buf, core'.playing = core.playing
        PROVE  OwnerKept' /\ PlaysOwned'
    <2>1. ~RetireBuffers
      BY <1>9 DEF RetireBuffers
    <2>2. OwnerKept'
      BY <1>2, <1>6, <1>9, <2>1 DEF OwnerKept
    <2>3. CASE ~accepted
      <3>1. /\ ~accepted' /\ core.buf \in {NoAddr, activeOwner}
            /\ core.buf # NoAddr => live[core.buf] = core.playing
        BY <1>2, <1>9, <2>3 DEF PlaysOwned
      <3>2. core.buf # NoAddr => live'[core.buf] = live[core.buf]
        BY <1>6, <2>1, <3>1
      <3> QED
        BY <2>2, <1>9, <3>1, <3>2 DEF PlaysOwned
    <2>4. CASE accepted
      <3>1. /\ UNCHANGED <<rt, pending>> /\ rt = "retire" /\ pending # NoTarget
            /\ core.buf \in {NoAddr, pending.addr}
        BY <1>2, <1>9, <2>4 DEF PlaysOwned
      <3>2. UnderWay(pending) /\ UnderWay(pending)'
        BY <3>1 DEF UnderWay
      <3> QED
        BY <1>2, <1>4, <1>9, <2>2, <2>4, <3>1, <3>2 DEF PlaysOwned
    <2> QED
      BY <2>2, <2>3, <2>4
  <1> QED
    BY <1>5, <1>7, <1>8, <1>9, PlaySteps

\* While the core has not been restarted, no retire, reap or drop frees or reuses the
\* knots of a trajectory that is queued, popped, pending or played, whatever the callers
\* and the RT thread do (live_buffers_, retire_ring_, active_traj_owner_).  A reconnect()
\* clears live_buffers_ under a mailbox that survives it: the theorem ends there.
THEOREM KnotsOutlive == Spec => []KnotsOutliveMotion
  <1>1. Init => TypeInv /\ PipeInv /\ RoomInv /\ KnotInv
    <2> SUFFICES ASSUME Init PROVE KnotInv
      BY TypeInit, DataInit
    <2>1. /\ at = [c \in Callers |-> "idle"] /\ Len(mailbox) = 0
          /\ pending = NoTarget /\ popped = NoTarget /\ activeOwner = NoAddr
          /\ reconnect = "idle" /\ core.buf = NoAddr /\ accepted = FALSE
      BY DEF Init
    <2>2. \A t : ~UnderWay(t)
      BY <2>1 DEF UnderWay, Behind, Submitting
    <2> QED
      BY <2>1, <2>2 DEF KnotInv, OwnerKept, PlaysOwned
  <1>2. TypeInv /\ PipeInv /\ RoomInv /\ KnotInv /\ [Next]_vars
           => (TypeInv /\ PipeInv /\ RoomInv /\ KnotInv)'
    BY TypeStep, PipeStep, RoomStep, KnotStep
  <1>3. TypeInv /\ KnotInv => KnotsOutliveMotion
    <2> SUFFICES ASSUME TypeInv, KnotInv, reconnects = 0 PROVE KnotsOutliveMotion
      BY DEF KnotsOutliveMotion
    <2>1. NoTarget.addr = NoAddr
      BY DEF NoTarget
    <2>2. \A i \in 1..Len(mailbox) : HoldsKnots(mailbox[i])
      BY DEF KnotInv, HasKnots, HoldsKnots, UnderWay, Behind
    <2>3. HoldsKnots(popped)
      BY <2>1 DEF KnotInv, HasKnots, HoldsKnots, UnderWay, Behind
    <2>4. rt \in {"drain", "gen", "tick", "retire"} => HoldsKnots(pending)
      BY <2>1 DEF KnotInv, HasKnots, HoldsKnots, UnderWay
    <2> QED
      BY <2>2, <2>3, <2>4 DEF KnotInv, PlaysOwned, KnotsOutliveMotion
  <1> QED
    BY <1>1, <1>2, <1>3, PTL DEF Spec

-----------------------------------------------------------------------------
(* The resolution table.                                                   *)

Draining == {"retire", "publish", "publishStatus", "events", "eventId"}

Recorded(m) == \E k \in 1..TableSize : resolutions[k].id = m

InEvents(c, m) == \E i \in 1..Len(c.events) : c.events[i].id = m

\* A slot that is filled answers for one motion that has resolved; the slots are filled
\* in order, and the table is never full while a motion is unrecorded.
SlotsInv ==
    /\ \A k \in 1..TableSize : resolutions[k].id # 0 =>
          /\ core.outcome[resolutions[k].id] \in Terminal
          /\ resolutions[k].status = core.outcome[resolutions[k].id]
    /\ \A j, k \in 1..TableSize :
          resolutions[k].id # 0 /\ resolutions[j].id = resolutions[k].id => j = k
    /\ \/ \A k \in 1..TableSize : resolutions[k].id # 0 <=> k < head
       \/ head = 1 /\ \A k \in 1..TableSize : resolutions[k].id # 0

\* The events still to be drained, and the displaced target between the two stores of
\* record_resolution_, are the motions that have resolved and are not recorded.
EventsInv ==
    /\ rt \notin Draining => core.events = <<>>
    /\ \A i \in 1..Len(core.events) : /\ core.outcome[core.events[i].id] = core.events[i].status
                                      /\ ~Recorded(core.events[i].id)
    /\ \A i, j \in 1..Len(core.events) : core.events[i].id = core.events[j].id => i = j
    /\ \A m \in Ids : core.outcome[m] \in Terminal =>
          Recorded(m) \/ InEvents(core, m) \/ (rt = "displaced" /\ m = pending.id)
    /\ rt = "eventId" => /\ core.events # <<>>
                         /\ resolutions[head].status = Head(core.events).status
    /\ rt = "displaced" => /\ resolutions[head].status = "PREEMPTED"
                           /\ core.outcome[pending.id] = "PREEMPTED"
                           /\ ~Recorded(pending.id)

\* A running slot holds a running motion.
Runs(c) == c.status = "RUNNING" => c.outcome[c.slot] = "RUNNING"

\* A motion that no tick has seen has no outcome yet.
FreshInv ==
    /\ Runs(core)
    /\ \A t : Behind(t) => core.outcome[t.id] = "PENDING"
    /\ pending # NoTarget /\ rt \notin {"displaced", "retire"} => core.outcome[pending.id] = "PENDING"
    /\ \A m \in Ids : m >= nextId => core.outcome[m] = "PENDING"

\* What a poll has read: a slot keeps the id it had when the poll matched it.
ReadInv ==
    /\ reader.at # "idle" \/ reader.via = "table" => reader.id # 0
    /\ reader.at = "slot" => resolutions[reader.k].id = reader.id
    /\ reader.via = "table" => /\ reader.got = core.outcome[reader.id]
                               /\ reader.got \in Terminal

-----------------------------------------------------------------------------
(* What a tick emits.  o is what the motions' outcomes were before it.     *)

\* A resolved motion keeps its outcome; one that resolves emits one event, which has it.
Books(o, c) ==
    /\ \A m \in Ids : o[m] \in Terminal => c.outcome[m] = o[m]
    /\ \A i \in 1..Len(c.events) : /\ o[c.events[i].id] \notin Terminal
                                   /\ c.outcome[c.events[i].id] = c.events[i].status
    /\ \A i, j \in 1..Len(c.events) : c.events[i].id = c.events[j].id => i = j
    /\ \A m \in Ids : c.outcome[m] \in Terminal => o[m] \in Terminal \/ InEvents(c, m)

\* Every motion but those in S that has no outcome yet has none still.
Spares(S, c, d) ==
    \A m \in Ids \ S : c.outcome[m] = "PENDING" => d.outcome[m] = "PENDING"

\* One part of a tick that consumes no target.
Tidy(o, c) == Sound(c) /\ Books(o, c) /\ Runs(c)

LEMMA EmitBooks ==
    ASSUME NEW o \in [Ids -> Status], NEW c, Sound(c), Books(o, c),
           NEW m \in Ids, c.outcome[m] \notin Terminal, NEW st \in Status
    PROVE  /\ Books(o, Emit(c, m, st)) /\ Spares({m}, c, Emit(c, m, st))
           /\ Emit(c, m, st).outcome = [c.outcome EXCEPT ![m] = st]
  <1> DEFINE d == Emit(c, m, st)
             e == [id |-> m, status |-> st]
  <1>1. /\ c.outcome \in [Ids -> Status] /\ c.events \in Seq([id: Ids, status: Terminal])
    BY DEF Sound, Shapes
  <1>2. /\ d.outcome = [c.outcome EXCEPT ![m] = st]
        /\ d.events = IF st \in Terminal THEN Append(c.events, e) ELSE c.events
    BY DEF Emit, Sound, Shapes
  <1>3. /\ d.outcome[m] = st /\ \A n \in Ids : n # m => d.outcome[n] = c.outcome[n]
        /\ o[m] \notin Terminal
        /\ \A i \in 1..Len(c.events) : c.events[i].id \in Ids /\ c.events[i].status \in Terminal
    <2>1. d.outcome[m] = st /\ \A n \in Ids : n # m => d.outcome[n] = c.outcome[n]
      BY <1>1, <1>2
    <2>2. o[m] \notin Terminal
      BY DEF Books
    <2>3. \A i \in 1..Len(c.events) : c.events[i] \in [id: Ids, status: Terminal]
      BY <1>1, ElementOfSeq
    <2> QED
      BY <2>1, <2>2, <2>3
  <1>4. \A i \in 1..Len(c.events) : c.events[i].id # m
    BY <1>3 DEF Books
  <1> HIDE DEF d
  <1>5. CASE st \notin Terminal
    <2>1. d.events = c.events
      BY <1>2, <1>5
    <2>2. Books(o, d)
      BY <1>3, <1>4, <1>5, <2>1 DEF Books, InEvents
    <2> QED
      BY <1>2, <1>3, <2>2 DEF Spares, d
  <1>6. CASE st \in Terminal
    <2>1. e \in [id: Ids, status: Terminal] /\ e.id = m /\ e.status = st
      BY <1>6
    <2> HIDE DEF e
    <2>2. /\ Len(d.events) = Len(c.events) + 1 /\ Len(c.events) \in Nat
          /\ \A i \in 1..Len(c.events) : d.events[i] = c.events[i]
          /\ d.events[Len(c.events) + 1] = e
      BY <1>1, <1>2, <1>6, <2>1, AppendProperties
    <2>3. \A i \in 1..Len(d.events) : i \in 1..Len(c.events) \/ i = Len(c.events) + 1
      BY <2>2
    <2>4. \A i \in 1..Len(d.events) : /\ o[d.events[i].id] \notin Terminal
                                      /\ d.outcome[d.events[i].id] = d.events[i].status
      <3> SUFFICES ASSUME NEW i \in 1..Len(d.events)
                   PROVE  /\ o[d.events[i].id] \notin Terminal
                          /\ d.outcome[d.events[i].id] = d.events[i].status
        OBVIOUS
      <3>1. CASE i \in 1..Len(c.events)
        <4>1. /\ d.events[i] = c.events[i] /\ c.events[i].id \in Ids /\ c.events[i].id # m
          BY <1>3, <1>4, <2>2, <3>1
        <4>2. /\ o[c.events[i].id] \notin Terminal
              /\ c.outcome[c.events[i].id] = c.events[i].status
          BY <3>1 DEF Books
        <4>3. d.outcome[c.events[i].id] = c.outcome[c.events[i].id]
          BY <1>3, <4>1
        <4> QED
          BY <4>1, <4>2, <4>3
      <3>2. CASE i = Len(c.events) + 1
        BY <1>3, <2>1, <2>2, <3>2
      <3> QED
        BY <2>3, <3>1, <3>2
    <2>5. \A i, j \in 1..Len(d.events) : d.events[i].id = d.events[j].id => i = j
      <3> SUFFICES ASSUME NEW i \in 1..Len(d.events), NEW j \in 1..Len(d.events),
                          d.events[i].id = d.events[j].id
                   PROVE  i = j
        OBVIOUS
      <3>1. CASE i \in 1..Len(c.events) /\ j \in 1..Len(c.events)
        BY <2>2, <3>1 DEF Books
      <3>2. CASE i = Len(c.events) + 1 \/ j = Len(c.events) + 1
        BY <1>4, <2>1, <2>2, <2>3, <3>2
      <3> QED
        BY <2>3, <3>1, <3>2
    <2>6. \A n \in Ids : InEvents(c, n) \/ n = m => InEvents(d, n)
      <3>1. \A i \in 1..Len(c.events) : i \in 1..Len(d.events)
        BY <2>2
      <3>2. Len(c.events) + 1 \in 1..Len(d.events)
        BY <2>2
      <3> QED
        BY <2>1, <2>2, <3>1, <3>2 DEF InEvents
    <2>7. Books(o, d)
      BY <1>3, <2>4, <2>5, <2>6 DEF Books
    <2> QED
      BY <1>2, <1>3, <2>7 DEF Spares, d
  <1> QED
    BY <1>5, <1>6

\* A core with the same outcomes and events has the same books.
LEMMA SameBooks ==
    ASSUME NEW o, NEW c, Books(o, c), NEW d, d.outcome = c.outcome, d.events = c.events
    PROVE  Books(o, d) /\ Spares({}, c, d)
  BY DEF Books, InEvents, Spares

LEMMA ResolveBooks ==
    ASSUME NEW o \in [Ids -> Status], NEW c, Tidy(o, c), NEW st \in Terminal
    PROVE  Tidy(o, Resolve(c, st)) /\ Spares({}, c, Resolve(c, st))
  <1> DEFINE d == Resolve(c, st)
  <1>1. Sound(d) /\ d.status # "RUNNING"
    BY ResolveSound DEF Tidy
  <1>2. CASE c.status = "RUNNING"
    <2> DEFINE e == Emit(c, c.slot, st)
    <2>1. c.slot \in Ids /\ c.outcome[c.slot] = "RUNNING" /\ "RUNNING" \notin Terminal /\ st \in Status
      BY <1>2, Sizes DEF Tidy, Runs, Sound, Shapes, Ids, Terminal, Status
    <2>2. Books(o, e) /\ Spares({c.slot}, c, e)
      BY <2>1, EmitBooks DEF Tidy
    <2>3. d = [e EXCEPT !.status = st]
      BY <1>2 DEF Resolve
    <2>4. Sound(e)
      BY <2>1, EmitSound DEF Tidy
    <2> HIDE DEF e
    <2>5. d.outcome = e.outcome /\ d.events = e.events
      BY <2>3, <2>4 DEF Sound, Shapes
    <2>6. Books(o, d) /\ Spares({}, e, d)
      BY <2>2, <2>5, SameBooks
    <2> HIDE DEF d
    <2> QED
      <3>1. Spares({}, c, d)
        BY <2>1, <2>2, <2>6 DEF Spares
      <3> QED
        BY <1>1, <2>6, <3>1 DEF Tidy, Runs, d
  <1>3. CASE c.status # "RUNNING"
    BY <1>3 DEF Resolve, Spares
  <1> QED
    BY <1>2, <1>3

LEMMA HaltBooks ==
    ASSUME NEW o, NEW c, Tidy(o, c), NEW mode \in {"rest", "fault"}
    PROVE  Tidy(o, Halt(c, mode)) /\ Spares({}, c, Halt(c, mode))
  <1> DEFINE d == Halt(c, mode)
  <1>1. Sound(d)
    BY HaltSound DEF Tidy
  <1>2. /\ d.outcome = c.outcome /\ d.events = c.events
        /\ d.status = c.status /\ d.slot = c.slot
    BY DEF Halt, Tidy, Sound, Shapes
  <1> HIDE DEF d
  <1>3. Books(o, d) /\ Spares({}, c, d) /\ Runs(d)
    BY <1>2, SameBooks DEF Tidy, Runs
  <1> QED
    BY <1>1, <1>3 DEF Tidy, d

LEMMA SparesTransitive ==
    ASSUME NEW S, NEW c, NEW d, NEW e, Spares(S, c, d), Spares({}, d, e)
    PROVE  Spares(S, c, e)
  BY DEF Spares

\* The same for the two ends of a motion that need no target.
LEMMA EndBooks ==
    ASSUME NEW o \in [Ids -> Status], NEW c, Tidy(o, c), NEW st \in Terminal,
           NEW mode \in {"rest", "fault"}
    PROVE  /\ Tidy(o, Halt(Resolve(c, st), mode))
           /\ Spares({}, c, Halt(Resolve(c, st), mode))
  <1> DEFINE d == Resolve(c, st)
  <1>1. Tidy(o, d) /\ Spares({}, c, d)
    BY ResolveBooks
  <1> HIDE DEF d
  <1>2. Tidy(o, Halt(d, mode)) /\ Spares({}, d, Halt(d, mode))
    BY <1>1, HaltBooks
  <1>3. Spares({}, c, Halt(d, mode))
    BY <1>1, <1>2, SparesTransitive
  <1> QED
    BY <1>2, <1>3 DEF d

LEMMA MovedEpochBooks ==
    ASSUME NEW o, NEW c, Tidy(o, c),
           NEW d, d = [c EXCEPT !.epoch = @ + 1, !.recovering = FALSE]
    PROVE  Tidy(o, d) /\ Spares({}, c, d)
  <1>1. Sound(d)
    BY MovedEpochSound DEF Tidy
  <1>2. /\ d.outcome = c.outcome /\ d.events = c.events
        /\ d.status = c.status /\ d.slot = c.slot
    BY DEF Tidy, Sound, Shapes
  <1>3. Books(o, d) /\ Spares({}, c, d) /\ Runs(d)
    BY <1>2, SameBooks DEF Tidy, Runs
  <1> QED
    BY <1>1, <1>3 DEF Tidy

LEMMA FaultBooks ==
    ASSUME NEW o \in [Ids -> Status], NEW c, Tidy(o, c)
    PROVE  Tidy(o, Fault(c)) /\ Spares({}, c, Fault(c))
  <1> DEFINE d == Halt(Resolve(c, "FAULTED"), "fault")
  <1>1. Tidy(o, d) /\ Spares({}, c, d)
    BY EndBooks DEF Terminal
  <1>2. Fault(c) = [d EXCEPT !.epoch = @ + 1, !.recovering = FALSE]
    BY DEF Fault
  <1> HIDE DEF d
  <1>3. Tidy(o, Fault(c)) /\ Spares({}, d, Fault(c))
    BY <1>1, <1>2, MovedEpochBooks
  <1> QED
    BY <1>1, <1>3, SparesTransitive

LEMMA ParkBooks ==
    ASSUME NEW o \in [Ids -> Status], NEW c, Tidy(o, c)
    PROVE  Tidy(o, Park(c)) /\ Spares({}, c, Park(c))
  <1> DEFINE d == Halt(Resolve(c, "FAULTED"), "fault")
  <1>1. Tidy(o, d) /\ Spares({}, c, d)
    BY EndBooks DEF Terminal
  <1>2. Park(c) = [d EXCEPT !.epoch = @ + 1] /\ Sound(Park(c))
    BY ParkSound DEF Park, Tidy
  <1> HIDE DEF d
  <1>3. /\ Park(c).outcome = d.outcome /\ Park(c).events = d.events
        /\ Park(c).status = d.status /\ Park(c).slot = d.slot
    BY <1>1, <1>2 DEF Tidy, Sound, Shapes
  <1>4. Books(o, Park(c)) /\ Spares({}, d, Park(c)) /\ Runs(Park(c))
    BY <1>1, <1>3, SameBooks DEF Tidy, Runs
  <1> QED
    BY <1>1, <1>2, <1>4, SparesTransitive DEF Tidy

LEMMA RecoverBooks ==
    ASSUME NEW o \in [Ids -> Status], NEW c, Tidy(o, c)
    PROVE  Tidy(o, Recover(c)) /\ Spares({}, c, Recover(c))
  <1> DEFINE d == Halt(c, "rest")
  <1>1. Tidy(o, d) /\ Spares({}, c, d)
    BY HaltBooks
  <1>2. Recover(c) = [d EXCEPT !.epoch = @ + 1, !.recovering = FALSE]
    BY DEF Recover
  <1> HIDE DEF d
  <1>3. Tidy(o, Recover(c)) /\ Spares({}, d, Recover(c))
    BY <1>1, <1>2, MovedEpochBooks
  <1> QED
    BY <1>1, <1>3, SparesTransitive

LEMMA StopHoldFinishBooks ==
    ASSUME NEW o \in [Ids -> Status], NEW c, Tidy(o, c),
           NEW d, d \in {Stop(c), Hold(c), Finish(c)}
    PROVE  Tidy(o, d) /\ Spares({}, c, d)
  <1>1. \/ d = c \/ d = Halt(Resolve(c, "STOPPED"), "rest")
        \/ d = Halt(Resolve(c, "PREEMPTED"), "rest") \/ d = Halt(Resolve(c, "DONE"), "rest")
    BY DEF Stop, Hold, Finish
  <1>2. Spares({}, c, c)
    BY DEF Spares
  <1> QED
    BY <1>1, <1>2, EndBooks DEF Terminal

LEMMA SlottedBooks ==
    ASSUME NEW o \in [Ids -> Status], NEW c, Tidy(o, c), NEW m \in Ids,
           c.outcome[m] = "PENDING", NEW st \in Status
    PROVE  Tidy(o, Slotted(c, m, st)) /\ Spares({m}, c, Slotted(c, m, st))
  <1> DEFINE e == Emit(c, m, st)
             d == Slotted(c, m, st)
  <1>1. Books(o, e) /\ Spares({m}, c, e) /\ e.outcome = [c.outcome EXCEPT ![m] = st]
    BY EmitBooks DEF Tidy, Terminal
  <1>2. Sound(e) /\ Sound(d)
    BY EmitSound, SlotSound DEF Tidy
  <1>3. d = [e EXCEPT !.slot = m, !.status = st]
    BY DEF Slotted
  <1> HIDE DEF e, d
  <1>4. d.outcome = e.outcome /\ d.events = e.events /\ d.slot = m /\ d.status = st
    BY <1>2, <1>3 DEF Sound, Shapes
  <1>5. Books(o, d) /\ Spares({}, e, d)
    BY <1>1, <1>4, SameBooks
  <1>6. d.outcome[m] = st
    BY <1>1, <1>4 DEF Tidy, Sound, Shapes
  <1>7. Spares({m}, c, d)
    BY <1>1, <1>5, SparesTransitive
  <1> QED
    BY <1>2, <1>4, <1>5, <1>6, <1>7 DEF Tidy, Runs, d

LEMMA RejectBooks ==
    ASSUME NEW o \in [Ids -> Status], NEW c, Tidy(o, c), NEW t, Real(t),
           c.outcome[t.id] = "PENDING"
    PROVE  Tidy(o, Reject(c, t)) /\ Spares({t.id}, c, Reject(c, t))
  <1>1. Reject(c, t) = Slotted(c, t.id, "REJECTED")
    BY DEF Reject, Slotted
  <1>2. "REJECTED" \in Status
    BY DEF Status, Terminal
  <1> QED
    BY <1>1, <1>2, RealTarget, SlottedBooks

LEMMA AcceptBooks ==
    ASSUME NEW o \in [Ids -> Status], NEW c, Tidy(o, c), NEW t, Real(t),
           c.outcome[t.id] = "PENDING"
    PROVE  Tidy(o, Accept(c, t)) /\ Spares({t.id}, c, Accept(c, t))
  <1> DEFINE st == IF t.kind = "kHold" THEN "DONE" ELSE "RUNNING"
             b == Resolve(c, "PREEMPTED")
             d == Slotted(b, t.id, st)
             e == Accept(c, t)
  <1>1. Tidy(o, b) /\ Spares({}, c, b)
    BY ResolveBooks DEF Terminal
  <1>2. st \in Status /\ t.id \in Ids
    BY RealTarget DEF Status, Terminal
  <1>3. Tidy(o, d) /\ Spares({t.id}, b, d)
    <2> HIDE DEF b, st
    <2>1. b.outcome[t.id] = "PENDING"
      BY <1>1, <1>2 DEF Spares
    <2> QED
      BY <1>1, <1>2, <2>1, SlottedBooks
  <1>4. Spares({t.id}, c, d)
    BY <1>1, <1>3 DEF Spares
  <1>5. e =
          CASE t.kind = "kHold" -> IF c.mode = "moving" THEN Halt(d, "rest") ELSE d
            [] t.kind = "kBrake" -> Halt(d, "rest")
            [] OTHER -> [d EXCEPT !.mode = "moving", !.playing = t.id, !.buf = t.addr]
    BY DEF Accept, Slotted
  <1>6. Sound(e)
    BY AcceptSound DEF Tidy
  <1> HIDE DEF d, e
  <1>7. /\ e.outcome = d.outcome /\ e.events = d.events
        /\ e.status = d.status /\ e.slot = d.slot
    <2>1. d \in Shapes
      BY <1>3 DEF Tidy, Sound
    <2>2. CASE e = d
      BY <2>2
    <2>3. CASE e = Halt(d, "rest")
      BY <2>1, <2>3 DEF Halt, Shapes
    <2>4. CASE e = [d EXCEPT !.mode = "moving", !.playing = t.id, !.buf = t.addr]
      BY <2>1, <2>4 DEF Shapes
    <2> QED
      BY <1>5, <2>2, <2>3, <2>4, RealTarget
  <1>8. Books(o, e) /\ Spares({}, d, e) /\ Runs(e)
    BY <1>3, <1>7, SameBooks DEF Tidy, Runs
  <1>9. Spares({t.id}, c, e)
    BY <1>4, <1>8, SparesTransitive
  <1> QED
    BY <1>6, <1>8, <1>9 DEF Tidy, e

\* A tick: one event for each motion that resolves in it, and only the pending target
\* leaves PENDING.
LEMMA TickBooks ==
    ASSUME Sound(core), Runs(core), core.events = <<>>,
           pending = NoTarget \/ (Real(pending) /\ core.outcome[pending.id] = "PENDING"),
           NEW window, NEW end, NEW splices, RunTick(window, end, splices)
    PROVE  /\ Books(core.outcome, core') /\ Runs(core')
           /\ Spares(IF pending = NoTarget THEN {} ELSE {pending.id}, core, core')
  <1> DEFINE S == IF pending = NoTarget THEN {} ELSE {pending.id}
  <1>0. PICK o : o = core.outcome
    OBVIOUS
  <1>1. PICK c1, c2, c3, c4 : Parts(c1, c2, c3, c4, splices)
    BY TickParts
  <1>2. o \in [Ids -> Status]
    BY <1>0 DEF Sound, Shapes
  <1>3. Tidy(o, core) /\ Spares({}, core, core)
    <2>1. Len(core.events) = 0
      OBVIOUS
    <2> QED
      BY <1>0, <2>1 DEF Tidy, Books, InEvents, Spares
  <1>4. Tidy(o, c1) /\ Spares({}, core, c1)
    BY <1>1, <1>2, <1>3, FaultBooks DEF Parts
  <1>5. Tidy(o, c2) /\ Spares({}, core, c2)
    <2>1. c2 = c1 \/ c2 \in {Stop(c1), Hold(c1), Finish(c1)}
      BY <1>1 DEF Parts
    <2> QED
      BY <1>2, <1>4, <2>1, StopHoldFinishBooks, SparesTransitive
  <1>6. Tidy(o, c3) /\ Spares({}, core, c3)
    <2>1. c3 = c2 \/ (Tidy(o, c3) /\ Spares({}, c2, c3))
      BY <1>1, <1>2, <1>5, FaultBooks, ParkBooks, RecoverBooks DEF Parts
    <2> QED
      BY <1>5, <2>1, SparesTransitive
  <1>7. Tidy(o, c4) /\ Spares(S, core, c4)
    <2>1. CASE pending = NoTarget
      BY <1>1, <1>6, <2>1 DEF Parts
    <2>2. CASE pending # NoTarget
      <3>1. c3.outcome[pending.id] = "PENDING" /\ Real(pending) /\ pending.id \in Ids
        BY <1>6, <2>2, RealTarget DEF Spares
      <3>2. Tidy(o, c4) /\ Spares({pending.id}, c3, c4)
        BY <1>1, <1>2, <1>6, <2>2, <3>1, AcceptBooks, RejectBooks DEF Parts
      <3> QED
        BY <1>6, <2>2, <3>2 DEF Spares
    <2> QED
      BY <2>1, <2>2
  <1> HIDE DEF S
  <1>8. Tidy(o, core') /\ Spares(S, core, core')
    <2>1. CASE core' = c4
      BY <1>7, <2>1
    <2>2. CASE core' = Finish(c4)
      <3>1. Tidy(o, core') /\ Spares({}, c4, core')
        BY <1>2, <1>7, <2>2, StopHoldFinishBooks
      <3> QED
        BY <1>7, <3>1, SparesTransitive
    <2>3. CASE core' = Fault(c4)
      <3>1. Tidy(o, core') /\ Spares({}, c4, core')
        BY <1>2, <1>7, <2>3, FaultBooks
      <3> QED
        BY <1>7, <3>1, SparesTransitive
    <2> QED
      BY <1>1, <2>1, <2>2, <2>3 DEF Parts
  <1> QED
    BY <1>0, <1>8 DEF Tidy, S

-----------------------------------------------------------------------------
(* record_resolution_.                                                     *)

LEMMA TableType ==
    ASSUME TypeInv
    PROVE  /\ resolutions \in [1..TableSize -> [id: 0..MaxMotions, status: Status]]
           /\ head \in 1..TableSize /\ TableSize \in Nat \ {0} /\ MaxMotions \in Nat
           /\ core.outcome \in [Ids -> Status]
           /\ core.events \in Seq([id: Ids, status: Terminal])
           /\ \A k \in 1..TableSize : resolutions[k].id = 0 \/ resolutions[k].id \in Ids
  <1>1. \A n \in 0..MaxMotions : n = 0 \/ n \in Ids
    BY Sizes DEF Ids
  <1> QED
    BY <1>1, Sizes DEF TypeInv, PollOK, RtOK, Sound, Shapes

\* The table is at least as large as the number of motions: as long as one is not
\* recorded, the slot at the head has never been used.
LEMMA HeadIsFree ==
    ASSUME TypeInv, SlotsInv, NEW m \in Ids, ~Recorded(m)
    PROVE  /\ resolutions[head].id = 0
           /\ \A k \in 1..TableSize : resolutions[k].id # 0 <=> k < head
  <1>1. CASE \A k \in 1..TableSize : resolutions[k].id # 0 <=> k < head
    BY <1>1, TableType
  <1>2. CASE \A k \in 1..TableSize : resolutions[k].id # 0
    <2> DEFINE f == [k \in 1..TableSize |-> resolutions[k].id]
    <2>1. f \in [1..TableSize -> Ids \ {m}]
      BY <1>2, TableType DEF Recorded
    <2>2. IsFiniteSet(1..TableSize) /\ Cardinality(1..TableSize) = TableSize
      BY FS_Interval, Sizes
    <2>3. IsFiniteSet(Ids) /\ Cardinality(Ids) = MaxMotions
      BY FS_Interval, Sizes DEF Ids
    <2>4. IsFiniteSet(Ids \ {m}) /\ Cardinality(Ids \ {m}) = MaxMotions - 1
      BY <2>3, FS_RemoveElement
    <2>5. Cardinality(Ids \ {m}) < Cardinality(1..TableSize)
      BY <2>2, <2>4, Sizes, RoomAssumption
    <2> HIDE DEF f
    <2>6. \E j, k \in 1..TableSize : j # k /\ f[j] = f[k]
      BY <2>1, <2>2, <2>4, <2>5, FS_PigeonHole, Zenon
    <2>7. PICK j, k \in 1..TableSize : j # k /\ resolutions[j].id = resolutions[k].id
      BY <2>6 DEF f
    <2> QED
      BY <1>2, <2>7 DEF SlotsInv
  <1> QED
    BY <1>1, <1>2 DEF SlotsInv

\* The first store goes to a slot that answers for nobody.
LEMMA StatusStored ==
    ASSUME TypeInv, SlotsInv, NEW m \in Ids, ~Recorded(m), NEW st \in Status,
           RecordResolution(m, st, TRUE), UNCHANGED head,
           \A n \in Ids : core.outcome[n] \in Terminal => core'.outcome[n] = core.outcome[n]
    PROVE  /\ SlotsInv' /\ resolutions'[head].status = st
           /\ \A k \in 1..TableSize : resolutions'[k].id = resolutions[k].id
  <1>1. resolutions' = [resolutions EXCEPT ![head].status = st]
    BY DEF RecordResolution
  <1>2. /\ resolutions'[head].status = st
        /\ \A k \in 1..TableSize : resolutions'[k].id = resolutions[k].id
        /\ \A k \in 1..TableSize : k # head => resolutions'[k].status = resolutions[k].status
    BY <1>1, TableType
  <1>3. resolutions[head].id = 0
    BY HeadIsFree
  <1>4. ASSUME NEW k \in 1..TableSize, resolutions'[k].id # 0
        PROVE  /\ core'.outcome[resolutions'[k].id] \in Terminal
               /\ resolutions'[k].status = core'.outcome[resolutions'[k].id]
    <2>1. k # head /\ resolutions[k].id \in Ids /\ resolutions'[k].id = resolutions[k].id
      BY <1>2, <1>3, <1>4, TableType
    <2>2. /\ core.outcome[resolutions[k].id] \in Terminal
          /\ resolutions[k].status = core.outcome[resolutions[k].id]
      BY <1>4, <2>1 DEF SlotsInv
    <2>3. core'.outcome[resolutions[k].id] = core.outcome[resolutions[k].id]
      BY <2>1, <2>2
    <2> QED
      BY <1>2, <2>1, <2>2, <2>3
  <1>5. \A j, k \in 1..TableSize :
            resolutions'[k].id # 0 /\ resolutions'[j].id = resolutions'[k].id => j = k
    BY <1>2 DEF SlotsInv
  <1>6. \/ \A k \in 1..TableSize : resolutions'[k].id # 0 <=> k < head'
        \/ head' = 1 /\ \A k \in 1..TableSize : resolutions'[k].id # 0
    BY <1>2 DEF SlotsInv
  <1> QED
    BY <1>2, <1>4, <1>5, <1>6 DEF SlotsInv

\* The second one publishes it.
LEMMA IdStored ==
    ASSUME TypeInv, SlotsInv, NEW m \in Ids, ~Recorded(m), NEW st,
           core.outcome[m] \in Terminal, resolutions[head].status = core.outcome[m],
           RecordResolution(m, st, FALSE), NextSlot, core'.outcome = core.outcome
    PROVE  /\ SlotsInv'
           /\ \A k \in 1..TableSize : resolutions[k].id # 0 => resolutions'[k] = resolutions[k]
           /\ \A n \in Ids : Recorded(n)' <=> (Recorded(n) \/ n = m)
  <1>1. resolutions' = [resolutions EXCEPT ![head].id = m]
    BY DEF RecordResolution
  <1>2. /\ resolutions'[head].id = m /\ resolutions'[head].status = core.outcome[m]
        /\ \A k \in 1..TableSize : k # head => resolutions'[k] = resolutions[k]
    BY <1>1, TableType
  <1>3. /\ resolutions[head].id = 0 /\ m # 0 /\ head \in 1..TableSize
        /\ \A k \in 1..TableSize : resolutions[k].id # 0 <=> k < head
    BY HeadIsFree, TableType DEF Ids
  <1>4. \A k \in 1..TableSize : resolutions'[k].id # 0 =>
            /\ core'.outcome[resolutions'[k].id] \in Terminal
            /\ resolutions'[k].status = core'.outcome[resolutions'[k].id]
    BY <1>2 DEF SlotsInv
  <1>5. \A j, k \in 1..TableSize :
            resolutions'[k].id # 0 /\ resolutions'[j].id = resolutions'[k].id => j = k
    <2>1. \A k \in 1..TableSize : resolutions[k].id # m
      BY DEF Recorded
    <2> QED
      BY <1>2, <2>1 DEF SlotsInv
  <1>6. \/ \A k \in 1..TableSize : resolutions'[k].id # 0 <=> k < head'
        \/ head' = 1 /\ \A k \in 1..TableSize : resolutions'[k].id # 0
    <2>1. \A k \in 1..TableSize : resolutions'[k].id # 0 <=> k <= head
      BY <1>2, <1>3, TableType
    <2>2. CASE head = TableSize
      BY <2>1, <2>2, TableType DEF NextSlot
    <2>3. CASE head # TableSize
      BY <2>1, <2>3, TableType DEF NextSlot
    <2> QED
      BY <2>2, <2>3
  <1>7. \A n \in Ids : Recorded(n)' <=> (Recorded(n) \/ n = m)
    <2>1. \A n \in Ids : n # 0
      BY DEF Ids
    <2> QED
      BY <1>2, <1>3, <2>1 DEF Recorded
  <1> QED
    BY <1>2, <1>3, <1>4, <1>5, <1>6, <1>7 DEF SlotsInv

-----------------------------------------------------------------------------
(* The steps that resolve and record motions, and those that do not.       *)

Quiet ==
    /\ UNCHANGED <<resolutions, head>>
    /\ core'.outcome = core.outcome /\ core'.events = core.events
    /\ core'.status = core.status /\ core'.slot = core.slot
    /\ rt' \notin Draining => rt \notin Draining
    /\ rt' = "eventId" => rt = "eventId"
    /\ rt' = "displaced" <=> rt = "displaced"
    /\ rt = "displaced" => UNCHANGED pending

LEMMA BookSteps ==
    ASSUME TypeInv, [Next]_vars
    PROVE  \/ Quiet \/ Displace \/ DrainTickEvents
           \/ \E window \in Windows, end \in {"run", "done", "error"}, splices \in BOOLEAN :
                 RunTick(window, end, splices)
  <1> DEFINE Goal ==
           \/ Quiet \/ Displace \/ DrainTickEvents
           \/ \E window \in Windows, end \in {"run", "done", "error"}, splices \in BOOLEAN :
                 RunTick(window, end, splices)
  <1> USE DEF callerVars, ringVars, rtVars, pubVars, opVars, lifeVars, Quiet, Draining
  <1>1. CASE UNCHANGED vars
    BY <1>1 DEF vars
  <1>2. ASSUME NEW c \in Callers, MoveJ(c) PROVE Goal
    BY <1>2 DEF MoveJ, Enter
  <1>3. ASSUME NEW c \in Callers, MoveTrajectory(c) PROVE Goal
    <2>1. \E from, to \in {"idle", "planned", "kTrajectory"} : Enter(c, from, to)
      BY <1>3 DEF MoveTrajectory, CaptureGate
    <2> QED
      BY <2>1 DEF Enter
  <1>4. ASSUME NEW c \in Callers, ServoJ(c) PROVE Goal
    BY <1>4 DEF ServoJ, Enter
  <1>5. ASSUME NEW c \in Callers, CallCore(c) PROVE Goal
    BY <1>5 DEF CallCore, Enter
  <1>6. ASSUME NEW c \in Callers, NEW kind \in TargetKinds, Submit(c, kind)
        PROVE  Goal
    BY <1>6 DEF Submit
  <1>7. ASSUME NEW c \in Callers, StampStopGen(c) PROVE Goal
    BY <1>7 DEF StampStopGen
  <1>8. ASSUME NEW c \in Callers, Push(c) PROVE Goal
    BY <1>8 DEF Push
  <1>9. ASSUME NEW c \in Callers, StopJ(c) PROVE Goal
    BY <1>9 DEF StopJ
  <1>10. CASE Kick
    BY <1>10 DEF Kick
  <1>11. CASE TakeRequests
    <2>1. /\ core'.outcome = core.outcome /\ core'.events = core.events
          /\ core'.status = core.status /\ core'.slot = core.slot
      BY <1>11 DEF TakeRequests, TypeInv, RtOK, Sound, Shapes
    <2> QED
      BY <1>11, <2>1 DEF TakeRequests
  <1>12. CASE Pop
    BY <1>12 DEF Pop
  <1>13. CASE Displace
    BY <1>13
  <1>14. CASE DrainEmpty
    BY <1>14 DEF DrainEmpty
  <1>15. CASE LoadStopGen
    BY <1>15 DEF LoadStopGen
  <1>16. ASSUME NEW window \in Windows, NEW end \in {"run", "done", "error"},
               NEW splices \in BOOLEAN, RunTick(window, end, splices)
        PROVE  Goal
    BY <1>16
  <1>17. CASE RetireBuffers
    BY <1>17 DEF RetireBuffers
  <1>18. CASE PublishActive
    BY <1>18 DEF PublishActive
  <1>19. CASE DrainTickEvents
    BY <1>19
  <1>20. CASE MotionStatus
    BY <1>20 DEF MotionStatus
  <1>21. CASE RequestRecover
    BY <1>21 DEF RequestRecover
  <1>22. CASE Reconnect
    BY <1>22 DEF Reconnect
  <1>23. CASE CoreStop
    BY <1>23 DEF CoreStop
  <1>24. CASE CoreStart
    BY <1>24 DEF CoreStart, TypeInv, RtOK
  <1> QED
    BY <1>1, <1>2, <1>3, <1>4, <1>5, <1>6, <1>7, <1>8, <1>9, <1>10, <1>11, <1>12, <1>13,
       <1>14, <1>15, <1>16, <1>17, <1>18, <1>19, <1>20, <1>21, <1>22, <1>23, <1>24 DEF Next,
       Window, Calls, Restart

\* Where the pending target comes from, and how the ids are given out.
LEMMA PendingSteps ==
    ASSUME TypeInv, [Next]_vars
    PROVE  /\ nextId' \in {nextId, nextId + 1}
           /\ pending' # NoTarget /\ rt' \notin {"displaced", "retire"} =>
                 \/ Behind(pending')
                 \/ UNCHANGED pending /\ (rt' # rt => rt \notin {"displaced", "retire"})
  <1> DEFINE Goal ==
           /\ nextId' \in {nextId, nextId + 1}
           /\ pending' # NoTarget /\ rt' \notin {"displaced", "retire"} =>
                 \/ Behind(pending')
                 \/ UNCHANGED pending /\ (rt' # rt => rt \notin {"displaced", "retire"})
  <1>0. nextId \in Int
    BY Sizes DEF TypeInv, CallerOK
  <1> USE <1>0 DEF callerVars, ringVars, rtVars, pubVars, opVars, lifeVars, Behind
  <1>1. CASE UNCHANGED vars
    BY <1>1 DEF vars
  <1>2. ASSUME NEW c \in Callers, MoveJ(c) PROVE Goal
    BY <1>2 DEF MoveJ, Enter
  <1>3. ASSUME NEW c \in Callers, MoveTrajectory(c) PROVE Goal
    <2>1. \E from, to \in {"idle", "planned", "kTrajectory"} : Enter(c, from, to)
      BY <1>3 DEF MoveTrajectory, CaptureGate
    <2> QED
      BY <2>1 DEF Enter
  <1>4. ASSUME NEW c \in Callers, ServoJ(c) PROVE Goal
    BY <1>4 DEF ServoJ, Enter
  <1>5. ASSUME NEW c \in Callers, CallCore(c) PROVE Goal
    BY <1>5 DEF CallCore, Enter
  <1>6. ASSUME NEW c \in Callers, NEW kind \in TargetKinds, Submit(c, kind)
        PROVE  Goal
    BY <1>6 DEF Submit
  <1>7. ASSUME NEW c \in Callers, StampStopGen(c) PROVE Goal
    BY <1>7 DEF StampStopGen
  <1>8. ASSUME NEW c \in Callers, Push(c) PROVE Goal
    BY <1>8 DEF Push
  <1>9. ASSUME NEW c \in Callers, StopJ(c) PROVE Goal
    BY <1>9 DEF StopJ
  <1>10. CASE Kick
    BY <1>10 DEF Kick
  <1>11. CASE TakeRequests
    BY <1>11 DEF TakeRequests
  <1>12. CASE Pop
    <2>1. 1 \in 1..Len(mailbox)
      BY <1>12, PopMoves
    <2> QED
      BY <1>12, <2>1, PopMoves DEF Pop
  <1>13. CASE Displace
    BY <1>13, DisplaceMoves DEF Displace
  <1>14. CASE DrainEmpty
    BY <1>14 DEF DrainEmpty
  <1>15. CASE LoadStopGen
    BY <1>15 DEF LoadStopGen
  <1>16. ASSUME NEW window \in Windows, NEW end \in {"run", "done", "error"},
               NEW splices \in BOOLEAN, RunTick(window, end, splices)
        PROVE  Goal
    BY <1>16 DEF RunTick
  <1>17. CASE RetireBuffers
    BY <1>17, RetireMoves DEF RetireBuffers
  <1>18. CASE PublishActive
    BY <1>18 DEF PublishActive
  <1>19. CASE DrainTickEvents
    BY <1>19 DEF DrainTickEvents
  <1>20. CASE MotionStatus
    BY <1>20 DEF MotionStatus
  <1>21. CASE RequestRecover
    BY <1>21 DEF RequestRecover
  <1>22. CASE Reconnect
    BY <1>22 DEF Reconnect
  <1>23. CASE CoreStop
    BY <1>23 DEF CoreStop
  <1>24. CASE CoreStart
    BY <1>24 DEF CoreStart, TypeInv, RtOK
  <1> QED
    BY <1>1, <1>2, <1>3, <1>4, <1>5, <1>6, <1>7, <1>8, <1>9, <1>10, <1>11, <1>12, <1>13,
       <1>14, <1>15, <1>16, <1>17, <1>18, <1>19, <1>20, <1>21, <1>22, <1>23, <1>24 DEF Next,
       Window, Calls, Restart

\* A motion without an outcome is recorded nowhere.
LEMMA PendingIsUnrecorded ==
    ASSUME TypeInv, SlotsInv, NEW m \in Ids, core.outcome[m] \notin Terminal
    PROVE  ~Recorded(m)
  BY DEF SlotsInv, Recorded, Ids

\* What the loop does to the core when it displaces a target or drains an event.
LEMMA DisplaceOutcome ==
    ASSUME TypeInv, Displace, rt = "displace"
    PROVE  /\ core'.outcome = [core.outcome EXCEPT ![pending.id] = "PREEMPTED"]
           /\ core'.events = core.events /\ core'.status = core.status /\ core'.slot = core.slot
           /\ pending.id \in Ids /\ core'.outcome[pending.id] = "PREEMPTED"
           /\ \A m \in Ids : m # pending.id => core'.outcome[m] = core.outcome[m]
  <1>1. core' = [core EXCEPT !.outcome[pending.id] = "PREEMPTED"]
    BY DEF Displace, DisplaceTarget
  <1>2. core \in Shapes
    BY DEF TypeInv, RtOK, Sound
  <1>3. /\ core'.outcome = [core.outcome EXCEPT ![pending.id] = "PREEMPTED"]
        /\ core'.events = core.events /\ core'.status = core.status /\ core'.slot = core.slot
    BY <1>1, <1>2 DEF Shapes
  <1>4. pending.id \in Ids
    BY DisplaceMoves, RealTarget
  <1> QED
    BY <1>2, <1>3, <1>4 DEF Shapes

LEMMA DrainOutcome ==
    ASSUME TypeInv, DrainTickEvents
    PROVE  /\ core'.outcome = core.outcome /\ core'.status = core.status /\ core'.slot = core.slot
           /\ UNCHANGED pending
           /\ \/ /\ core.events = <<>> /\ rt = "events" /\ rt' = "top"
                 /\ UNCHANGED <<resolutions, head>> /\ core'.events = core.events
              \/ /\ core.events # <<>> /\ rt = "events" /\ rt' = "eventId" /\ UNCHANGED head
                 /\ core'.events = core.events
                 /\ RecordResolution(Head(core.events).id, Head(core.events).status, TRUE)
              \/ /\ core.events # <<>> /\ rt = "eventId" /\ rt' = "events" /\ NextSlot
                 /\ core'.events = Tail(core.events)
                 /\ RecordResolution(Head(core.events).id, Head(core.events).status, FALSE)
  <1>1. core \in Shapes
    BY DEF TypeInv, RtOK, Sound
  <1>2. \/ UNCHANGED core
        \/ core' = [core EXCEPT !.events = Tail(@)] /\ rt = "eventId"
    BY DEF DrainTickEvents
  <1>3. /\ core'.outcome = core.outcome /\ core'.status = core.status /\ core'.slot = core.slot
    BY <1>1, <1>2 DEF Shapes
  <1>4. core' = [core EXCEPT !.events = Tail(@)] => core'.events = Tail(core.events)
    BY <1>1 DEF Shapes
  <1> QED
    BY <1>3, <1>4 DEF DrainTickEvents

\* The first event to drain.
LEMMA FirstEvent ==
    ASSUME TypeInv, EventsInv, core.events # <<>>
    PROVE  /\ Head(core.events) = core.events[1] /\ Len(core.events) \in Nat \ {0}
           /\ Len(Tail(core.events)) = Len(core.events) - 1
           /\ \A i \in 1..Len(Tail(core.events)) :
                 i + 1 \in 1..Len(core.events) /\ Tail(core.events)[i] = core.events[i + 1]
           /\ core.events[1].id \in Ids /\ core.events[1].status \in Terminal
           /\ core.outcome[core.events[1].id] = core.events[1].status
           /\ ~Recorded(core.events[1].id)
  <1>1. /\ Head(core.events) = core.events[1] /\ Len(core.events) \in Nat \ {0}
        /\ Len(Tail(core.events)) = Len(core.events) - 1
        /\ \A i \in 1..Len(Tail(core.events)) : Tail(core.events)[i] = core.events[i + 1]
    BY TableType, HeadTailProperties, EmptySeq
  <1>2. 1 \in 1..Len(core.events)
        /\ \A i \in 1..Len(Tail(core.events)) : i + 1 \in 1..Len(core.events)
    BY <1>1
  <1>3. core.events[1] \in [id: Ids, status: Terminal]
    BY <1>2, TableType, ElementOfSeq
  <1> QED
    BY <1>1, <1>2, <1>3 DEF EventsInv

\* A motion that has resolved keeps its outcome, and a slot its motion.
Steady ==
    /\ \A m \in Ids : core.outcome[m] \in Terminal => core'.outcome[m] = core.outcome[m]
    /\ \A k \in 1..TableSize : resolutions[k].id # 0 => resolutions'[k].id = resolutions[k].id

LEMMA TableStep ==
    ASSUME TypeInv, SlotsInv, EventsInv, FreshInv, [Next]_vars
    PROVE  SlotsInv' /\ EventsInv' /\ Steady
  <1>1. CASE Quiet
    <2>1. SlotsInv' /\ Steady
      BY <1>1 DEF Quiet, SlotsInv, Steady
    <2>2. \A m : (Recorded(m)' <=> Recorded(m)) /\ (InEvents(core, m)' <=> InEvents(core, m))
      BY <1>1 DEF Quiet, Recorded, InEvents
    <2>3. EventsInv'
      BY <1>1, <2>2 DEF Quiet, EventsInv
    <2> QED
      BY <2>1, <2>3
  <1>2. CASE Displace /\ rt = "displace"
    <2>1. /\ rt' = "displaced" /\ UNCHANGED <<pending, head>> /\ core.events = <<>>
          /\ RecordResolution(pending.id, "PREEMPTED", TRUE)
          /\ pending # NoTarget /\ pending.id \in Ids /\ core.outcome[pending.id] = "PENDING"
      BY <1>2, DisplaceMoves, RealTarget DEF Displace, EventsInv, FreshInv, Draining
    <2>2. "PENDING" \notin Terminal /\ "PREEMPTED" \in Terminal /\ "PREEMPTED" \in Status
      BY DEF Terminal, Status
    <2>3. ~Recorded(pending.id)
      BY <2>1, <2>2, PendingIsUnrecorded
    <2>4. \A m \in Ids : core.outcome[m] \in Terminal => core'.outcome[m] = core.outcome[m]
      BY <1>2, <2>1, <2>2, DisplaceOutcome
    <2>5. /\ SlotsInv' /\ resolutions'[head].status = "PREEMPTED"
          /\ \A k \in 1..TableSize : resolutions'[k].id = resolutions[k].id
      BY <2>1, <2>2, <2>3, <2>4, StatusStored
    <2>6. \A m : Recorded(m)' <=> Recorded(m)
      BY <2>5 DEF Recorded
    <2>7. /\ core'.events = <<>> /\ Len(core'.events) = 0 /\ Len(core.events) = 0
          /\ core'.outcome[pending.id] = "PREEMPTED"
          /\ \A m \in Ids : m # pending.id => core'.outcome[m] = core.outcome[m]
      BY <1>2, <2>1, DisplaceOutcome
    <2>8. ~Recorded(pending.id)' /\ pending'.id = pending.id
      BY <2>1, <2>3, <2>6
    <2>9. \A m \in Ids : core'.outcome[m] \in Terminal => Recorded(m)' \/ m = pending'.id
      BY <1>2, <2>6, <2>7, <2>8 DEF EventsInv, InEvents
    <2>10. EventsInv'
      BY <2>1, <2>5, <2>7, <2>8, <2>9 DEF EventsInv
    <2> QED
      BY <2>4, <2>5, <2>10 DEF Steady
  <1>3. CASE Displace /\ rt = "displaced"
    <2>1. /\ rt' = "drain" /\ NextSlot /\ core' = core /\ core.events = <<>>
          /\ RecordResolution(pending.id, "PREEMPTED", FALSE)
          /\ pending # NoTarget /\ pending.id \in Ids /\ core.outcome[pending.id] = "PREEMPTED"
          /\ resolutions[head].status = "PREEMPTED" /\ ~Recorded(pending.id)
      BY <1>3, DisplaceMoves, RealTarget DEF Displace, EventsInv, Draining
    <2>2. "PREEMPTED" \in Terminal
      BY DEF Terminal
    <2>3. /\ SlotsInv'
          /\ \A k \in 1..TableSize : resolutions[k].id # 0 => resolutions'[k] = resolutions[k]
          /\ \A n \in Ids : Recorded(n)' <=> (Recorded(n) \/ n = pending.id)
      BY <2>1, <2>2, IdStored
    <2>4. Len(core.events) = 0 /\ Len(core'.events) = 0 /\ core'.events = <<>>
      BY <2>1
    <2>5. \A m \in Ids : core'.outcome[m] \in Terminal => Recorded(m)'
      BY <2>1, <2>3, <2>4 DEF EventsInv, InEvents
    <2>6. EventsInv'
      BY <2>1, <2>4, <2>5 DEF EventsInv
    <2> QED
      BY <2>1, <2>3, <2>6 DEF Steady
  <1>4. CASE DrainTickEvents
    <2>1. CASE /\ core.events = <<>> /\ rt = "events" /\ rt' = "top"
               /\ UNCHANGED <<resolutions, head>> /\ core'.events = core.events
      <3>1. core'.outcome = core.outcome
        BY <1>4, DrainOutcome
      <3>2. SlotsInv' /\ Steady
        BY <2>1, <3>1 DEF SlotsInv, Steady
      <3>3. \A m : (Recorded(m)' <=> Recorded(m)) /\ (InEvents(core, m)' <=> InEvents(core, m))
        BY <2>1 DEF Recorded, InEvents
      <3>4. EventsInv'
        BY <2>1, <3>1, <3>3 DEF EventsInv
      <3> QED
        BY <3>2, <3>4
    <2>2. CASE /\ core.events # <<>> /\ rt = "events" /\ rt' = "eventId" /\ UNCHANGED head
               /\ core'.events = core.events
               /\ RecordResolution(Head(core.events).id, Head(core.events).status, TRUE)
      <3>1. core'.outcome = core.outcome
        BY <1>4, DrainOutcome
      <3>2. /\ Head(core.events).id \in Ids /\ Head(core.events).status \in Status
            /\ ~Recorded(Head(core.events).id)
        BY <2>2, FirstEvent DEF Status
      <3>3. /\ SlotsInv' /\ resolutions'[head].status = Head(core.events).status
            /\ \A k \in 1..TableSize : resolutions'[k].id = resolutions[k].id
        BY <2>2, <3>1, <3>2, StatusStored
      <3>4. \A m : (Recorded(m)' <=> Recorded(m)) /\ (InEvents(core, m)' <=> InEvents(core, m))
        BY <2>2, <3>3 DEF Recorded, InEvents
      <3>5. EventsInv'
        BY <2>2, <3>1, <3>3, <3>4 DEF EventsInv, Draining
      <3> QED
        BY <3>1, <3>3, <3>5 DEF Steady
    <2>3. CASE /\ core.events # <<>> /\ rt = "eventId" /\ rt' = "events" /\ NextSlot
               /\ core'.events = Tail(core.events)
               /\ RecordResolution(Head(core.events).id, Head(core.events).status, FALSE)
      <3> DEFINE m == core.events[1].id
      <3>1. core'.outcome = core.outcome
        BY <1>4, DrainOutcome
      <3>2. /\ m \in Ids /\ ~Recorded(m) /\ core.outcome[m] \in Terminal
            /\ resolutions[head].status = core.outcome[m] /\ Head(core.events).id = m
        BY <2>3, FirstEvent DEF EventsInv
      <3>3. /\ SlotsInv'
            /\ \A k \in 1..TableSize : resolutions[k].id # 0 => resolutions'[k] = resolutions[k]
            /\ \A n \in Ids : Recorded(n)' <=> (Recorded(n) \/ n = m)
        BY <2>3, <3>1, <3>2, IdStored
      <3>4. /\ Len(core.events) \in Nat \ {0} /\ Len(core'.events) = Len(core.events) - 1
            /\ \A i \in 1..Len(core'.events) :
                  i + 1 \in 1..Len(core.events) /\ core'.events[i] = core.events[i + 1]
        BY <2>3, FirstEvent
      <3>5. \A i \in 1..Len(core.events) : core.events[i].id \in Ids
        <4>1. \A i \in 1..Len(core.events) : core.events[i] \in [id: Ids, status: Terminal]
          BY TableType, ElementOfSeq
        <4> QED
          BY <4>1
      <3>6. ASSUME NEW i \in 1..Len(core'.events)
            PROVE  /\ core'.outcome[core'.events[i].id] = core'.events[i].status
                   /\ ~Recorded(core.events[i].id)'
        <4>0. PICK n : n = core.events[i + 1].id
          OBVIOUS
        <4>1. /\ i + 1 \in 1..Len(core.events) /\ 1 \in 1..Len(core.events) /\ i + 1 # 1
              /\ core'.events[i] = core.events[i + 1] /\ n \in Ids
          BY <3>4, <3>5, <4>0
        <4>2. n # m /\ ~Recorded(n) /\ core.outcome[n] = core.events[i + 1].status
          BY <4>0, <4>1 DEF EventsInv
        <4>3. ~Recorded(n)'
          BY <3>3, <4>1, <4>2
        <4> QED
          BY <3>1, <4>0, <4>1, <4>2, <4>3
      <3>7. \A i, j \in 1..Len(core'.events) : core'.events[i].id = core'.events[j].id => i = j
        <4> SUFFICES ASSUME NEW i \in 1..Len(core'.events), NEW j \in 1..Len(core'.events),
                            core'.events[i].id = core'.events[j].id
                     PROVE  i = j
          OBVIOUS
        <4>0. /\ i + 1 \in 1..Len(core.events) /\ j + 1 \in 1..Len(core.events)
              /\ core.events[i + 1].id = core.events[j + 1].id
          BY <3>4
        <4>1. i + 1 = j + 1
          BY <4>0 DEF EventsInv
        <4> QED
          BY <3>4, <4>1
      <3>8. ASSUME NEW n \in Ids, core'.outcome[n] \in Terminal
            PROVE  Recorded(n)' \/ InEvents(core, n)'
        <4>1. Recorded(n) \/ InEvents(core, n)
          BY <2>3, <3>1, <3>8 DEF EventsInv
        <4>2. ASSUME NEW i \in 1..Len(core.events), core.events[i].id = n, i # 1
              PROVE  InEvents(core, n)'
          <5>1. i - 1 \in 1..Len(core'.events) /\ (i - 1) + 1 = i
            BY <3>4, <4>2
          <5>2. core'.events[i - 1] = core.events[i]
            BY <3>4, <5>1
          <5> QED
            BY <4>2, <5>1, <5>2 DEF InEvents
        <4> QED
          BY <3>3, <4>1, <4>2 DEF InEvents
      <3>9. EventsInv'
        BY <2>3, <3>6, <3>7, <3>8 DEF EventsInv, Draining
      <3> QED
        BY <3>1, <3>3, <3>9 DEF Steady
    <2> QED
      BY <1>4, <2>1, <2>2, <2>3, DrainOutcome
  <1>5. ASSUME NEW window, NEW end, NEW splices, RunTick(window, end, splices)
        PROVE  SlotsInv' /\ EventsInv' /\ Steady
    <2>1. /\ rt = "tick" /\ rt' = "retire" /\ UNCHANGED <<resolutions, head>>
          /\ core.events = <<>> /\ Sound(core)
      BY <1>5 DEF RunTick, EventsInv, Draining, TypeInv, RtOK
    <2>2. pending = NoTarget \/ (Real(pending) /\ core.outcome[pending.id] = "PENDING")
      BY <2>1 DEF FreshInv, TypeInv, RtOK
    <2>3. PICK o : o = core.outcome
      OBVIOUS
    <2>4. Books(o, core')
      BY <1>5, <2>1, <2>2, <2>3, TickBooks DEF FreshInv
    <2>5. Steady
      BY <2>1, <2>3, <2>4 DEF Books, Steady
    <2>6. SlotsInv'
      BY <2>1, <2>5, TableType DEF SlotsInv, Steady
    <2>7. \A m : Recorded(m)' <=> Recorded(m)
      BY <2>1 DEF Recorded
    <2>8. core' \in Shapes /\ Len(core.events) = 0
      BY <2>1, TypeStep DEF TypeInv, RtOK, Sound
    <2>9. \A i \in 1..Len(core'.events) : core'.events[i].id \in Ids
      <3>1. \A i \in 1..Len(core'.events) : core'.events[i] \in [id: Ids, status: Terminal]
        BY <2>8, ElementOfSeq DEF Shapes
      <3> QED
        BY <3>1
    <2>10. ASSUME NEW i \in 1..Len(core'.events)
           PROVE  /\ core'.outcome[core'.events[i].id] = core'.events[i].status
                  /\ ~Recorded(core.events[i].id)'
      <3>0. PICK n : n = core'.events[i].id
        OBVIOUS
      <3>1. n \in Ids /\ o[n] \notin Terminal /\ core'.outcome[n] = core'.events[i].status
        BY <2>4, <2>9, <3>0 DEF Books
      <3>2. ~Recorded(n)
        BY <2>3, <3>1, PendingIsUnrecorded
      <3>3. ~Recorded(n)'
        BY <2>7, <3>2
      <3> QED
        BY <3>0, <3>1, <3>3
    <2>11. \A m \in Ids : core'.outcome[m] \in Terminal => Recorded(m)' \/ InEvents(core', m)
      BY <2>1, <2>3, <2>4, <2>7, <2>8 DEF Books, EventsInv, InEvents
    <2>12. EventsInv'
      BY <2>1, <2>4, <2>10, <2>11 DEF EventsInv, Books, Draining, InEvents
    <2> QED
      BY <2>5, <2>6, <2>12
  <1> QED
    BY BookSteps, <1>1, <1>2, <1>3, <1>4, <1>5, DisplaceMoves

\* A target behind the pending one was there before, or it has just been given an id.
LEMMA BehindIsFresh ==
    ASSUME TypeInv, PipeInv, FreshInv, [Next]_vars, NEW t, Behind(t)'
    PROVE  /\ core.outcome[t.id] = "PENDING" /\ t.id \in Ids
           /\ pending # NoTarget => pending.id < t.id
  <1>1. UnderWay(t)'
    BY DEF UnderWay
  <1>2. CASE Behind(t)
    BY <1>2, BehindPending, WayIsReal, RealTarget DEF FreshInv, UnderWay
  <1>3. ASSUME NEW c \in Callers, NEW kind \in TargetKinds, Submit(c, kind), t = building'[c]
        PROVE  /\ core.outcome[t.id] = "PENDING" /\ t.id \in Ids
               /\ pending # NoTarget => pending.id < t.id
    <2>1. t.id = nextId /\ nextId \in Ids /\ nextId >= nextId
      BY <1>3, SubmitMoves, Sizes DEF Submit, TypeInv, CallerOK, Ids
    <2>2. pending # NoTarget => pending.id < nextId
      BY DEF PipeInv
    <2> QED
      BY <2>1, <2>2 DEF FreshInv
  <1>4. ASSUME NEW c \in Callers, Behind(building[c]), t.id = building[c].id
        PROVE  /\ core.outcome[t.id] = "PENDING" /\ t.id \in Ids
               /\ pending # NoTarget => pending.id < t.id
    BY <1>4, BehindPending, WayIsReal, RealTarget DEF FreshInv, UnderWay
  <1> QED
    BY <1>1, <1>2, <1>3, <1>4, WayStep

\* No step gives an outcome to a motion that is behind the pending one.
LEMMA FreshStep ==
    ASSUME TypeInv, PipeInv, EventsInv, FreshInv, [Next]_vars
    PROVE  FreshInv'
  <1>1. /\ nextId \in Nat /\ nextId' \in {nextId, nextId + 1}
        /\ core.outcome \in [Ids -> Status] /\ Sound(core)
    <2>1. nextId \in Nat
      BY Sizes DEF TypeInv, CallerOK
    <2>2. nextId' \in {nextId, nextId + 1}
      BY PendingSteps
    <2>3. core.outcome \in [Ids -> Status]
      BY TableType
    <2>4. Sound(core)
      BY DEF TypeInv, RtOK
    <2> QED
      BY <2>1, <2>2, <2>3, <2>4
  <1>2. ASSUME NEW m \in Ids, m >= nextId'
        PROVE  /\ core.outcome[m] = "PENDING"
               /\ pending # NoTarget => pending.id < m
    <2>1. m \in Nat /\ m >= nextId
      BY <1>1, <1>2 DEF Ids
    <2>2. pending # NoTarget => pending.id < nextId /\ pending.id \in Nat
      BY RealNumbers DEF PipeInv, TypeInv, RtOK
    <2> QED
      BY <1>1, <2>1, <2>2 DEF FreshInv
  <1>3. CASE core'.outcome = core.outcome /\ core'.status = core.status /\ core'.slot = core.slot
    <2>1. Runs(core')
      BY <1>3 DEF FreshInv, Runs
    <2>2. \A t : Behind(t)' => core'.outcome[t.id] = "PENDING"
      BY <1>3, BehindIsFresh
    <2>3. ASSUME pending' # NoTarget, rt' \notin {"displaced", "retire"}
          PROVE  core'.outcome[pending'.id] = "PENDING"
      BY <1>3, <2>3, PendingSteps DEF FreshInv
    <2>4. \A m \in Ids : m >= nextId' => core'.outcome[m] = "PENDING"
      BY <1>2, <1>3
    <2> QED
      BY <2>1, <2>2, <2>3, <2>4 DEF FreshInv, Runs
  <1>4. CASE Displace /\ rt = "displace"
    <2>1. /\ core'.status = core.status /\ core'.slot = core.slot
          /\ \A m \in Ids : m # pending.id => core'.outcome[m] = core.outcome[m]
          /\ pending # NoTarget /\ rt' = "displaced" /\ core.outcome[pending.id] = "PENDING"
          /\ pending.id \in Nat
      BY <1>4, DisplaceOutcome, DisplaceMoves, RealNumbers DEF FreshInv
    <2>2. Runs(core')
      <3>1. core.status = "RUNNING" => core.slot \in Ids /\ core.slot # pending.id
        BY <1>1, <2>1, Sizes DEF FreshInv, Runs, Sound, Shapes, Ids
      <3> QED
        BY <2>1, <3>1 DEF FreshInv, Runs
    <2>3. \A t : Behind(t)' => core'.outcome[t.id] = "PENDING"
      BY <2>1, BehindIsFresh
    <2>4. \A m \in Ids : m >= nextId' => core'.outcome[m] = "PENDING"
      BY <1>2, <2>1
    <2> QED
      BY <2>1, <2>2, <2>3, <2>4 DEF FreshInv, Runs
  <1>5. ASSUME NEW window, NEW end, NEW splices, RunTick(window, end, splices)
        PROVE  FreshInv'
    <2>1. rt = "tick" /\ rt' = "retire" /\ core.events = <<>>
      BY <1>5 DEF RunTick, EventsInv, Draining
    <2>2. pending = NoTarget \/ (Real(pending) /\ core.outcome[pending.id] = "PENDING")
      BY <2>1 DEF FreshInv, TypeInv, RtOK
    <2>3. /\ Runs(core')
          /\ Spares(IF pending = NoTarget THEN {} ELSE {pending.id}, core, core')
      BY <1>1, <1>5, <2>1, <2>2, TickBooks DEF FreshInv
    <2>4. \A m \in Ids : /\ core.outcome[m] = "PENDING"
                         /\ pending # NoTarget => pending.id < m
                         => core'.outcome[m] = "PENDING"
      <3>1. pending # NoTarget => pending.id \in Nat
        BY <2>2, RealNumbers
      <3> QED
        BY <2>3, <3>1 DEF Spares
    <2>5. \A t : Behind(t)' => core'.outcome[t.id] = "PENDING"
      BY <2>4, BehindIsFresh
    <2>6. \A m \in Ids : m >= nextId' => core'.outcome[m] = "PENDING"
      BY <1>2, <2>4
    <2> QED
      BY <2>1, <2>3, <2>5, <2>6 DEF FreshInv, Runs
  <1>6. Displace /\ rt # "displace" => UNCHANGED core
    BY DEF Displace
  <1> QED
    BY BookSteps, DrainOutcome, <1>3, <1>4, <1>5, <1>6 DEF Quiet

\* A poll reads slots that keep what it matched.
LEMMA ReadSteps ==
    ASSUME TypeInv, [Next]_vars
    PROVE  UNCHANGED reader \/ MotionStatus
  <1> DEFINE Goal == UNCHANGED reader \/ MotionStatus
  <1> USE DEF callerVars, ringVars, rtVars, pubVars, opVars, lifeVars
  <1>1. CASE UNCHANGED vars
    BY <1>1 DEF vars
  <1>2. ASSUME NEW c \in Callers, MoveJ(c) PROVE Goal
    BY <1>2 DEF MoveJ, Enter
  <1>3. ASSUME NEW c \in Callers, MoveTrajectory(c) PROVE Goal
    <2>1. \E from, to \in {"idle", "planned", "kTrajectory"} : Enter(c, from, to)
      BY <1>3 DEF MoveTrajectory, CaptureGate
    <2> QED
      BY <2>1 DEF Enter
  <1>4. ASSUME NEW c \in Callers, ServoJ(c) PROVE Goal
    BY <1>4 DEF ServoJ, Enter
  <1>5. ASSUME NEW c \in Callers, CallCore(c) PROVE Goal
    BY <1>5 DEF CallCore, Enter
  <1>6. ASSUME NEW c \in Callers, NEW kind \in TargetKinds, Submit(c, kind)
        PROVE  Goal
    BY <1>6 DEF Submit
  <1>7. ASSUME NEW c \in Callers, StampStopGen(c) PROVE Goal
    BY <1>7 DEF StampStopGen
  <1>8. ASSUME NEW c \in Callers, Push(c) PROVE Goal
    BY <1>8 DEF Push
  <1>9. ASSUME NEW c \in Callers, StopJ(c) PROVE Goal
    BY <1>9 DEF StopJ
  <1>10. CASE Kick
    BY <1>10 DEF Kick
  <1>11. CASE TakeRequests
    BY <1>11 DEF TakeRequests
  <1>12. CASE Pop
    BY <1>12 DEF Pop
  <1>13. CASE Displace
    BY <1>13 DEF Displace
  <1>14. CASE DrainEmpty
    BY <1>14 DEF DrainEmpty
  <1>15. CASE LoadStopGen
    BY <1>15 DEF LoadStopGen
  <1>16. ASSUME NEW window \in Windows, NEW end \in {"run", "done", "error"},
               NEW splices \in BOOLEAN, RunTick(window, end, splices)
        PROVE  Goal
    BY <1>16 DEF RunTick
  <1>17. CASE RetireBuffers
    BY <1>17 DEF RetireBuffers
  <1>18. CASE PublishActive
    BY <1>18 DEF PublishActive
  <1>19. CASE DrainTickEvents
    BY <1>19 DEF DrainTickEvents
  <1>20. CASE MotionStatus
    BY <1>20
  <1>21. CASE RequestRecover
    BY <1>21 DEF RequestRecover
  <1>22. CASE Reconnect
    BY <1>22 DEF Reconnect
  <1>23. CASE CoreStop
    BY <1>23 DEF CoreStop
  <1>24. CASE CoreStart
    BY <1>24 DEF CoreStart
  <1> QED
    BY <1>1, <1>2, <1>3, <1>4, <1>5, <1>6, <1>7, <1>8, <1>9, <1>10, <1>11, <1>12, <1>13,
       <1>14, <1>15, <1>16, <1>17, <1>18, <1>19, <1>20, <1>21, <1>22, <1>23, <1>24 DEF Next,
       Window, Calls, Restart

LEMMA ReadStep ==
    ASSUME TypeInv, PipeInv, SlotsInv, ReadInv, Steady, [Next]_vars
    PROVE  ReadInv'
  <1>1. /\ reader \in [at: {"idle", "scan", "slot", "active", "status"}, id: 0..MaxMotions,
                       k: 1..(TableSize + 1), got: Status, via: {"none", "table", "active"}]
        /\ reader.at = "slot" => reader.k \in 1..TableSize
        /\ reader.id # 0 => reader.id \in Ids
        /\ pushed \subseteq Ids /\ 0 \notin Ids
    BY Sizes DEF TypeInv, PollOK, CallerOK, Ids
  <1>2. CASE UNCHANGED reader
    <2>1. reader.at = "slot" => resolutions'[reader.k].id = reader.id
      BY <1>1 DEF ReadInv, Steady
    <2>2. reader.via = "table" => reader.got = core'.outcome[reader.id] /\ reader.got \in Terminal
      BY <1>1 DEF ReadInv, Steady
    <2> QED
      BY <1>2, <2>1, <2>2 DEF ReadInv
  <1>3. CASE MotionStatus
    <2>1. UNCHANGED <<resolutions, core>>
      BY <1>3 DEF MotionStatus, pubVars, rtVars
    <2>2. CASE reader.at = "idle" /\ \E m \in pushed : Reader("scan", m, 1, "PENDING", "none")
      BY <1>1, <2>2 DEF Reader, ReadInv
    <2>3. CASE /\ reader.at = "scan" /\ reader.k <= TableSize
               /\ IF resolutions[reader.k].id = reader.id
                  THEN Reader("slot", reader.id, reader.k, "PENDING", "none")
                  ELSE Reader("scan", reader.id, reader.k + 1, "PENDING", "none")
      BY <2>1, <2>3 DEF Reader, ReadInv
    <2>4. CASE /\ reader.at = "slot"
               /\ Reader("idle", reader.id, 1, resolutions[reader.k].status, "table")
      <3>1. /\ reader.id # 0 /\ resolutions[reader.k].id = reader.id /\ reader.k \in 1..TableSize
        BY <1>1, <2>4 DEF ReadInv
      <3>2. /\ resolutions[reader.k].status = core.outcome[reader.id]
            /\ core.outcome[reader.id] \in Terminal
        BY <3>1 DEF SlotsInv
      <3>3. /\ reader'.at = "idle" /\ reader'.id = reader.id /\ reader'.via = "table"
            /\ reader'.got = resolutions[reader.k].status
        BY <2>4 DEF Reader
      <3> QED
        BY <2>1, <3>1, <3>2, <3>3 DEF ReadInv
    <2>5. CASE /\ reader.at \in {"scan", "status"}
               /\ \/ Reader("status", reader.id, 1, "PENDING", "none")
                  \/ Reader("idle", reader.id, 1, "PENDING", "none")
                  \/ Reader("idle", reader.id, 1, activeStatus, "active")
      BY <2>5 DEF Reader, ReadInv
    <2> QED
      BY <1>3, <2>2, <2>3, <2>4, <2>5 DEF MotionStatus
  <1> QED
    BY <1>2, <1>3, ReadSteps

TableInv == TypeInv /\ PipeInv /\ SlotsInv /\ EventsInv /\ FreshInv /\ ReadInv

LEMMA TableInit ==
    ASSUME Init
    PROVE  TableInv
  <1>1. TypeInv /\ PipeInv
    BY TypeInit, DataInit
  <1>2. /\ resolutions = [k \in 1..TableSize |-> [id |-> 0, status |-> "PENDING"]] /\ head = 1
        /\ core.events = <<>> /\ core.outcome = [m \in Ids |-> "PENDING"]
        /\ core.status = "PENDING" /\ rt = "top" /\ Len(mailbox) = 0
        /\ pending = NoTarget /\ popped = NoTarget
        /\ at = [c \in Callers |-> "idle"]
        /\ reader.at = "idle" /\ reader.via = "none"
    BY DEF Init
  <1>3. Len(core.events) = 0 /\ "PENDING" \notin Terminal
    BY <1>2 DEF Terminal
  <1>4. SlotsInv
    BY <1>2, Sizes DEF SlotsInv
  <1>5. EventsInv
    BY <1>2, <1>3 DEF EventsInv
  <1>6. FreshInv
    BY <1>2 DEF FreshInv, Runs, Behind, Submitting
  <1>7. ReadInv
    BY <1>2 DEF ReadInv
  <1> QED
    BY <1>1, <1>4, <1>5, <1>6, <1>7 DEF TableInv

LEMMA TableKept ==
    ASSUME TableInv, [Next]_vars
    PROVE  TableInv'
  <1> USE DEF TableInv
  <1>1. TypeInv' /\ PipeInv'
    BY TypeStep, PipeStep
  <1>2. SlotsInv' /\ EventsInv' /\ Steady
    BY TableStep
  <1>3. FreshInv' /\ ReadInv'
    BY <1>2, FreshStep, ReadStep
  <1> QED
    BY <1>1, <1>2, <1>3

\* At the end of every window the table answers for every motion that has resolved, with
\* the outcome the core gave it, for any number of motions up to the table's size
\* (record_resolution_, drain_tick_events_, the displaced targets of the drain).
THEOREM OutcomesAreReadable == Spec => []ResolvedIsReadable
  <1>1. TableInv => ResolvedIsReadable
    <2> SUFFICES ASSUME TableInv, rt = "top", NEW m \in Ids, core.outcome[m] \in Terminal
                 PROVE  \E k \in 1..TableSize :
                           resolutions[k] = [id |-> m, status |-> core.outcome[m]]
      BY DEF ResolvedIsReadable
    <2>1. core.events = <<>> /\ Len(core.events) = 0
      BY DEF TableInv, EventsInv, Draining
    <2>2. Recorded(m)
      BY <2>1 DEF TableInv, EventsInv, InEvents
    <2>3. PICK k \in 1..TableSize : resolutions[k].id = m
      BY <2>2 DEF Recorded
    <2>4. m # 0 /\ resolutions[k] \in [id: 0..MaxMotions, status: Status]
      BY TableType DEF Ids, TableInv
    <2>5. resolutions[k].status = core.outcome[m]
      BY <2>3, <2>4 DEF TableInv, SlotsInv
    <2> QED
      BY <2>3, <2>4, <2>5
  <1> QED
    BY <1>1, TableInit, TableKept, PTL DEF Spec

\* Whatever the RT thread stores between the loads of motion_status, a status it takes
\* from the table is the outcome of the motion it was asked about.
THEOREM TableIsTrue == Spec => []TableTellsTruth
  <1>1. TableInv => TableTellsTruth
    BY DEF TableInv, ReadInv, TableTellsTruth
  <1> QED
    BY <1>1, TableInit, TableKept, PTL DEF Spec
=============================================================================
