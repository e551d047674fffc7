----------------------------- MODULE Republisher ----------------------------
(***************************************************************************)
(* What leaves the driver as telemetry (republisher.py and the snapshot    *)
(* callback of driver.py): joint states and force with their ages, the     *)
(* robot status, and the toasts the status thread derives from the edges   *)
(* it sees.  A measurement has a monotonic stamp, its age is taken on the  *)
(* wall clock, and the wall clock may be stepped.  A put may raise.        *)
(*                                                                         *)
(* Times are ages: the measurement's, and that of the one a thread holds.  *)
(* The wall clock is its offset from the monotonic one.                    *)
(***************************************************************************)
EXTENDS Integers

CONSTANTS
    Topics,       \* what is published with an age: joint states, external force
    StaleAge,     \* STALE_MS
    MaxAge,       \* MAX_AGE_MS
    Offsets,      \* where the wall clock may stand
    AgeCap        \* bound: ages are not told apart beyond it

ASSUME RepublisherAssumption ==
    /\ StaleAge \in Nat /\ MaxAge \in Nat /\ AgeCap \in Nat /\ StaleAge < MaxAge
    /\ Offsets \subseteq Int
    /\ \A o1, o2 \in Offsets : AgeCap + o1 - o2 > MaxAge

Ages == 0..AgeCap
NoAge == -1
NoRx == -1

VARIABLES
    offset,             \* the wall clock
    age,                \* of the last status packet's measurement; NoRx before the first
    robot,              \* motion_possible and faulted
    running,            \* started, and the stop event is clear
    thread,             \* topic -> its thread: place, the snapshot's age and wall clock
    status,             \* the robot_status thread: place and snapshot
    prev,               \* _prev_motion_possible, _prev_faulted
    announced,          \* history: this fault has been toasted
    stepped             \* history: topics whose stamp is older than a step of the clock

robotVars == <<offset, age, robot>>
statusVars == <<status, prev, announced>>
vars == <<robotVars, running, thread, stepped, statusVars>>

Robots == [motion : BOOLEAN, faulted : BOOLEAN]
Asleep == [pc |-> "sleep", age |-> NoRx, offset |-> 0]
NoRound == [pc |-> "sleep", snap |-> [motion |-> FALSE, faulted |-> FALSE]]

Init ==
    /\ offset \in Offsets /\ age = NoRx /\ robot \in Robots
    /\ running = FALSE
    /\ thread = [t \in Topics |-> Asleep]
    /\ status = NoRound
    /\ prev = [motion |-> "none", faulted |-> "none"]
    /\ announced = FALSE /\ stepped = {}

-----------------------------------------------------------------------------
(***************************************************************************)
(* The clocks and the robot.                                               *)
(***************************************************************************)

Older(a) == IF a = NoRx THEN NoRx ELSE IF a < AgeCap THEN a + 1 ELSE AgeCap

Tick ==
    /\ age' = Older(age)
    /\ thread' = [t \in Topics |-> [thread[t] EXCEPT !.age = Older(@)]]
    /\ UNCHANGED <<offset, robot, running, stepped, statusVars>>

\* The wall clock is set, at any point: a thread that holds a stamp has it from before.
StepClock ==
    /\ offset' \in Offsets
    /\ stepped' = {t \in Topics : thread[t].pc = "publish"}
    /\ UNCHANGED <<age, robot, running, thread, statusVars>>

Receive ==
    /\ age' = 0
    /\ UNCHANGED <<offset, robot, running, thread, stepped, statusVars>>

RobotChanges ==
    /\ robot' \in Robots
    /\ UNCHANGED <<offset, age, running, thread, stepped, statusVars>>

-----------------------------------------------------------------------------
(***************************************************************************)
(* start(), stop(), and the joint and force threads.                       *)
(***************************************************************************)

\* The edges seen before a stop() are kept.
Start ==
    /\ ~running /\ running' = TRUE
    /\ status.pc = "sleep" /\ \A t \in Topics : thread[t].pc = "sleep"
    /\ UNCHANGED <<robotVars, thread, stepped, statusVars>>

\* The loops see the stop event before their next round; stop() joins them.
Stop ==
    /\ running /\ running' = FALSE
    /\ UNCHANGED <<robotVars, thread, stepped, statusVars>>

\* _republish_block: the stamp is moved to the wall clock as that clock stands now.
\* Before the first packet there is nothing to publish, and no force without a valid
\* wrench in it: that round is not taken.
Snapshot(t) ==
    /\ running /\ thread[t].pc = "sleep" /\ age # NoRx
    /\ thread' = [thread EXCEPT ![t] = [pc |-> "publish", age |-> age, offset |-> offset]]
    /\ stepped' = stepped \ {t}
    /\ UNCHANGED <<robotVars, running, statusVars>>

\* Mutant: the monotonic stamp is published as it is.
BugUnconverted(a, o) ==
    LET r == a + offset IN IF r < 0 \/ r > MaxAge THEN NoAge ELSE r

\* _age_ms, for a measurement a old that was stamped when the wall clock stood at o.
Reported(a, o) ==
    LET r == a + offset - o IN IF r < 0 \/ r > MaxAge THEN NoAge ELSE r

\* An unknown age is stale.
Stale(a) == a = NoAge \/ a > StaleAge

\* publish_joint_states, publish_external_force: the payload is put with the age
\* Reported gives; the loop goes on when the put raises.
Publish(t) ==
    /\ thread[t].pc = "publish"
    /\ thread' = [thread EXCEPT ![t] = Asleep]
    /\ stepped' = stepped \ {t}
    /\ UNCHANGED <<robotVars, running, statusVars>>

-----------------------------------------------------------------------------
(***************************************************************************)
(* The robot_status thread: publish_robot_status, _emit_status_toasts.     *)
(***************************************************************************)

Flag(b) == IF b THEN "yes" ELSE "no"
KeepRobot == UNCHANGED <<robotVars, running, thread, stepped>>
Status(from, to) == status.pc = from /\ status' = [status EXCEPT !.pc = to]
EndRound(from) == status.pc = from /\ status' = NoRound

\* A put that raises ends the round: what follows in it is not done.
Raise(from) == EndRound(from) /\ UNCHANGED <<prev, announced>>

TakeStatus ==
    /\ running /\ status.pc = "sleep"
    /\ status' = [pc |-> "put", snap |-> robot]
    /\ KeepRobot /\ UNCHANGED <<prev, announced>>

PutStatus ==
    /\ \/ Status("put", "motion") /\ UNCHANGED <<prev, announced>>
       \/ Raise("put")
    /\ KeepRobot

\* motion_possible: a drop, or a return, is an event; the first round has no edge.
ToastMotion ==
    LET now == Flag(status.snap.motion)
        edge == prev.motion # "none" /\ prev.motion # now IN
    /\ \/ /\ Status("motion", "fault") /\ prev' = [prev EXCEPT !.motion = now]
          /\ UNCHANGED announced
       \/ edge /\ Raise("motion")
    /\ KeepRobot

\* Mutant: the edge is taken as seen before its event is out.
BugLatchFirst ==
    LET now == Flag(status.snap.faulted)
        edge == prev.faulted = "no" /\ status.snap.faulted IN
    /\ EndRound("fault") /\ prev' = [prev EXCEPT !.faulted = now]
    /\ \/ announced' = (status.snap.faulted /\ (edge \/ announced))
       \/ edge /\ UNCHANGED announced
    /\ KeepRobot

\* A fault that the last round did not have is an event.
ToastFault ==
    LET edge == prev.faulted = "no" /\ status.snap.faulted IN
    /\ \/ /\ EndRound("fault")
          /\ prev' = [prev EXCEPT !.faulted = Flag(status.snap.faulted)]
          /\ announced' = (status.snap.faulted /\ (edge \/ announced))
       \/ edge /\ Raise("fault")
    /\ KeepRobot

Round == TakeStatus \/ PutStatus \/ ToastMotion \/ ToastFault

-----------------------------------------------------------------------------
Next ==
    \/ Tick \/ StepClock \/ Receive \/ RobotChanges \/ Start \/ Stop
    \/ \E t \in Topics : Snapshot(t) \/ Publish(t)
    \/ Round

Spec == Init /\ [][Next]_vars

\* Each put that is tried again and again gets through.
PutStatusOut == PutStatus /\ status'.pc = "motion"
ToastMotionOut == ToastMotion /\ status'.pc = "fault"
ToastFaultOut == ToastFault /\ prev'.faulted = Flag(status.snap.faulted)

FairSpec ==
    /\ Spec /\ WF_vars(Round)
    /\ SF_vars(PutStatusOut) /\ SF_vars(ToastMotionOut) /\ SF_vars(ToastFaultOut)

-----------------------------------------------------------------------------
(***************************************************************************)
(* Properties.                                                             *)
(***************************************************************************)

\* A joint state or a force that is not marked stale is at most STALE_MS old, however often
\* the wall clock has been set since it was measured.  One exception: where the clock is
\* set between the two readings of a publication, the age is wrong by as much as it was
\* set, and what is published as fresh may be older by that, and no more.
FreshIsRecent ==
    [][\A t \in Topics : Publish(t) =>
         \/ Stale(Reported(thread[t].age, thread[t].offset))
         \/ thread[t].age <= StaleAge
         \/ t \in stepped /\ \E o1, o2 \in Offsets : thread[t].age <= StaleAge + o1 - o2]_vars

\* A fault that stays is toasted, if the last complete round saw none: a put that
\* raised leaves the edge to be seen again.
FaultAnnounced == (prev.faulted = "no" /\ [](running /\ robot.faulted)) ~> announced
=============================================================================
