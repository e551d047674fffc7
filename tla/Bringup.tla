------------------------------ MODULE Bringup -------------------------------
(***************************************************************************)
(* Supervisor.bringup(): the retried ladder that takes a robot from no     *)
(* session to STREAMING, against a controller that persists: its next      *)
(* SequenceID, the gripper dispatchers it has forked, which nothing kills, *)
(* and sessions it has not freed yet.  The process may die at any point    *)
(* and be started again; a driver that streams, or failed, may bring up    *)
(* again.                                                                  *)
(*                                                                         *)
(* An RMI exchange is one step: served, or not (refused, or the session    *)
(* went down).  A program_call is fire-and-forget, so it may also be lost. *)
(***************************************************************************)
EXTENDS Naturals, Preflight

CONSTANTS
    Retries,      \* policy.connect_retries
    FlushTries,   \* attempts of the flush reconnect
    SettleTries,  \* _SETTLE_ATTEMPTS
    MaxBringups,  \* bound: calls of bringup(), over all processes
    MaxSeq        \* bound: the controller's NextSequenceID

ASSUME BringupAssumption ==
    /\ {Retries, FlushTries, SettleTries, MaxBringups} \subseteq Nat \ {0}
    /\ MaxSeq \in Nat

VARIABLES
    \* the controller
    nextSeq, dispatchers, trigger, held, armed, motion,
    \* the process: policy, place, attempts, and the supervisor's fields
    policy, pc, attempt, tries, forked, state,
    \* the process: RMI session and counter, stream core
    session, seq, core, asked,
    \* history: bring-ups so far, forks and stale calls of this one, and how preflight judged
    bringups, forks, stale, verdict

controllerVars == <<nextSeq, dispatchers, trigger, held, armed, motion>>
coreVars == <<core, asked>>
historyVars == <<bringups, forks, stale, verdict>>
vars == <<controllerVars, policy, pc, attempt, tries, forked, state, session, seq,
          coreVars, historyVars>>

Init ==
    /\ nextSeq \in {1, 3} /\ dispatchers \in {0, 1} /\ trigger = 0
    /\ held = FALSE /\ armed = FALSE /\ motion = FALSE
    /\ policy \in [gripper : BOOLEAN, full : BOOLEAN, settle : BOOLEAN]
    /\ pc = "idle" /\ attempt = 0 /\ tries = 0 /\ forked = FALSE
    /\ state = "DISCONNECTED"
    /\ session = FALSE /\ seq = 1 /\ core = "stopped" /\ asked = FALSE
    /\ bringups = 0 /\ forks = 0 /\ stale = FALSE /\ verdict = "pass"

-----------------------------------------------------------------------------
(***************************************************************************)
(* The controller and the core.                                            *)
(***************************************************************************)

\* A session that ended is freed a beat later; until then a connect is refused.
Frees ==
    /\ held /\ held' = FALSE
    /\ UNCHANGED <<nextSeq, dispatchers, trigger, armed, motion, policy, pc, attempt, tries,
                   forked, state, session, seq, coreVars, historyVars>>

\* A dispatcher clears the trigger register once it has handled the command.
Dispatches ==
    /\ dispatchers > 0 /\ trigger = 1 /\ trigger' = 0
    /\ UNCHANGED <<nextSeq, dispatchers, held, armed, motion, policy, pc, attempt, tries,
                   forked, state, session, seq, coreVars, historyVars>>

\* motion_possible rises for a launched STREAM_MOTN with the stream open, and drops
\* when the controller says so, a re-Call over a running instance being one reason;
\* it takes another Call to arm it again.  The core follows.
MotionRises ==
    /\ armed /\ core # "stopped" /\ ~motion /\ motion' = TRUE
    /\ core' = IF core = "preroll" THEN "HOLD" ELSE core
    /\ UNCHANGED <<nextSeq, dispatchers, trigger, held, armed, policy, pc, attempt, tries,
                   forked, state, session, seq, asked, historyVars>>

MotionDrops ==
    /\ motion /\ motion' = FALSE /\ armed' = FALSE
    /\ core' = "SAFE_FOLLOW"
    /\ UNCHANGED <<nextSeq, dispatchers, trigger, held, policy, pc, attempt, tries, forked,
                   state, session, seq, asked, historyVars>>

\* Asked to, the core leaves SAFE_FOLLOW.
CoreReturns ==
    /\ core = "SAFE_FOLLOW" /\ motion /\ asked
    /\ core' = "HOLD" /\ asked' = FALSE
    /\ UNCHANGED <<controllerVars, policy, pc, attempt, tries, forked, state, session, seq,
                   historyVars>>

Controller == Frees \/ Dispatches \/ MotionRises \/ MotionDrops \/ CoreReturns

-----------------------------------------------------------------------------
(***************************************************************************)
(* What a step of the ladder is made of.                                   *)
(***************************************************************************)

Go(from, to) == pc = from /\ pc' = to /\ UNCHANGED <<policy, bringups>>
Keep == UNCHANGED <<attempt, forked, state, forks, stale, verdict>>
KeepController == UNCHANGED <<nextSeq, dispatchers, trigger, armed, motion>>

\* A request is answered, over a reopened session if need be; or it is refused, or
\* the session goes down.
Served == (session \/ ~held) /\ session' = TRUE /\ UNCHANGED held
Unserved ==
    \/ UNCHANGED <<session, held>>
    \/ session' = FALSE /\ held' = (held \/ session)

\* stop(): FRC_Disconnect, which resets the counter if it arrives.
Disconnect ==
    /\ session' = FALSE /\ held' = (held \/ session)
    /\ IF session THEN nextSeq' \in {1, nextSeq} ELSE UNCHANGED nextSeq

\* An exchange that goes on to p when it is served, and fails the attempt otherwise.
Exchange(from, p) ==
    /\ \/ Go(from, p) /\ Served
       \/ Go(from, "failed") /\ Unserved
    /\ KeepController /\ UNCHANGED <<tries, seq, coreVars>> /\ Keep

\* FRC_Call with the SequenceID n: a stale one is dropped without a word.
Launches(program, n) ==
    IF n < nextSeq
    THEN stale' = TRUE /\ UNCHANGED <<nextSeq, dispatchers, armed, forks>>
    ELSE /\ n < MaxSeq /\ nextSeq' = n + 1 /\ UNCHANGED stale
         /\ IF program = "GRPRUN"
            THEN dispatchers' = dispatchers + 1 /\ forks' = forks + 1 /\ UNCHANGED armed
            ELSE armed' = TRUE /\ UNCHANGED <<dispatchers, forks>>

\* Fire and forget: each try consumes an id, and what was sent may still be lost.
ProgramCall(program) ==
    /\ Served
    /\ \E k \in {1, 2} :
          /\ seq' = seq + k
          /\ \/ Launches(program, seq + k - 1)
             \/ UNCHANGED <<nextSeq, dispatchers, armed, forks, stale>>
    /\ UNCHANGED <<trigger, motion>>

CallFails ==
    /\ Unserved /\ seq' \in {seq + 1, seq + 2}
    /\ KeepController /\ UNCHANGED <<forks, stale>>

-----------------------------------------------------------------------------
(***************************************************************************)
(* The ladder, one action per step.                                        *)
(***************************************************************************)

Final == {"idle", "streaming", "raised", "refused", "escaped", "dead"}

\* The core stops, and with it the stream that could be armed.
StopCore == core' = "stopped" /\ asked' = FALSE /\ motion' = FALSE /\ armed' = FALSE

\* bringup(), in a new driver or from reconnect(), which has torn the old one down.
Begin ==
    /\ pc \in Final \ {"dead"} /\ bringups < MaxBringups
    /\ pc' = "connect" /\ attempt' = 1 /\ tries' = 0
    /\ forked' = FALSE /\ forks' = 0 /\ stale' = FALSE /\ verdict' = "pass"
    /\ bringups' = bringups + 1 /\ state' = "RMI_CONNECTING"
    /\ StopCore /\ Disconnect
    /\ UNCHANGED <<dispatchers, trigger, policy, seq>>

\* The process dies: the controller keeps what it has.
Crash ==
    /\ pc \notin {"idle", "dead"} /\ pc' = "dead"
    /\ session' = FALSE /\ held' = (held \/ session) /\ StopCore
    /\ UNCHANGED <<nextSeq, dispatchers, trigger, policy, attempt, tries, forked, state, seq,
                   historyVars>>

Restart ==
    /\ pc = "dead" /\ pc' = "idle"
    /\ forked' = FALSE /\ state' = "DISCONNECTED" /\ seq' = 1
    /\ attempt' = 0 /\ tries' = 0
    /\ forks' = 0 /\ stale' = FALSE /\ verdict' = "pass"
    /\ UNCHANGED <<controllerVars, policy, session, coreVars, bringups>>

\* RmiClient.start
Connect ==
    /\ \/ Go("connect", "preflight") /\ ~held /\ session' = TRUE
       \/ Go("connect", "failed") /\ UNCHANGED session
    /\ KeepController /\ UNCHANGED <<held, tries, seq, coreVars>> /\ Keep

\* run_preflight: a status query that is not answered counts as a hard block; the
\* alarms go unread when only their query fails.
RunPreflight ==
    /\ \/ /\ Served
          /\ \E v \in Verdicts[policy.full][policy.gripper] :
               /\ Go("preflight", IF v = "pass" THEN "init" ELSE "blocked")
               /\ verdict' = v
       \/ Go("preflight", "blocked") /\ Unserved /\ UNCHANGED verdict
    /\ KeepController
    /\ UNCHANGED <<attempt, tries, forked, state, forks, stale, seq, coreVars>>

\* Mutant: the Initialize ladder forgets to re-anchor the counter.
BugNoReseed ==
    /\ \/ Go("init", "continue") /\ Served
       \/ Go("init", "failed") /\ Unserved
    /\ KeepController /\ UNCHANGED <<tries, seq, coreVars>> /\ Keep

\* initialize(): the ladder, then the counter is re-anchored.
Initialize ==
    /\ \/ Go("init", "continue") /\ Served /\ seq' = nextSeq
       \/ Go("init", "failed") /\ Unserved /\ UNCHANGED seq
    /\ KeepController /\ UNCHANGED <<tries, coreVars>> /\ Keep

\* _maybe_continue: best effort.
MaybeContinue ==
    /\ Go("continue", "reset") /\ (Served \/ Unserved)
    /\ state' = "TP_LAUNCH"
    /\ KeepController
    /\ UNCHANGED <<attempt, tries, forked, forks, stale, verdict, seq, coreVars>>

Reset ==
    Exchange("reset", IF policy.gripper /\ ~forked THEN "probe" ELSE "reseed")

\* _gripdisp_alive: a benign open, as a question.  A write whose reply is lost may
\* have been made.
ProbeWrite ==
    /\ \/ Go("probe", "probing") /\ Served /\ trigger' = 1
       \/ Go("probe", "fork") /\ Unserved /\ trigger' \in {trigger, 1}
    /\ UNCHANGED <<nextSeq, dispatchers, armed, motion, tries, seq, coreVars>> /\ Keep

ProbeRead ==
    /\ \/ Go("probing", "reseed") /\ Served /\ trigger = 0 /\ forked' = TRUE
       \/ Go("probing", "fork") /\ (Served \/ Unserved) /\ UNCHANGED forked
    /\ KeepController
    /\ UNCHANGED <<attempt, tries, state, forks, stale, verdict, seq, coreVars>>

\* Mutant: the latch is set once the flush has succeeded.
BugLatchLate ==
    /\ \/ Go("fork", "flush") /\ ProgramCall("GRPRUN") /\ UNCHANGED forked
       \/ Go("fork", "failed") /\ CallFails /\ UNCHANGED forked
       \/ Go("fork", "escaped") /\ CallFails /\ UNCHANGED forked
    /\ UNCHANGED <<attempt, tries, state, verdict, coreVars>>

\* The fork, and the latch before anything else can fail.
Fork ==
    /\ \/ Go("fork", "flush") /\ ProgramCall("GRPRUN") /\ forked' = TRUE
       \/ Go("fork", "failed") /\ CallFails /\ UNCHANGED forked
       \/ Go("fork", "escaped") /\ CallFails /\ UNCHANGED forked
    /\ UNCHANGED <<attempt, tries, state, verdict, coreVars>>

\* The flush: reset, stop(), and a reconnect that bears with a session not yet freed.
Flush == Exchange("flush", "flushStop")

FlushStop ==
    /\ Go("flushStop", "reconnect") /\ Disconnect /\ tries' = 1
    /\ UNCHANGED <<dispatchers, trigger, armed, motion, seq, coreVars>> /\ Keep

\* Mutant: the flush reconnect is tried until it succeeds.
BugReconnectForever ==
    /\ \/ Go("reconnect", "reseed") /\ ~held /\ session' = TRUE
       \/ Go("reconnect", "reconnect") /\ held /\ UNCHANGED session
    /\ KeepController /\ UNCHANGED <<held, tries, seq, coreVars>> /\ Keep

Reconnect ==
    /\ \/ Go("reconnect", "reseed") /\ ~held /\ session' = TRUE /\ UNCHANGED tries
       \/ /\ Go("reconnect", "reconnect") /\ held /\ tries < FlushTries
          /\ tries' = tries + 1 /\ UNCHANGED session
       \/ Go("reconnect", "failed") /\ UNCHANGED <<session, tries>>
    /\ KeepController /\ UNCHANGED <<held, seq, coreVars>> /\ Keep

Reseed ==
    /\ \/ Go("reseed", "call") /\ Served /\ seq' = nextSeq
       \/ Go("reseed", "failed") /\ Unserved /\ UNCHANGED seq
    /\ KeepController /\ UNCHANGED <<tries, coreVars>> /\ Keep

\* FRC_Call(STREAM_MOTN), for the first time or again.
CallStream ==
    /\ \E from \in {"call", "recall"} :
         \/ Go(from, IF from = "call" THEN "start" ELSE "rise") /\ ProgramCall("STREAM_MOTN")
         \/ Go(from, "failed") /\ CallFails
         \/ Go(from, "escaped") /\ CallFails
    /\ UNCHANGED <<attempt, tries, forked, state, verdict, coreVars>>

StartCore ==
    /\ \/ Go("start", "ready") /\ core' = "preroll"
       \/ Go("start", "failed") /\ UNCHANGED core
    /\ state' = "SM_HANDSHAKE"
    /\ KeepController
    /\ UNCHANGED <<held, session, asked, attempt, tries, forked, forks, stale, verdict, seq>>

\* wait_ready, then the wait for HOLD; either may time out.
AwaitCore ==
    /\ \/ Go("ready", "hold") /\ motion /\ UNCHANGED <<tries, state>>
       \/ /\ ~policy.settle /\ Go("hold", "streaming") /\ core = "HOLD"
          /\ state' = "STREAMING" /\ UNCHANGED tries
       \/ /\ policy.settle /\ Go("hold", "settle") /\ core = "HOLD"
          /\ tries' = 1 /\ UNCHANGED state
       \/ /\ (Go("ready", "failed") \/ Go("hold", "failed"))
          /\ UNCHANGED <<tries, state>>
    /\ KeepController
    /\ UNCHANGED <<held, session, seq, coreVars, attempt, forked, forks, stale, verdict>>

\* _settle_stream_motn: motion_possible held, or STREAM_MOTN is launched once more.
Settle ==
    /\ \/ Go("settle", "streaming") /\ motion /\ state' = "STREAMING"
       \/ Go("settle", "rereset") /\ ~motion /\ tries <= SettleTries /\ UNCHANGED state
       \/ Go("settle", "failed") /\ ~motion /\ tries > SettleTries /\ UNCHANGED state
    /\ KeepController
    /\ UNCHANGED <<held, session, seq, coreVars, attempt, tries, forked, forks, stale,
                   verdict>>

\* _rmi_relaunch_stream_motn: reset, continue, a reseed whose failure is borne.
Rereset == Exchange("rereset", "recontinue")

Recontinue ==
    /\ Go("recontinue", "rereseed") /\ (Served \/ Unserved)
    /\ KeepController /\ UNCHANGED <<tries, seq, coreVars>> /\ Keep

Rereseed ==
    /\ Go("rereseed", "recall")
    /\ \/ Served /\ seq' = nextSeq
       \/ Unserved /\ UNCHANGED seq
    /\ KeepController /\ UNCHANGED <<tries, coreVars>> /\ Keep

\* Motion is back and the core is asked to leave SAFE_FOLLOW, or it is not.
AwaitMotion ==
    /\ Go("rise", "settle") /\ tries' = tries + 1
    /\ asked' = (asked \/ motion)
    /\ KeepController /\ UNCHANGED <<held, session, seq, core>> /\ Keep

\* _triage asks the controller what is wrong, reopening the session to do so.
Triage ==
    /\ Go("failed", "teardown") /\ (Served \/ Unserved)
    /\ KeepController /\ UNCHANGED <<tries, seq, coreVars>> /\ Keep

NextAttempt ==
    IF attempt < Retries
    THEN Go("teardown", "connect") /\ attempt' = attempt + 1 /\ state' = "RMI_CONNECTING"
    ELSE Go("teardown", "raised") /\ state' = "DISCONNECTED" /\ UNCHANGED attempt

\* Mutant: a hard block is raised as it is.
BugBlockKeepsSession ==
    /\ \/ NextAttempt /\ Disconnect
       \/ /\ Go("blocked", "refused") /\ UNCHANGED <<attempt, state, session, held, nextSeq>>
    /\ StopCore /\ tries' = 0
    /\ UNCHANGED <<dispatchers, trigger, forked, forks, stale, verdict, seq>>

\* _teardown_partial, between attempts and before a hard block is raised.
Teardown ==
    /\ \/ NextAttempt
       \/ Go("blocked", "refused") /\ UNCHANGED <<attempt, state>>
    /\ StopCore /\ Disconnect /\ tries' = 0
    /\ UNCHANGED <<dispatchers, trigger, forked, forks, stale, verdict, seq>>

Ladder ==
    \/ Connect \/ RunPreflight \/ Initialize \/ MaybeContinue \/ Reset
    \/ ProbeWrite \/ ProbeRead \/ Fork \/ Flush \/ FlushStop \/ Reconnect
    \/ Reseed \/ CallStream \/ StartCore \/ AwaitCore \/ Settle
    \/ Rereset \/ Recontinue \/ Rereseed \/ AwaitMotion \/ Triage \/ Teardown

Next == Ladder \/ Begin \/ Crash \/ Restart \/ Controller

Spec == Init /\ [][Next]_vars

\* The thread that brings up runs; nobody has to start it, and the controller need
\* do nothing.
FairSpec == Spec /\ WF_vars(Ladder)

-----------------------------------------------------------------------------
(***************************************************************************)
(* Properties.                                                             *)
(***************************************************************************)

\* One bringup() forks the gripper dispatcher at most once however often it retries,
\* and never for a driver without a gripper: a fork outlives every RMI verb, and a
\* stack of them wedges STREAM_MOTN.
ForkOnce == forks <= (IF policy.gripper THEN 1 ELSE 0)

\* No FRC_Call of a bring-up reaches the controller with a SequenceID it drops as a
\* duplicate, although the controller's counter outlives the process that used it and
\* is reset by a disconnect.
NeverStale == ~stale

\* No attempt leaves anything to the next one, or behind: Initialize, whose ladder may
\* abort programs and which "MUST be invoked only ... from a state where STREAM_MOTN is
\* known-down", and the start of the core meet no core that still runs; and a bring-up
\* that raised one of its own errors has left no RMI session open that would lock out
\* the next.
CleanFailure ==
    /\ pc \in {"connect", "preflight", "init", "start", "raised", "refused"} => core = "stopped"
    /\ pc \in {"raised", "refused"} => ~session

\* A bring-up comes to an end, whatever the controller answers or fails to.
BringupEnds == <>[](pc \in Final)

\* A preflight whose queries were answered refuses only on what the controller said in an
\* alarm or in a file that was read, with one exception: an order file without S636
\* blocks although the listing, which could show the package to be installed, was not
\* read.  No other file that the FTP server did not give up blocks a bring-up.
RefusedOnEvidence == verdict # "unfounded"

\* Without the exception, as the checks' own comment has it: what would not fetch "must
\* never read as evidence of absence".
UnreadIsUnknown == verdict \in {"pass", "blocked"}
=============================================================================
