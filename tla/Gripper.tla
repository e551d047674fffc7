------------------------------ MODULE Gripper -------------------------------
(***************************************************************************)
(* The gripper worker (gripper_worker.py): callers hand commands to one    *)
(* worker thread, which writes the modifier, the action and, last, the     *)
(* trigger register, and polls the trigger until the dispatcher clears it. *)
(* One done latch and one result serve every command.  A recovery ladder,  *)
(* or reconnect(), holds the fail-fast gate; reconnect's bring-up writes   *)
(* the same registers to probe for a dispatcher.                           *)
(*                                                                         *)
(* A command is its number.  Of the registers only the trigger is state:   *)
(* that the modifier and the action are written is a step, what they hold  *)
(* is not told apart.                                                      *)
(***************************************************************************)
EXTENDS Naturals, Sequences, FiniteSets, SequencesExt

CONSTANTS
    Callers,      \* threads that command the gripper
    MaxCommands,  \* bound: commands submitted
    MaxGates      \* bound: times the gate is raised

ASSUME GripperAssumption ==
    MaxCommands \in Nat /\ MaxGates \in Nat

VARIABLES
    recovering, stopEvt, shut,  \* the gate, the stop event, the executor shut down
    done, result,               \* the latch, and the command judged with its verdict
    caller,                     \* caller -> place and command
    queue, worker,              \* the executor's queue and its one thread
    trigger,                    \* the trigger register
    dispatcher,                 \* external: idle, busy with a command, or gone
    holder,                     \* who holds the gate, and how far it has come
    submitted, gates, cancelled, leaked         \* history

workerVars == <<queue, worker>>
latchVars == <<done, result>>
gateVars == <<recovering, holder, gates>>
vars == <<recovering, stopEvt, shut, done, result, caller, queue, worker, trigger, dispatcher,
          holder, submitted, gates, cancelled, leaked>>

NoVerdict == [command |-> 0, success |-> FALSE]

Init ==
    /\ recovering = FALSE /\ stopEvt = FALSE /\ shut = FALSE
    /\ done = TRUE /\ result = NoVerdict
    /\ caller = [u \in Callers |-> [pc |-> "idle", command |-> 0]]
    /\ queue = <<>> /\ worker = [pc |-> "idle", command |-> 0, success |-> FALSE]
    /\ trigger = 0
    /\ dispatcher \in {"idle", "gone"} /\ holder = "none"
    /\ submitted = 0 /\ gates = 0 /\ cancelled = {} /\ leaked = {}

-----------------------------------------------------------------------------
(***************************************************************************)
(* Callers.                                                                *)
(***************************************************************************)

Move(u, from, to) ==
    /\ caller[u].pc = from
    /\ caller' = [caller EXCEPT ![u].pc = to]

\* open_gripper / close_gripper: a valid selector, then _submit, which refuses while
\* the gate is up or the worker shuts down.
Submit(u) ==
    /\ caller[u].pc = "idle" /\ submitted < MaxCommands
    /\ submitted' = submitted + 1
    /\ caller' = [caller EXCEPT ![u] = [pc |-> IF recovering \/ stopEvt THEN "refuse" ELSE "clear",
                                        command |-> submitted']]
    /\ UNCHANGED <<stopEvt, shut, latchVars, workerVars, trigger, dispatcher, gateVars,
                   cancelled, leaked>>

\* _finish as a caller runs it, for a command that is refused: the result, then the latch.
Refuse(u) ==
    /\ Move(u, "refuse", "latch")
    /\ result' = [command |-> caller[u].command, success |-> FALSE]
    /\ UNCHANGED <<stopEvt, shut, done, workerVars, trigger, dispatcher, gateVars, submitted,
                   cancelled, leaked>>

Latch(u) ==
    /\ Move(u, "latch", "submitted") /\ done' = TRUE
    /\ UNCHANGED <<stopEvt, shut, result, workerVars, trigger, dispatcher, gateVars, submitted,
                   cancelled, leaked>>

\* The latch is armed before the command is handed over.
Clear(u) ==
    /\ Move(u, "clear", "forget") /\ done' = FALSE
    /\ UNCHANGED <<stopEvt, shut, result, workerVars, trigger, dispatcher, gateVars, submitted,
                   cancelled, leaked>>

Forget(u) ==
    /\ Move(u, "forget", "enqueue") /\ result' = NoVerdict
    /\ UNCHANGED <<stopEvt, shut, done, workerVars, trigger, dispatcher, gateVars, submitted,
                   cancelled, leaked>>

\* Mutant: a submit that lost the race with close() says nothing.
BugRaceUnanswered(u) ==
    /\ Move(u, "enqueue", "submitted")
    /\ IF shut THEN UNCHANGED queue ELSE queue' = Append(queue, caller[u].command)
    /\ UNCHANGED <<stopEvt, shut, latchVars, worker, trigger, dispatcher, gateVars, submitted,
                   cancelled, leaked>>

\* The executor takes the command, or close() has shut it down in between.
Enqueue(u) ==
    /\ \/ shut /\ Move(u, "enqueue", "refuse") /\ UNCHANGED queue
       \/ /\ ~shut /\ Move(u, "enqueue", "submitted")
          /\ queue' = Append(queue, caller[u].command)
    /\ UNCHANGED <<stopEvt, shut, latchVars, worker, trigger, dispatcher, gateVars, submitted,
                   cancelled, leaked>>

\* wait_gripper_done without a timeout: it returns once the latch is set.
Wait(u) ==
    /\ Move(u, "submitted", "waiting")
    /\ UNCHANGED <<stopEvt, shut, latchVars, workerVars, trigger, dispatcher, gateVars, submitted,
                   cancelled, leaked>>

Return(u) ==
    /\ Move(u, "waiting", "idle") /\ done
    /\ UNCHANGED <<stopEvt, shut, latchVars, workerVars, trigger, dispatcher, gateVars, submitted,
                   cancelled, leaked>>

\* A wait that times out, or a caller that does not wait at all.
Leave(u) ==
    /\ \E pc \in {"submitted", "waiting"} : Move(u, pc, "idle")
    /\ UNCHANGED <<stopEvt, shut, latchVars, workerVars, trigger, dispatcher, gateVars, submitted,
                   cancelled, leaked>>

\* close(): the stop event, then the executor, whose queued commands are cancelled.
SignalStop ==
    /\ ~stopEvt /\ stopEvt' = TRUE
    /\ UNCHANGED <<shut, latchVars, caller, workerVars, trigger, dispatcher, gateVars, submitted,
                   cancelled, leaked>>

Shutdown ==
    /\ stopEvt /\ ~shut /\ shut' = TRUE
    /\ queue' = <<>> /\ cancelled' = cancelled \union ToSet(queue)
    /\ UNCHANGED <<stopEvt, latchVars, caller, worker, trigger, dispatcher, gateVars, submitted,
                   leaked>>

-----------------------------------------------------------------------------
(***************************************************************************)
(* The worker: _execute.                                                   *)
(***************************************************************************)

Step(from, to) == worker.pc = from /\ worker' = [worker EXCEPT !.pc = to]
Verdict(from, ok) ==
    worker.pc = from /\ worker' = [worker EXCEPT !.pc = "result", !.success = ok]
KeepOthers ==
    UNCHANGED <<stopEvt, shut, caller, dispatcher, gateVars, submitted, cancelled>>

Take ==
    /\ worker.pc = "idle" /\ queue # <<>>
    /\ worker' = [pc |-> "check", command |-> Head(queue), success |-> FALSE]
    /\ queue' = Tail(queue)
    /\ KeepOthers /\ UNCHANGED <<latchVars, trigger, leaked>>

\* Mutant: the worker trusts the check made when the command was submitted.
BugNoRecheck ==
    /\ Step("check", "modifier")
    /\ KeepOthers /\ UNCHANGED <<latchVars, queue, trigger, leaked>>

\* The gate may have risen since the command was submitted.
Check ==
    /\ IF recovering THEN Verdict("check", FALSE) ELSE Step("check", "modifier")
    /\ KeepOthers /\ UNCHANGED <<latchVars, queue, trigger, leaked>>

\* A register write: made, or raised, in which case it may have been made.
Write(register, value, next) ==
    /\ \/ Step(register, next) /\ trigger' = value
       \/ Verdict(register, FALSE) /\ trigger' \in {trigger, value}
    /\ leaked' = IF recovering THEN leaked \union {worker.command} ELSE leaked
    /\ KeepOthers /\ UNCHANGED <<latchVars, queue>>

WriteModifier == Write("modifier", trigger, "action")
WriteAction == Write("action", trigger, "trigger")
WriteTrigger == Write("trigger", 1, "settle")

\* The settle window, cut short by close().
Settle ==
    /\ IF stopEvt THEN Verdict("settle", FALSE) ELSE Step("settle", "poll")
    /\ KeepOthers /\ UNCHANGED <<latchVars, queue, trigger, leaked>>

\* The poll: stopped, a read that raises, the trigger cleared, or the deadline.
Poll ==
    /\ \/ Verdict("poll", FALSE)
       \/ ~stopEvt /\ trigger = 0 /\ Verdict("poll", TRUE)
    /\ KeepOthers /\ UNCHANGED <<latchVars, queue, trigger, leaked>>

\* _finish on the worker: the result, then the latch.
StoreResult ==
    /\ Step("result", "latch")
    /\ result' = [command |-> worker.command, success |-> worker.success]
    /\ KeepOthers /\ UNCHANGED <<done, queue, trigger, leaked>>

SetLatch ==
    /\ Step("latch", "idle") /\ done' = TRUE
    /\ KeepOthers /\ UNCHANGED <<result, queue, trigger, leaked>>

Work ==
    \/ Take \/ Check \/ WriteModifier \/ WriteAction \/ WriteTrigger
    \/ Settle \/ Poll \/ StoreResult \/ SetLatch

-----------------------------------------------------------------------------
(***************************************************************************)
(* The dispatcher, and who holds the gate.                                 *)
(***************************************************************************)

KeepDriver == UNCHANGED <<stopEvt, shut, latchVars, caller, workerVars, submitted, cancelled>>

\* GRIPDISP sees the trigger, acts on the registers, clears the trigger; it may be
\* aborted at any point.
Dispatch ==
    /\ \/ dispatcher = "idle" /\ trigger = 1 /\ dispatcher' = "busy" /\ UNCHANGED trigger
       \/ dispatcher = "busy" /\ dispatcher' = "idle" /\ trigger' = 0
       \/ dispatcher # "gone" /\ dispatcher' = "gone" /\ UNCHANGED trigger
    /\ KeepDriver /\ UNCHANGED <<gateVars, leaked>>

\* set_recovery(True), by a ladder or by reconnect().
RaiseGate ==
    /\ holder = "none" /\ gates < MaxGates /\ gates' = gates + 1
    /\ holder' \in {"ladder", "probe"} /\ recovering' = TRUE /\ leaked' = {}
    /\ KeepDriver /\ UNCHANGED <<trigger, dispatcher>>

\* The bring-up inside reconnect(): its benign open, and a fork if nothing answers.
Probe ==
    /\ \/ /\ holder = "probe" /\ holder' = "probing"
          /\ trigger' = 1 /\ UNCHANGED dispatcher
       \/ /\ holder = "probing" /\ holder' = "rebuilt" /\ trigger = 0
          /\ UNCHANGED <<trigger, dispatcher>>
       \/ /\ holder = "probing" /\ holder' = "rebuilt" /\ UNCHANGED trigger
          /\ dispatcher' = IF dispatcher = "gone" THEN "idle" ELSE dispatcher
    /\ KeepDriver /\ UNCHANGED <<recovering, gates, leaked>>

\* set_recovery(False), in the finally clause of either.
LowerGate ==
    /\ holder # "none" /\ holder' = "none" /\ recovering' = FALSE
    /\ KeepDriver /\ UNCHANGED <<trigger, dispatcher, gates, leaked>>

-----------------------------------------------------------------------------
Next ==
    \/ \E u \in Callers : Submit(u) \/ Refuse(u) \/ Latch(u) \/ Clear(u) \/ Forget(u)
                          \/ Enqueue(u) \/ Wait(u) \/ Return(u) \/ Leave(u)
    \/ SignalStop \/ Shutdown \/ Work
    \/ Dispatch \/ RaiseGate \/ Probe \/ LowerGate

Spec == Init /\ [][Next]_vars

\* The worker thread runs, an unlocked statement of a caller is reached, a set latch
\* wakes its waiters.  The dispatcher and the gate owe nothing.
FairSpec ==
    /\ Spec /\ WF_vars(Work)
    /\ \A u \in Callers :
          /\ WF_vars(Clear(u) \/ Forget(u) \/ Enqueue(u) \/ Refuse(u) \/ Latch(u))
          /\ WF_vars(Return(u))

-----------------------------------------------------------------------------
(***************************************************************************)
(* Properties.                                                             *)
(***************************************************************************)

\* While a ladder or a reconnect holds the gate, at most one command still touches
\* the dispatcher's registers: the one that had passed _execute's check when the
\* gate rose.  None that was queued, or submitted since, does.
OneLeak == Cardinality(leaked) <= 1

\* Without that one, as driver.py has it of a recovery and of a reconnect ("a gripper
\* command must never actuate GRIPDISP mid-recovery"): no command that writes under the
\* gate comes as far as its trigger.
NoneActuates == recovering => ~(worker.pc = "settle" /\ worker.command \in leaked)

\* "Never hang": a wait without a timeout ends, whatever the dispatcher, the gate and
\* close() do, unless close() has cancelled a queued command, whose latch nothing sets.
WaitsEnd == \A u \in Callers :
    caller[u].pc = "waiting" ~> (caller[u].pc # "waiting" \/ cancelled # {})
=============================================================================
