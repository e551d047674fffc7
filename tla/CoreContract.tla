---------------------------- MODULE CoreContract ----------------------------
(***************************************************************************)
(* What the tick core promises the supervisor and the callers, without its *)
(* modes, counters and profiles: when the arm may be moved for a caller,   *)
(* when the stream transmits, and that a fault is left only by a recovery  *)
(* that was asked for after the last fault entry.  Losing the link (the    *)
(* park) does not withdraw a request; every other fault does.              *)
(***************************************************************************)

VARIABLES
    health,  \* "down", "ok", "faulted" or "parked"
    moving,  \* a profile or a deceleration is being played
    asked,   \* recover() is outstanding
    wire     \* the last window transmitted a command

contractVars == <<health, moving, asked, wire>>

Transmits(h) == h \in {"ok", "faulted"}

\* A step may close a window; the window transmits according to the new health.
MayTransmit == wire' = wire \/ wire' = Transmits(health')

Init ==
    /\ health = "down"
    /\ moving = FALSE
    /\ asked = FALSE
    /\ wire = FALSE

Start ==
    /\ health = "down" /\ health' = "ok"
    /\ moving' = FALSE
    /\ UNCHANGED <<asked, wire>>

Fault ==
    /\ health # "down" /\ health' = "faulted"
    /\ moving' = FALSE
    /\ asked' = FALSE
    /\ MayTransmit

Park ==
    /\ health \in {"ok", "faulted"} /\ health' = "parked"
    /\ moving' = FALSE
    /\ UNCHANGED <<asked, wire>>

Ask ==
    /\ health \in {"faulted", "parked"}
    /\ asked' = TRUE
    /\ UNCHANGED <<health, moving, wire>>

Recover ==
    /\ asked /\ health' = "ok"
    /\ moving' = FALSE
    /\ asked' = FALSE
    /\ UNCHANGED wire

Move ==
    /\ health = "ok"
    /\ moving' = TRUE
    /\ UNCHANGED <<health, asked, wire>>

Rest ==
    /\ moving' = FALSE
    /\ UNCHANGED <<health, asked>>
    /\ MayTransmit

Window ==
    /\ wire' = Transmits(health)
    /\ UNCHANGED <<health, moving, asked>>

Next == Start \/ Fault \/ Park \/ Ask \/ Recover \/ Move \/ Rest \/ Window

Spec == Init /\ [][Next]_contractVars
=============================================================================
