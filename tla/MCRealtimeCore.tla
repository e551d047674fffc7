--------------------------- MODULE MCRealtimeCore ---------------------------
(***************************************************************************)
(* A small instance of RealtimeCore in five mixes of calls, for the whole  *)
(* of which at once there are too many states: a stop_j among faults and   *)
(* recoveries; a restart with a fault and a recovery on either side of it; *)
(* a stop_j across a restart; one caller that fills both rings; two        *)
(* callers under a thread that polls their handles.                        *)
(***************************************************************************)
EXTENDS RealtimeCore, TLC

CONSTANTS u1, u2, a1, a2, a3, a4, a5

VARIABLE mix

\* What the two callers start, what a window brings, and the bounds of each mix.
Mixes ==
    [stop    |-> [starts |-> (u1 :> {"planned", "kServo", "stopping"}),
                  windows |-> {"quiet", "fault", "hold", "lapse", "silent", "recover"},
                  motions |-> 2, epochs |-> 2, rank |-> 1],
     restart |-> [starts |-> (u1 :> {"planned"}),
                  windows |-> {"quiet", "fault", "silent", "recover"},
                  motions |-> 2, epochs |-> 2, rank |-> 1],
     stopped |-> [starts |-> (u1 :> {"planned", "kServo", "stopping"}),
                  windows |-> {"quiet", "fault", "silent", "recover"},
                  motions |-> 1, epochs |-> 2, rank |-> 1],
     fill    |-> [starts |-> (u1 :> {"kTrajectory"}), windows |-> {"quiet"},
                  motions |-> 5, epochs |-> 0, rank |-> 4],
     poll    |-> [starts |-> (u1 :> {"kTrajectory"} @@ u2 :> {"kTrajectory", "kHold"}),
                  windows |-> {"quiet", "lapse"},
                  motions |-> 2, epochs |-> 1, rank |-> 1]]

\* Addresses no thread knows are alike: the allocator goes by rank, and chooses freely
\* between the two of the first.
Rank == [a \in Addrs |-> CASE a \in {a1, a2} -> 1 [] a = a3 -> 2 [] a = a4 -> 3 [] a = a5 -> 4]

ByRank(c) ==
    building'[c].addr \in Addrs /\ building[c] = NoTarget =>
        /\ Rank[building'[c].addr] <= Mixes[mix].rank
        /\ \A a \in Addrs : Rank[a] < Rank[building'[c].addr] => Reaped(live)[a] # 0

\* A call of the mix, while motions are left for it.
MixCalls(c) ==
    LET m == Mixes[mix] IN
    /\ Calls(c) /\ ByRank(c)
    /\ at[c] = "idle" => at'[c] \in m.starts[c]
    /\ at'[c] \notin {"idle", "stamping", "pushing", "stopping"} => nextId <= m.motions

MCInit == Init /\ mix \in DOMAIN Mixes

MCNext ==
    /\ \/ Window(Mixes[mix].windows) /\ core'.epoch <= Mixes[mix].epochs
       \/ \E c \in DOMAIN Mixes[mix].starts : MixCalls(c)
       \/ Kick
       \/ mix = "poll" /\ MotionStatus
       \/ mix \in {"stop", "restart", "stopped"} /\ RequestRecover
       \/ mix \in {"restart", "stopped"} /\ Restart
    /\ UNCHANGED mix

MCSpec == MCInit /\ [][MCNext]_<<vars, mix>>

AddrSymmetry == Permutations({a1, a2})
=============================================================================
