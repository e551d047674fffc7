----------------------------- MODULE MCTickCore -----------------------------
(***************************************************************************)
(* Small instances of TickCore.  GateInputs selects which gate words the   *)
(* status packets of a run may carry.                                      *)
(***************************************************************************)
EXTENDS TickCore, TLC

CONSTANTS m1, m2, m3

AllClearOnly  == {{}}
MixedGates    == {{}, {"e_stopped"}, {"e_stopped", "safety_clamp"}}
MotionSymmetry == Permutations(Motions)
=============================================================================
