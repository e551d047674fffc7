---------------------------- MODULE MCSupervisor ----------------------------
(***************************************************************************)
(* Supervisor for model checking: the .cfg files name the threads and the  *)
(* conditions, and bound how much goes wrong.  One automatic ladder is     *)
(* enough: single flight lets no second one past its first step.           *)
(***************************************************************************)
EXTENDS Supervisor
=============================================================================
