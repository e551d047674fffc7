----------------------------- MODULE MCBringup ------------------------------
(* Bring-up on small retry budgets. *)
EXTENDS Bringup
=============================================================================
