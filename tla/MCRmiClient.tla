---------------------------- MODULE MCRmiClient -----------------------------
(* Two threads on one RMI client. *)
EXTENDS RmiClient, TLC

CONSTANTS c1, c2

\* The Initialize ladder; a request and a program_call; a stop() against a request, and
\* against a start() and the call that follows it.
SessionScripts ==
    {c1 :> <<"init">> @@ c2 :> <<>>,
     c1 :> <<"get">> @@ c2 :> <<"call">>,
     c1 :> <<"stop">> @@ c2 :> <<"get">>,
     c1 :> <<"stop">> @@ c2 :> <<"start", "call">>}
=============================================================================
