----------------------------- MODULE RmiClient ------------------------------
(***************************************************************************)
(* The RMI session client: callers that take _request_lock for a           *)
(* request/reply cycle, the background RX thread that is to be the only    *)
(* reader of the session socket, the reopen-and-resend of a failed cycle,  *)
(* the Initialize ladder, program_call, start() and stop().                *)
(*                                                                         *)
(* A step is what one thread does between two points where another may     *)
(* run: a region under _state_lock, a queue operation, a socket call.  A   *)
(* socket carries packets in order; the controller answers when it likes,  *)
(* with or without an error, or never, and may close the socket or push a  *)
(* fault.  Packets keep only what correlates them: the echoed identifier.  *)
(* Whether a reply reports an error is settled where the code looks.       *)
(***************************************************************************)
EXTENDS Naturals, Sequences, FiniteSets, Functions

CONSTANTS
    Clients,     \* threads that call the client
    Scripts,     \* what they call, each in order: one choice per behaviour
    RingSize,    \* _MAX_ASYNC_QUEUE
    MaxPushes,   \* bound: faults the controller pushes
    MaxSocks,    \* bound: session sockets in use at a time
    MaxReqs,     \* bound: requests somebody still refers to
    MaxReaders   \* bound: RX threads alive at a time

Calls == {"get", "call", "init", "start", "stop"}

ASSUME RmiAssumption ==
    /\ Scripts \subseteq [Clients -> Seq(Calls)]
    /\ RingSize \in Nat \ {0}
    /\ {MaxPushes, MaxSocks, MaxReqs, MaxReaders} \subseteq Nat

Idents == {"FRC_GetStatus", "FRC_Reset", "FRC_Abort", "FRC_Initialize",
           "FRC_Disconnect", "FRC_Call"}
Socks == 1..MaxSocks
Reqs == 1..MaxReqs
Readers == 1..MaxReaders
Pushes == 1..MaxPushes
None == 0

\* A reply echoes an identifier, a push has a number.
Reply(i) == [ident |-> i, push |-> None]
Push(p) == [ident |-> "push", push |-> p]
NoPacket == Push(None)
Packets == [ident : Idents \cup {"push"}, push : Pushes \cup {None}]

\* _Pending: a request and the identifier its reply will echo.
NoRequest == [req |-> None, ident |-> "none"]

VARIABLES
    \* the wire: each socket's state, the requests on it, the packets from it
    link, asked, inbound, pushes,
    \* RmiClient, guarded by _request_lock or _state_lock
    lock, sock, pending, ring, rxThread, stopEvt,
    \* the one-shot inbox of every request
    box,
    \* threads: a client's place and call, a reader's place, socket and packet
    script, pc, at, tries, step, req, leaving, reader,
    \* history: pushes handed to a caller of poll_async_packets; the stop signal was
    \* withdrawn before the stop() that raised it had returned
    polled, recalled

wireVars == <<link, asked, inbound, pushes>>
sharedVars == <<sock, pending, ring, rxThread, stopEvt>>
clientVars == <<script, pc, at, tries, step, req, leaving>>
vars == <<wireVars, lock, sharedVars, box, clientVars, reader, polled, recalled>>

\* Names nobody refers to any more are used again.
FreeSocks == {s \in Socks : link[s] = "shut" /\ \A r \in Readers : reader[r].sock # s}
FreeReqs == {q \in Reqs : q # pending.req /\ (\A c \in Clients : req[c] # q)
                           /\ \A r \in Readers : reader[r].waiter # q}
FreeReaders == {r \in Readers : reader[r].pc = "exited" /\ rxThread # r
                                 /\ \A c \in Clients : leaving[c] # r}
First(S) == CHOOSE n \in S : \A m \in S : n <= m

Init ==
    /\ link = [s \in Socks |-> "shut"]
    /\ asked = [s \in Socks |-> <<>>] /\ inbound = [s \in Socks |-> <<>>]
    /\ pushes = 0
    /\ lock = None /\ sock = None /\ pending = NoRequest /\ ring = <<>>
    /\ rxThread = None /\ stopEvt = FALSE
    /\ box = [r \in Reqs |-> "empty"]
    /\ script \in Scripts
    /\ pc = [c \in Clients |-> "idle"] /\ at = [c \in Clients |-> 1]
    /\ tries = [c \in Clients |-> 1] /\ step = [c \in Clients |-> 1]
    /\ req = [c \in Clients |-> None] /\ leaving = [c \in Clients |-> None]
    /\ reader = [r \in Readers |-> [pc |-> "exited", sock |-> None,
                                    pkt |-> NoPacket, waiter |-> None]]
    /\ polled = {} /\ recalled = FALSE

-----------------------------------------------------------------------------
(***************************************************************************)
(* The controller.                                                         *)
(***************************************************************************)

\* The oldest request is answered.
Answer(s) ==
    /\ link[s] = "up" /\ asked[s] # <<>>
    /\ inbound' = [inbound EXCEPT ![s] = Append(@, Reply(Head(asked[s])))]
    /\ asked' = [asked EXCEPT ![s] = Tail(@)]
    /\ UNCHANGED <<link, pushes, lock, sharedVars, box, clientVars, reader, polled, recalled>>

\* FRC_SystemFault, FRC_Terminate or FRC_AsbnReady.
PushFault(s) ==
    /\ link[s] = "up" /\ pushes < MaxPushes
    /\ pushes' = pushes + 1
    /\ inbound' = [inbound EXCEPT ![s] = Append(@, Push(pushes'))]
    /\ UNCHANGED <<link, asked, lock, sharedVars, box, clientVars, reader, polled, recalled>>

PeerCloses(s) ==
    /\ link[s] = "up"
    /\ link' = [link EXCEPT ![s] = "peer"]
    /\ asked' = [asked EXCEPT ![s] = <<>>]
    /\ UNCHANGED <<inbound, pushes, lock, sharedVars, box, clientVars,
                   reader, polled, recalled>>

\* _safe_close by this side: the rest is lost, but for what a reader that is looking
\* at this socket may have in its buffer.
Shut(s) ==
    /\ link' = [link EXCEPT ![s] = "shut"]
    /\ asked' = [asked EXCEPT ![s] = <<>>]
    /\ inbound' = [inbound EXCEPT ![s] =
                      IF \E r \in Readers : reader[r].pc = "read" /\ reader[r].sock = s
                      THEN @ ELSE <<>>]

-----------------------------------------------------------------------------
(***************************************************************************)
(* A call: take the lock, have a session, send, wait, let go.              *)
(***************************************************************************)

Op(c) == script[c][at[c]]
Goto(c, p) == pc' = [pc EXCEPT ![c] = p] /\ UNCHANGED script
KeepClient == UNCHANGED <<at, tries, step, req, leaving>>

\* Initialize runs three prep commands whose failure is ignored, then Initialize
\* and the GetStatus that reseeds the SequenceID; the second pass begins with Abort.
Ladder == <<"FRC_GetStatus", "FRC_Reset", "FRC_GetStatus", "FRC_Initialize",
            "FRC_GetStatus">>
PrepSteps == 1..3
Command(c) ==
    CASE Op(c) = "get"  -> "FRC_GetStatus"
      [] Op(c) = "call" -> "FRC_Call"
      [] Op(c) = "stop" -> "FRC_Disconnect"
      [] OTHER -> IF tries[c] = 2 /\ step[c] = 1 THEN "FRC_Abort" ELSE Ladder[step[c]]

\* stop() has raised its signal and has not returned.
Waiting(c) == pc[c] \in {"release", "join", "joining"} /\ Op(c) = "stop"
Recall == recalled' = (recalled \/ (stopEvt /\ ~stopEvt' /\ \E d \in Clients : Waiting(d)))

\* A call begins whatever the other threads are doing: the supervisor's ladder and
\* reconnect() stop and start the client under the gripper's and the callers' requests.
Begin(c) ==
    /\ pc[c] = "idle" /\ at[c] <= Len(script[c])
    /\ Goto(c, "lock")
    /\ stopEvt' = (stopEvt /\ Op(c) # "start") /\ Recall
    /\ KeepClient
    /\ UNCHANGED <<wireVars, lock, sock, pending, ring, rxThread, box, reader, polled>>

\* start() opens whether or not a session is open; stop() says goodbye on one; the
\* others make sure of one (_ensure_open_locked).
Acquire(c) ==
    /\ pc[c] = "lock" /\ lock = None
    /\ lock' = c
    /\ Goto(c, CASE Op(c) = "stop" /\ sock = None -> "halt"
                 [] Op(c) = "start" \/ (Op(c) # "stop" /\ sock = None) -> "connect"
                 [] OTHER -> "register")
    /\ KeepClient
    /\ UNCHANGED <<wireVars, sharedVars, box, reader, polled, recalled>>

Alive(r) == reader[r].pc # "exited"

StartReader ==
    /\ FreeReaders # {}
    /\ stopEvt' = FALSE /\ rxThread' = First(FreeReaders)
    /\ reader' = [reader EXCEPT ![rxThread'].pc = "top"]

\* Mutant: a reader per session.
BugReaderPerSession == StartReader

\* _ensure_rx_thread: a thread that is registered and alive is kept.
EnsureReader ==
    IF rxThread # None /\ Alive(rxThread) THEN UNCHANGED <<rxThread, stopEvt, reader>>
    ELSE StartReader

\* Mutant: a new session starts with an empty ring.
BugRingCleared(c) ==
    /\ pc[c] = "connect" /\ FreeSocks # {}
    /\ LET s == First(FreeSocks)
       IN  link' = [link EXCEPT ![s] = "up"] /\ sock' = s
    /\ EnsureReader /\ Recall /\ ring' = <<>>
    /\ Goto(c, IF Op(c) = "start" THEN "release" ELSE "register")
    /\ KeepClient
    /\ UNCHANGED <<asked, inbound, pushes, lock, pending, box, polled>>

\* Connect_STMO on a bootstrap socket, then the redirect port; installs _sock.
OpenSession(c) ==
    /\ pc[c] = "connect" /\ FreeSocks # {}
    /\ LET s == First(FreeSocks)
       IN  link' = [link EXCEPT ![s] = "up"] /\ sock' = s
    /\ EnsureReader /\ Recall
    /\ Goto(c, IF Op(c) = "start" THEN "release" ELSE "register")
    /\ KeepClient
    /\ UNCHANGED <<asked, inbound, pushes, lock, pending, ring, box, polled>>

\* Unreachable (OSError, tried again by an exchange or a program_call), or refused
\* by the controller (RmiError, which ends the call).
OpenFails(c) ==
    /\ pc[c] = "connect"
    /\ \/ Op(c) \in {"get", "call"} /\ Goto(c, "oserror")
       \/ Goto(c, "release")
    /\ KeepClient
    /\ UNCHANGED <<wireVars, lock, sharedVars, box, reader, polled, recalled>>

\* The caller's last request is garbage, unless the RX thread is about to fill it.
DropBox(c) ==
    [q \in Reqs |-> IF q = req[c] /\ \A r \in Readers : reader[r].waiter # q
                    THEN "empty" ELSE box[q]]

\* The waiter is registered before the request is sent; program_call registers none.
\* The socket the call was sure of may be gone by now: an OSError in a request, a
\* failed assertion, which ends the call, in program_call.
Register(c) ==
    /\ pc[c] = "register"
    /\ CASE sock = None ->
              /\ Goto(c, IF Op(c) = "call" THEN "release" ELSE "oserror")
              /\ UNCHANGED <<pending, box, req>>
         [] sock # None /\ Op(c) = "call" ->
              Goto(c, "send") /\ UNCHANGED <<pending, box, req>>
         [] OTHER ->
              /\ Goto(c, "send") /\ FreeReqs # {}
              /\ LET q == First(FreeReqs)
                 IN  /\ req' = [req EXCEPT ![c] = q]
                     /\ pending' = [req |-> q, ident |-> Command(c)]
              /\ box' = DropBox(c)
    /\ UNCHANGED <<wireVars, lock, sock, ring, rxThread, stopEvt, at, tries, step,
                   leaving, reader, polled, recalled>>

Unregister(c) == pending' = IF pending.req = req[c] THEN NoRequest ELSE pending

SockIs(states) == sock # None /\ link[sock] \in states

\* sendall: a socket the peer has closed may still take the bytes.
Send(c) ==
    /\ pc[c] = "send"
    /\ \/ /\ SockIs({"up", "peer"})
          /\ asked' = IF SockIs({"peer"}) THEN asked
                      ELSE [asked EXCEPT ![sock] = Append(@, Command(c))]
          /\ Goto(c, IF Op(c) = "call" THEN "release" ELSE "wait")
          /\ UNCHANGED pending
       \/ /\ ~SockIs({"up"})
          /\ Goto(c, "oserror") /\ Unregister(c)
          /\ UNCHANGED asked
    /\ UNCHANGED <<link, inbound, pushes, lock, sock, ring, rxThread, stopEvt, box,
                   at, tries, step, req, leaving, reader,
                   polled, recalled>>

\* A reply that reports an error is refused, except by a prep command and the goodbye
\* of stop().
Tolerant(c) == Op(c) = "stop" \/ (Op(c) = "init" /\ step[c] \in PrepSteps)

\* inbox.get: something was delivered, or the deadline has passed.
Receive(c) ==
    /\ pc[c] = "wait" /\ box[req[c]] # "empty"
    /\ box' = [box EXCEPT ![req[c]] = "empty"]
    /\ IF box[req[c]] = "error" THEN Goto(c, "failed")
       ELSE \/ Goto(c, "answered")
            \/ ~Tolerant(c) /\ Goto(c, "refused")
    /\ KeepClient
    /\ UNCHANGED <<wireVars, lock, sharedVars, reader, polled, recalled>>

Expire(c) ==
    /\ pc[c] = "wait" /\ box[req[c]] = "empty"
    /\ Goto(c, "failed")
    /\ KeepClient
    /\ UNCHANGED <<wireVars, lock, sharedVars, box, reader, polled, recalled>>

KeepSocket == UNCHANGED <<link, asked, inbound, sock>>

\* _close_socket_locked
CloseSocket ==
    IF sock = None THEN KeepSocket ELSE Shut(sock) /\ sock' = None

\* The call goes on at p: as it is, with the next command of the ladder, or from
\* the start of its second try.
Continue(c, p) == Goto(c, p) /\ UNCHANGED <<tries, step>>
NextStep(c) ==
    Goto(c, "register") /\ step' = [step EXCEPT ![c] = @ + 1] /\ UNCHANGED tries
SecondTry(c, p) ==
    /\ tries[c] = 1 /\ tries' = [tries EXCEPT ![c] = 2]
    /\ step' = [step EXCEPT ![c] = 1]
    /\ Goto(c, p)

\* The waiter is withdrawn, unless the RX thread has taken it already; what follows
\* is the call's own affair.
Answered(c) ==
    /\ pc[c] = "answered" /\ Unregister(c)
    /\ CASE Op(c) = "init" /\ step[c] < Len(Ladder) -> NextStep(c)
         [] Op(c) = "stop" -> Continue(c, "halt")
         [] OTHER -> Continue(c, "release")
    /\ UNCHANGED <<wireVars, lock, sock, ring, rxThread, stopEvt, box, at, req, leaving,
                   reader, polled, recalled>>

\* The controller refused: never retried, but the ladder escalates to Abort.
Refused(c) ==
    /\ pc[c] = "refused" /\ Unregister(c)
    /\ IF Op(c) = "init" /\ tries[c] = 1
       THEN SecondTry(c, "register") ELSE Continue(c, "release")
    /\ UNCHANGED <<wireVars, lock, sock, ring, rxThread, stopEvt, box, at, req, leaving,
                   reader, polled, recalled>>

Failed(c) ==
    /\ pc[c] = "failed" /\ Unregister(c)
    /\ Goto(c, "oserror") /\ KeepClient
    /\ UNCHANGED <<wireVars, lock, sock, ring, rxThread, stopEvt, box, reader, polled, recalled>>

\* Mutant: an exchange is tried for as long as the transport fails.
BugGiveUpNever(c) ==
    /\ pc[c] = "oserror" /\ CloseSocket
    /\ Continue(c, "connect")
    /\ UNCHANGED <<pushes, lock, pending, ring, rxThread, stopEvt, box, at, req, leaving,
                   reader, polled, recalled>>

\* A transport error.  An exchange and a program_call drop the socket and try once
\* more; the ladder keeps whatever socket it has.
OnOSError(c) ==
    /\ pc[c] = "oserror"
    /\ CASE Op(c) \in {"get", "call"} ->
              /\ CloseSocket
              /\ SecondTry(c, "connect") \/ (tries[c] = 2 /\ Continue(c, "release"))
         [] Op(c) = "init" ->
              /\ KeepSocket
              /\ IF step[c] \in PrepSteps THEN NextStep(c)
                 ELSE \/ SecondTry(c, "register")
                      \/ tries[c] = 2 /\ Continue(c, "release")
         [] Op(c) = "stop" -> KeepSocket /\ Continue(c, "halt")
    /\ UNCHANGED <<pushes, lock, pending, ring, rxThread, stopEvt, box, at, req, leaving,
                   reader, polled, recalled>>

\* stop(): raise the signal and drop the socket, still under the lock.
Halt(c) ==
    /\ pc[c] = "halt"
    /\ stopEvt' = TRUE /\ CloseSocket
    /\ Goto(c, "release") /\ KeepClient
    /\ UNCHANGED <<pushes, lock, pending, ring, rxThread, box, reader, polled, recalled>>

Finished(c) ==
    /\ at' = [at EXCEPT ![c] = @ + 1]
    /\ tries' = [tries EXCEPT ![c] = 1] /\ step' = [step EXCEPT ![c] = 1]
    /\ req' = [req EXCEPT ![c] = None] /\ box' = DropBox(c)

Release(c) ==
    /\ pc[c] = "release"
    /\ lock' = None
    /\ IF Op(c) = "stop" THEN Goto(c, "join") /\ KeepClient /\ UNCHANGED box
       ELSE Goto(c, "idle") /\ Finished(c) /\ UNCHANGED leaving
    /\ UNCHANGED <<wireVars, sharedVars, reader, polled, recalled>>

\* _join_rx_thread, outside the lock: whatever thread is registered by now is
\* forgotten, then waited for.  Two seconds outlast every step of a thread that has
\* been told to stop, so only one that is not told, or is stuck for good, is given up on.
Forget(c) ==
    /\ pc[c] = "join"
    /\ rxThread' = None /\ leaving' = [leaving EXCEPT ![c] = rxThread]
    /\ Goto(c, "joining")
    /\ UNCHANGED <<wireVars, lock, sock, pending, ring, stopEvt, box, at, tries,
                   step, req, reader, polled, recalled>>

Stuck(r) == reader[r].pc \in {"put", "fail"} /\ box[reader[r].waiter] # "empty"

\* Nobody is going to empty the inbox it is stuck on.
Awaits(c, q) == pc[c] \in {"send", "wait"} /\ Op(c) # "call" /\ req[c] = q
Abandoned(r) == Stuck(r) /\ \A c \in Clients : ~Awaits(c, reader[r].waiter)

Joined(c) ==
    /\ pc[c] = "joining"
    /\ leaving[c] # None => ~Alive(leaving[c]) \/ ~stopEvt \/ Abandoned(leaving[c])
    /\ leaving' = [leaving EXCEPT ![c] = None]
    /\ Goto(c, "idle") /\ Finished(c)
    /\ UNCHANGED <<wireVars, lock, sharedVars, reader, polled, recalled>>

Held == Range(ring) \ {None}

\* poll_async_packets, by anyone at any time.
Poll ==
    /\ ring # <<>>
    /\ polled' = polled \cup Held
    /\ ring' = <<>>
    /\ UNCHANGED <<wireVars, lock, sock, pending, rxThread, stopEvt, box,
                   clientVars, reader, recalled>>

Client(c) ==
    \/ Begin(c) \/ Acquire(c) \/ OpenSession(c) \/ OpenFails(c) \/ Register(c)
    \/ Send(c) \/ Receive(c) \/ Expire(c) \/ Answered(c) \/ Refused(c) \/ Failed(c)
    \/ OnOSError(c) \/ Halt(c) \/ Release(c) \/ Forget(c) \/ Joined(c)

-----------------------------------------------------------------------------
(***************************************************************************)
(* The RX thread r.                                                        *)
(***************************************************************************)

Turn(r, p) == reader' = [reader EXCEPT ![r] = p]
At(p) == [pc |-> p, sock |-> None, pkt |-> NoPacket, waiter |-> None]

\* The head of the loop: the stop signal, then the current socket.
PickSocket(r) ==
    /\ reader[r].pc = "top"
    /\ IF stopEvt THEN Turn(r, At("exited"))
       ELSE sock # None /\ Turn(r, [At("read") EXCEPT !.sock = sock])
    /\ UNCHANGED <<wireVars, lock, sharedVars, box, clientVars, polled, recalled>>

\* _read_one_json: a packet, an unparsable line (skipped), an idle timeout, or the
\* end of the socket.
ReadPacket(r) ==
    /\ reader[r].pc = "read"
    /\ LET s == reader[r].sock IN
       \/ /\ inbound[s] # <<>>
          /\ inbound' = [inbound EXCEPT ![s] = IF link[s] = "shut" THEN <<>> ELSE Tail(@)]
          /\ \/ Turn(r, At("top"))
             \/ Turn(r, [At("dispatch") EXCEPT !.pkt = Head(inbound[s])])
       \/ /\ link[s] = "up" /\ inbound[s] = <<>> /\ Turn(r, At("top"))
          /\ UNCHANGED inbound
       \/ /\ link[s] # "up" /\ Turn(r, [At("error") EXCEPT !.sock = s])
          /\ inbound' = [inbound EXCEPT ![s] = <<>>]
    /\ UNCHANGED <<link, asked, pushes, lock, sharedVars, box, clientVars, polled, recalled>>

\* Mutant: the ring has no limit.
BugRingUnbounded(p) == Append(ring, p.push)

\* _stash_async_packet: a full ring loses its oldest packet.
Stashed(p) == Append(IF Len(ring) = RingSize THEN Tail(ring) ELSE ring, p.push)

\* A push goes to the ring; a reply to the pending request, when the identifier it
\* echoes is that request's; anything else is an orphan, and goes to the ring too.
Dispatch(r) ==
    /\ reader[r].pc = "dispatch"
    /\ LET p == reader[r].pkt IN
       IF p.ident = pending.ident
       THEN /\ Turn(r, [At("put") EXCEPT !.waiter = pending.req])
            /\ UNCHANGED ring
       ELSE /\ Turn(r, At("top"))
            /\ ring' = Stashed(p)
    /\ UNCHANGED <<wireVars, lock, sock, pending, rxThread, stopEvt, box, clientVars,
                   polled, recalled>>

\* inbox.put blocks while the inbox holds an answer.
Put(r) ==
    /\ reader[r].pc \in {"put", "fail"}
    /\ LET q == reader[r].waiter
           kept == q = pending.req \/ \E c \in Clients : req[c] = q
       IN  /\ box[q] = "empty"
           /\ box' = [box EXCEPT ![q] = IF ~kept THEN "empty"
                                        ELSE IF reader[r].pc = "put" THEN "reply" ELSE "error"]
    /\ Turn(r, At("top"))
    /\ UNCHANGED <<wireVars, lock, sharedVars, clientVars, polled, recalled>>

\* _on_socket_error: the socket is dropped if it still is the session's; the pending
\* request is failed, whichever socket it went out on.
SocketError(r) ==
    /\ reader[r].pc = "error"
    /\ IF sock = reader[r].sock THEN CloseSocket ELSE KeepSocket
    /\ pending' = NoRequest
    /\ Turn(r, IF pending = NoRequest THEN At("top")
               ELSE [At("fail") EXCEPT !.waiter = pending.req])
    /\ UNCHANGED <<pushes, lock, ring, rxThread, stopEvt, box,
                   clientVars, polled, recalled>>

Reader(r) ==
    PickSocket(r) \/ ReadPacket(r) \/ Dispatch(r) \/ Put(r) \/ SocketError(r)

Next ==
    \/ \E c \in Clients : Client(c)
    \/ \E r \in Readers : Reader(r)
    \/ \E s \in Socks : Answer(s) \/ PushFault(s) \/ PeerCloses(s)
    \/ Poll

Spec == Init /\ [][Next]_vars

\* Threads run, and a free lock is not withheld from a thread for ever; the
\* controller and the network promise nothing.
Fairness ==
    /\ \A c \in Clients : WF_vars(Client(c)) /\ SF_vars(Acquire(c))
    /\ \A r \in Readers : WF_vars(Reader(r))

FairSpec == Spec /\ Fairness

-----------------------------------------------------------------------------
(***************************************************************************)
(* Properties.                                                             *)
(***************************************************************************)

\* Every variable keeps to the values the code can give it.
TypeOK ==
    /\ link \in [Socks -> {"up", "peer", "shut"}]
    /\ asked \in [Socks -> Seq(Idents)]
    /\ inbound \in [Socks -> Seq(Packets)]
    /\ pushes \in 0..MaxPushes /\ polled \subseteq Pushes /\ recalled \in BOOLEAN
    /\ lock \in Clients \cup {None} /\ sock \in Socks \cup {None}
    /\ pending \in [req : Reqs, ident : Idents] \cup {NoRequest}
    /\ rxThread \in Readers \cup {None} /\ stopEvt \in BOOLEAN
    /\ ring \in Seq(Pushes \cup {None}) /\ Len(ring) <= RingSize
    /\ box \in [Reqs -> {"empty", "reply", "error"}]
    /\ at \in [Clients -> Nat] /\ tries \in [Clients -> 1..2]
    /\ step \in [Clients -> 1..Len(Ladder)]
    /\ req \in [Clients -> Reqs \cup {None}]
    /\ leaving \in [Clients -> Readers \cup {None}]
    /\ reader \in [Readers -> [pc : {"exited", "top", "read", "dispatch", "put", "fail",
                                      "error"},
                                sock : Socks \cup {None}, pkt : Packets,
                                waiter : Reqs \cup {None}]]

\* "The sole reader of the redirect session socket": at most one RX thread is reading,
\* whatever was reopened, stopped and started at once (one blocked on a full inbox is
\* not), unless the signal of a stop() that had not returned was withdrawn, by a start()
\* or by the reader a reopen starts: its reader then never hears of it.
SoleReader == recalled \/ Cardinality({r \in Readers : Alive(r) /\ ~Stuck(r)}) <= 1

\* A fault the controller pushed leaves the ring only into the hands of a poller, or
\* as the oldest packet of a full ring: closing, reopening and stopping the session
\* keep it.
RingSurvives ==
    [][Held \subseteq Held' \cup polled'
          \cup (IF Len(ring) = RingSize /\ Len(ring') = RingSize THEN {ring[1]} ELSE {})]_vars

\* Every call returns, and so every thread gets through its calls: a reply that never
\* comes, a dead socket, a refused reopen or a reader that will not stop cannot hold a
\* caller, or the lock, for ever.
CallsReturn == <>(\A c \in Clients : at[c] > Len(script[c]))
=============================================================================
