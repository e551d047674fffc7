-------------------------- MODULE RmiClientProofs ---------------------------
(***************************************************************************)
(* Proofs about RmiClient for every set of clients, every script and every *)
(* bound: its types, what becomes of a pushed fault, and, until the signal *)
(* of a stop() is withdrawn under it, the sole reader of the session       *)
(* socket.                                                                 *)
(***************************************************************************)
EXTENDS RmiClient, FiniteSetTheorems, TLAPS

\* TypeOK, by what a step may change of it.
WireOK ==
    /\ link \in [Socks -> {"up", "peer", "shut"}]
    /\ asked \in [Socks -> Seq(Idents)]
    /\ inbound \in [Socks -> Seq(Packets)]
    /\ pushes \in 0..MaxPushes /\ sock \in Socks \cup {None}

ThreadOK ==
    /\ lock \in Clients \cup {None} /\ rxThread \in Readers \cup {None}
    /\ stopEvt \in BOOLEAN

RequestOK ==
    /\ pending \in [req : Reqs, ident : Idents] \cup {NoRequest}
    /\ box \in [Reqs -> {"empty", "reply", "error"}]
    /\ req \in [Clients -> Reqs \cup {None}]

RingOK ==
    /\ ring \in Seq(Pushes \cup {None}) /\ Len(ring) <= RingSize
    /\ polled \subseteq Pushes

CountOK ==
    /\ at \in [Clients -> Nat] /\ tries \in [Clients -> 1..2]
    /\ step \in [Clients -> 1..5]
    /\ leaving \in [Clients -> Readers \cup {None}]

\* A reader that reads has a socket, one that delivers has a request to deliver to.
ReaderPlaces == {"exited", "top", "read", "dispatch", "put", "fail", "error"}
ReaderStates ==
    [pc : ReaderPlaces, sock : Socks \cup {None}, pkt : Packets, waiter : Reqs \cup {None}]
ReaderFits(p) ==
    /\ p.pc = "read" => p.sock \in Socks
    /\ p.pc \in {"put", "fail"} => p.waiter \in Reqs

ReaderOK ==
    /\ reader \in [Readers -> ReaderStates]
    /\ \A r \in Readers : ReaderFits(reader[r])

\* A thread in a call is in one of its script, and at a place which that call visits.
Places == {"idle", "lock", "connect", "register", "send", "wait", "answered", "refused",
           "failed", "oserror", "halt", "release", "join", "joining"}
InExchange == {"send", "wait", "answered", "refused", "failed"}
Visits(op, p) ==
    /\ p \in InExchange \cup {"register", "oserror"} => op # "start"
    /\ p \in {"connect", "refused"} => op # "stop"
    /\ p \in {"halt", "join", "joining"} => op = "stop"
    /\ p = "wait" => op # "call"

CallInv ==
    /\ script \in [Clients -> Seq(Calls)]
    /\ pc \in [Clients -> Places]
    /\ at \in [Clients -> Nat \ {0}]
    /\ \A c \in Clients :
          pc[c] # "idle" => at[c] <= Len(script[c]) /\ Visits(Op(c), pc[c])

RecallOK == recalled \in BOOLEAN

TypeInv ==
    /\ WireOK /\ ThreadOK /\ RequestOK /\ RingOK /\ CountOK /\ ReaderOK /\ CallInv
    /\ RecallOK

-----------------------------------------------------------------------------
(***************************************************************************)
(* The names taken from a set of numbers, and the wire.                    *)
(***************************************************************************)

\* First picks a member: a set of numbers that is not empty has a least one, because
\* the intervals up to its members have one that is contained in no other.
LEMMA FirstIn ==
    ASSUME NEW S, S \subseteq Nat, S # {}
    PROVE  First(S) \in S
  <1> DEFINE T == {1..n : n \in S}
  <1>1. T \subseteq FiniteSubsetsOf(Nat) /\ T # {}
    <2>1. \A n \in S : 1..n \in SUBSET Nat /\ IsFiniteSet(1..n)
      BY FS_Interval
    <2> QED
      BY <2>1 DEF FiniteSubsetsOf
  <1>2. PICK U \in T : \A V \in T : <<V, U>> \notin StrictSubsetOrdering(Nat)
    <2>1. IsWellFoundedOn(StrictSubsetOrdering(Nat), FiniteSubsetsOf(Nat))
      BY FS_StrictSubsetOrderingWellFounded
    <2> HIDE DEF T
    <2> QED
      BY <1>1, <2>1, WFMin
  <1>3. PICK n \in S : U = 1..n
    OBVIOUS
  <1>4. ASSUME NEW m \in S, ~(n <= m)
        PROVE  FALSE
    <2>1. m \in Nat /\ n \in Nat
      OBVIOUS
    <2>2. 1..m \in SUBSET Nat /\ 1..n \in SUBSET Nat
      OBVIOUS
    <2>3. n \in 1..n /\ n \notin 1..m
      BY <1>4, <2>1
    <2>4. 1..m \subseteq 1..n /\ 1..m # 1..n
      BY <1>4, <2>1, <2>3
    <2>5. <<1..m, 1..n>> \in StrictSubsetOrdering(Nat)
      BY <2>2, <2>4 DEF StrictSubsetOrdering
    <2>6. 1..m \in T
      OBVIOUS
    <2> QED
      BY <1>2, <1>3, <2>5, <2>6
  <1>5. \A m \in S : n <= m
    BY <1>4
  <1> QED
    BY <1>5 DEF First

LEMMA FreeNames ==
    /\ FreeSocks # {} => First(FreeSocks) \in FreeSocks
    /\ FreeReqs # {} => First(FreeReqs) \in FreeReqs
    /\ FreeReaders # {} => First(FreeReaders) \in FreeReaders
  <1>1. FreeSocks \subseteq Nat /\ FreeReqs \subseteq Nat /\ FreeReaders \subseteq Nat
    BY RmiAssumption DEF FreeSocks, FreeReqs, FreeReaders, Socks, Reqs, Readers
  <1> QED
    BY <1>1, FirstIn

LEMMA TypeImplied ==
    ASSUME TypeInv
    PROVE  TypeOK
  <1>1. Len(Ladder) = 5
    BY DEF Ladder
  <1> QED
    BY <1>1 DEF TypeInv, TypeOK, WireOK, ThreadOK, RequestOK, RingOK, CountOK, ReaderOK,
                RecallOK, ReaderStates, ReaderPlaces

LEMMA TypeInit == Init => TypeInv
  <1> SUFFICES ASSUME Init PROVE TypeInv
    OBVIOUS
  <1>1. WireOK
    BY RmiAssumption DEF Init, WireOK
  <1>2. ThreadOK
    BY DEF Init, ThreadOK
  <1>3. RequestOK
    BY DEF Init, RequestOK
  <1>4. RingOK
    BY RmiAssumption DEF Init, RingOK
  <1>5. CountOK
    BY DEF Init, CountOK
  <1>6. ReaderOK
    BY DEF Init, ReaderOK, ReaderStates, ReaderPlaces, ReaderFits, NoPacket, Push, Packets
  <1>7. CallInv
    BY RmiAssumption DEF Init, CallInv, Places
  <1>8. RecallOK
    BY DEF Init, RecallOK
  <1> QED
    BY <1>1, <1>2, <1>3, <1>4, <1>5, <1>6, <1>7, <1>8 DEF TypeInv

\* A thread in a call knows which.
LEMMA OpIsCall ==
    ASSUME TypeInv, NEW c \in Clients, pc[c] # "idle"
    PROVE  /\ Op(c) \in Calls /\ Visits(Op(c), pc[c])
           /\ pc[c] = "oserror" => Op(c) \in {"get", "call", "init", "stop"}
  <1>1. script[c] \in Seq(Calls) /\ at[c] \in 1..Len(script[c])
    BY DEF TypeInv, CallInv
  <1>2. Op(c) \in Calls
    BY <1>1 DEF Op
  <1>3. Visits(Op(c), pc[c])
    BY DEF TypeInv, CallInv
  <1> QED
    BY <1>2, <1>3 DEF Visits, Calls

LEMMA EmptySeqs == <<>> \in Seq(Idents) /\ <<>> \in Seq(Packets)
  OBVIOUS

LEMMA SetFits ==
    ASSUME NEW D, NEW R, NEW f \in [D -> R], NEW d, NEW x \in R
    PROVE  [f EXCEPT ![d] = x] \in [D -> R]
  OBVIOUS

\* Dropping the socket, whoever does it.
LEMMA CloseTyped ==
    ASSUME WireOK, CloseSocket \/ KeepSocket, pushes' = pushes
    PROVE  WireOK'
  <1>1. CASE KeepSocket
    BY <1>1 DEF KeepSocket, WireOK
  <1>2. CASE CloseSocket /\ sock # None
    <2>1. sock \in Socks /\ sock' = None
      BY <1>2 DEF CloseSocket, WireOK
    <2>2. link' \in [Socks -> {"up", "peer", "shut"}]
      BY <1>2 DEF CloseSocket, Shut, WireOK
    <2>3. asked' \in [Socks -> Seq(Idents)]
      BY <1>2, EmptySeqs, SetFits DEF CloseSocket, Shut, WireOK
    <2>4. inbound' \in [Socks -> Seq(Packets)]
      <3>1. PICK q : /\ q = <<>> \/ q = inbound[sock]
                     /\ inbound' = [inbound EXCEPT ![sock] = q]
        BY <1>2 DEF CloseSocket, Shut
      <3>2. q \in Seq(Packets)
        BY <2>1, <3>1, EmptySeqs DEF WireOK
      <3> QED
        BY <3>1, <3>2, SetFits DEF WireOK
    <2> QED
      BY <2>1, <2>2, <2>3, <2>4 DEF WireOK
  <1> QED
    BY <1>1, <1>2 DEF CloseSocket

LEMMA CommandTyped ==
    ASSUME NEW c \in Clients, CountOK
    PROVE  Command(c) \in Idents
  <1>1. step[c] \in 1..5
    BY DEF CountOK
  <1>2. \A i \in 1..5 : Ladder[i] \in Idents
    BY DEF Ladder, Idents
  <1> QED
    BY <1>1, <1>2 DEF Command, Idents

\* The wire, the pushes and the current socket.
LEMMA WireStep ==
    ASSUME TypeInv, [Next]_vars
    PROVE  WireOK'
  <1>0. WireOK /\ ReaderOK
    BY DEF TypeInv
  <1>1. ASSUME NEW s \in Socks, Answer(s) PROVE WireOK'
    <2>1. Head(asked[s]) \in Idents /\ Tail(asked[s]) \in Seq(Idents)
      BY <1>0, <1>1 DEF WireOK, Answer
    <2>2. Reply(Head(asked[s])) \in Packets
      BY <2>1 DEF Reply, Packets
    <2>3. inbound' \in [Socks -> Seq(Packets)]
      BY <1>0, <1>1, <2>2 DEF WireOK, Answer
    <2>4. asked' \in [Socks -> Seq(Idents)]
      BY <1>0, <1>1, <2>1 DEF WireOK, Answer
    <2>5. UNCHANGED <<link, pushes, sock>>
      BY <1>1 DEF Answer, sharedVars
    <2> QED
      BY <1>0, <2>3, <2>4, <2>5 DEF WireOK
  <1>2. ASSUME NEW s \in Socks, PushFault(s) PROVE WireOK'
    <2>1. pushes' \in Pushes /\ pushes' \in 0..MaxPushes
      BY <1>0, <1>2, RmiAssumption DEF WireOK, PushFault, Pushes
    <2>2. Push(pushes') \in Packets
      BY <2>1 DEF Push, Packets
    <2>3. inbound' \in [Socks -> Seq(Packets)]
      BY <1>0, <1>2, <2>2 DEF WireOK, PushFault
    <2>4. UNCHANGED <<link, asked, sock>>
      BY <1>2 DEF PushFault, sharedVars
    <2> QED
      BY <1>0, <2>1, <2>3, <2>4 DEF WireOK
  <1>3. ASSUME NEW s \in Socks, PeerCloses(s) PROVE WireOK'
    BY <1>0, <1>3 DEF WireOK, PeerCloses, sharedVars
  <1>4. ASSUME NEW c \in Clients, OpenSession(c) PROVE WireOK'
    <2>1. First(FreeSocks) \in Socks
      BY <1>4, FreeNames DEF OpenSession, FreeSocks
    <2>2. /\ sock' = First(FreeSocks)
          /\ link' = [link EXCEPT ![First(FreeSocks)] = "up"]
      BY <1>4 DEF OpenSession
    <2>3. UNCHANGED <<asked, inbound, pushes>>
      BY <1>4 DEF OpenSession
    <2>4. link' \in [Socks -> {"up", "peer", "shut"}]
      BY <1>0, <2>2 DEF WireOK
    <2> QED
      BY <1>0, <2>1, <2>2, <2>3, <2>4 DEF WireOK
  <1>5. ASSUME NEW c \in Clients, OnOSError(c) PROVE WireOK'
    <2>1. pc[c] # "idle" /\ pc[c] = "oserror"
      BY <1>5 DEF OnOSError
    <2>2. Op(c) \in {"get", "call", "init", "stop"}
      BY <2>1, OpIsCall
    <2>3. CloseSocket \/ KeepSocket
      BY <1>5, <2>2 DEF OnOSError
    <2> QED
      BY <1>0, <1>5, <2>3, CloseTyped DEF OnOSError
  <1>6. ASSUME NEW c \in Clients, Halt(c) PROVE WireOK'
    BY <1>0, <1>6, CloseTyped DEF Halt
  <1>7. ASSUME NEW c \in Clients, Send(c) PROVE WireOK'
    <2>1. UNCHANGED <<link, inbound, pushes, sock>>
      BY <1>7 DEF Send
    <2>2. asked' = asked \/ asked' = [asked EXCEPT ![sock] = Append(@, Command(c))]
      BY <1>7 DEF Send
    <2>3. Command(c) \in Idents
      BY CommandTyped DEF TypeInv
    <2>4. asked' \in [Socks -> Seq(Idents)]
      <3>1. CASE sock \in Socks
        <4>1. asked[sock] \in Seq(Idents)
          BY <1>0, <3>1 DEF WireOK
        <4>2. Append(asked[sock], Command(c)) \in Seq(Idents)
          BY <2>3, <4>1
        <4> QED
          BY <1>0, <2>2, <4>2, SetFits DEF WireOK
      <3>2. CASE sock \notin Socks
        BY <1>0, <2>2, <3>2 DEF WireOK
      <3> QED
        BY <3>1, <3>2
    <2> QED
      BY <1>0, <2>1, <2>4 DEF WireOK
  <1>8. ASSUME NEW r \in Readers, ReadPacket(r) PROVE WireOK'
    <2>1. UNCHANGED <<link, asked, pushes, sock>>
      BY <1>8 DEF ReadPacket, sharedVars
    <2>2. PICK s : s = reader[r].sock
      OBVIOUS
    <2>3. \/ inbound' = inbound
          \/ inbound' = [inbound EXCEPT ![s] = <<>>]
          \/ inbound[s] # <<>> /\ inbound' = [inbound EXCEPT ![s] = Tail(@)]
      BY <1>8, <2>2 DEF ReadPacket
    <2>4. s \in Socks
      BY <1>0, <1>8, <2>2 DEF ReaderOK, ReaderFits, ReadPacket
    <2>5. inbound' \in [Socks -> Seq(Packets)]
      <3>1. inbound[s] \in Seq(Packets)
        BY <1>0, <2>4 DEF WireOK
      <3>2. inbound[s] # <<>> => Tail(inbound[s]) \in Seq(Packets)
        BY <3>1
      <3> QED
        BY <1>0, <2>3, <3>2, EmptySeqs, SetFits DEF WireOK
    <2> QED
      BY <1>0, <2>1, <2>5 DEF WireOK
  <1>9. ASSUME NEW r \in Readers, SocketError(r) PROVE WireOK'
    BY <1>0, <1>9, CloseTyped DEF SocketError
  <1>10. ASSUME NEW c \in Clients,
                \/ Begin(c) \/ Acquire(c) \/ OpenFails(c) \/ Register(c) \/ Receive(c)
                \/ Expire(c) \/ Answered(c) \/ Refused(c) \/ Failed(c) \/ Release(c)
                \/ Forget(c) \/ Joined(c)
         PROVE  UNCHANGED <<link, asked, inbound, pushes, sock>>
    BY <1>10 DEF Begin, Acquire, OpenFails, Register, Receive, Expire, Answered, Refused,
                 Failed, Release, Forget, Joined, wireVars, sharedVars
  <1>11. ASSUME NEW r \in Readers, PickSocket(r) \/ Dispatch(r) \/ Put(r)
         PROVE  UNCHANGED <<link, asked, inbound, pushes, sock>>
    BY <1>11 DEF PickSocket, Dispatch, Put, wireVars, sharedVars
  <1>12. CASE Poll \/ UNCHANGED vars
    BY <1>0, <1>12 DEF Poll, vars, wireVars, sharedVars, WireOK
  <1>13. ASSUME UNCHANGED <<link, asked, inbound, pushes, sock>> PROVE WireOK'
    BY <1>0, <1>13 DEF WireOK
  <1> QED
    BY <1>1, <1>2, <1>3, <1>4, <1>5, <1>6, <1>7, <1>8, <1>9, <1>10, <1>11, <1>12, <1>13
       DEF Next, Client, Reader

\* _ensure_rx_thread keeps the registered reader, or registers one that had exited.
LEMMA EnsureStep ==
    ASSUME EnsureReader
    PROVE  \/ UNCHANGED <<rxThread, stopEvt, reader>>
           \/ /\ rxThread = None \/ ~Alive(rxThread)
              /\ rxThread' \in FreeReaders /\ stopEvt' = FALSE
              /\ reader' = [reader EXCEPT ![rxThread'].pc = "top"]
  BY FreeNames DEF EnsureReader, StartReader

\* The lock, the registered reader and the stop signal.
LEMMA ThreadStep ==
    ASSUME TypeInv, [Next]_vars
    PROVE  ThreadOK'
  <1>0. ThreadOK
    BY DEF TypeInv
  <1>1. ASSUME NEW c \in Clients, Begin(c) PROVE ThreadOK'
    BY <1>0, <1>1 DEF Begin, ThreadOK
  <1>2. ASSUME NEW c \in Clients, Acquire(c) \/ Release(c) PROVE ThreadOK'
    BY <1>0, <1>2 DEF Acquire, Release, ThreadOK, sharedVars
  <1>3. ASSUME NEW c \in Clients, OpenSession(c) PROVE ThreadOK'
    <2>1. EnsureReader /\ lock' = lock
      BY <1>3 DEF OpenSession
    <2>2. CASE UNCHANGED <<rxThread, stopEvt, reader>>
      BY <1>0, <2>1, <2>2 DEF ThreadOK
    <2>3. CASE rxThread' \in FreeReaders /\ stopEvt' = FALSE
      BY <1>0, <2>1, <2>3 DEF ThreadOK, FreeReaders
    <2> QED
      BY <2>1, <2>2, <2>3, EnsureStep
  <1>4. ASSUME NEW c \in Clients, Halt(c) \/ Forget(c) PROVE ThreadOK'
    BY <1>0, <1>4 DEF Halt, Forget, ThreadOK
  <1>5. ASSUME NEW c \in Clients,
               \/ OpenFails(c) \/ Register(c) \/ Send(c) \/ Receive(c) \/ Expire(c)
               \/ Answered(c) \/ Refused(c) \/ Failed(c) \/ OnOSError(c) \/ Joined(c)
        PROVE  UNCHANGED <<lock, rxThread, stopEvt>>
    BY <1>5 DEF OpenFails, Register, Send, Receive, Expire, Answered, Refused, Failed,
                OnOSError, Joined, sharedVars
  <1>6. ASSUME NEW r \in Readers, Reader(r)
        PROVE  UNCHANGED <<lock, rxThread, stopEvt>>
    BY <1>6 DEF Reader, PickSocket, ReadPacket, Dispatch, Put, SocketError, sharedVars
  <1>7. ASSUME NEW s \in Socks, Answer(s) \/ PushFault(s) \/ PeerCloses(s)
        PROVE  UNCHANGED <<lock, rxThread, stopEvt>>
    BY <1>7 DEF Answer, PushFault, PeerCloses, sharedVars
  <1>8. CASE Poll \/ UNCHANGED vars
    BY <1>0, <1>8 DEF Poll, vars, sharedVars, ThreadOK
  <1>9. ASSUME UNCHANGED <<lock, rxThread, stopEvt>> PROVE ThreadOK'
    BY <1>0, <1>9 DEF ThreadOK
  <1> QED
    BY <1>1, <1>2, <1>3, <1>4, <1>5, <1>6, <1>7, <1>8, <1>9 DEF Next, Client

\* Requests: the pending one, every inbox, and the request of every client.
LEMMA UnregisterStep ==
    ASSUME NEW c \in Clients, Unregister(c)
    PROVE  pending' = pending \/ pending' = NoRequest
  BY DEF Unregister

LEMMA DropTyped ==
    ASSUME RequestOK, NEW c \in Clients
    PROVE  /\ DropBox(c) \in [Reqs -> {"empty", "reply", "error"}]
           /\ \A q \in Reqs : DropBox(c)[q] = box[q] \/ q = req[c]
           /\ \A r \in Readers : reader[r].waiter \in Reqs
                 => DropBox(c)[reader[r].waiter] = box[reader[r].waiter]
  BY DEF DropBox, RequestOK

LEMMA FinishedStep ==
    ASSUME RequestOK, NEW c \in Clients, Finished(c), pending' = pending
    PROVE  RequestOK'
  <1>1. req' \in [Clients -> Reqs \cup {None}]
    BY DEF Finished, RequestOK
  <1>2. box' \in [Reqs -> {"empty", "reply", "error"}]
    BY DropTyped DEF Finished
  <1> QED
    BY <1>1, <1>2 DEF RequestOK

LEMMA RequestStep ==
    ASSUME TypeInv, [Next]_vars
    PROVE  RequestOK'
  <1>0. RequestOK
    BY DEF TypeInv
  <1>1. ASSUME NEW c \in Clients, Register(c) PROVE RequestOK'
    <2>1. CASE UNCHANGED <<pending, box, req>>
      BY <1>0, <2>1 DEF RequestOK
    <2>2. CASE /\ FreeReqs # {} /\ box' = DropBox(c)
               /\ req' = [req EXCEPT ![c] = First(FreeReqs)]
               /\ pending' = [req |-> First(FreeReqs), ident |-> Command(c)]
      <3>1. First(FreeReqs) \in Reqs
        BY <2>2, FreeNames DEF FreeReqs
      <3>2. req' \in [Clients -> Reqs \cup {None}]
        BY <1>0, <2>2, <3>1 DEF RequestOK
      <3>3. Command(c) \in Idents
        BY CommandTyped DEF TypeInv
      <3>4. box' \in [Reqs -> {"empty", "reply", "error"}]
        BY <1>0, <2>2, DropTyped
      <3> QED
        BY <2>2, <3>1, <3>2, <3>3, <3>4 DEF RequestOK
    <2> QED
      BY <1>1, <2>1, <2>2 DEF Register
  <1>2. ASSUME NEW c \in Clients, Send(c) \/ Answered(c) \/ Refused(c) \/ Failed(c)
        PROVE  RequestOK'
    <2>1. UNCHANGED <<box, req>>
      BY <1>2 DEF Send, Answered, Refused, Failed, KeepClient
    <2>2. pending' = pending \/ pending' = NoRequest
      BY <1>2, UnregisterStep DEF Send, Answered, Refused, Failed
    <2> QED
      BY <1>0, <2>1, <2>2 DEF RequestOK
  <1>3. ASSUME NEW c \in Clients, Receive(c) PROVE RequestOK'
    <2>1. UNCHANGED <<pending, req>>
      BY <1>3 DEF Receive, KeepClient, sharedVars
    <2>2. box' = [box EXCEPT ![req[c]] = "empty"]
      BY <1>3 DEF Receive
    <2> QED
      BY <1>0, <2>1, <2>2 DEF RequestOK
  <1>4. ASSUME NEW c \in Clients, Release(c) PROVE RequestOK'
    <2>1. pending' = pending
      BY <1>4 DEF Release, sharedVars
    <2>2. CASE KeepClient /\ UNCHANGED box
      BY <1>0, <2>1, <2>2 DEF RequestOK, KeepClient
    <2>3. CASE Finished(c)
      BY <1>0, <2>1, <2>3, FinishedStep
    <2> QED
      BY <1>4, <2>2, <2>3 DEF Release
  <1>5. ASSUME NEW c \in Clients, Joined(c) PROVE RequestOK'
    BY <1>0, <1>5, FinishedStep DEF Joined, sharedVars
  <1>6. ASSUME NEW r \in Readers, Put(r) PROVE RequestOK'
    <2>1. UNCHANGED <<pending, req>>
      BY <1>6 DEF Put, sharedVars, clientVars
    <2>2. \/ box' = [box EXCEPT ![reader[r].waiter] = "empty"]
          \/ box' = [box EXCEPT ![reader[r].waiter] = "reply"]
          \/ box' = [box EXCEPT ![reader[r].waiter] = "error"]
      BY <1>6 DEF Put
    <2> QED
      BY <1>0, <2>1, <2>2 DEF RequestOK
  <1>7. ASSUME NEW r \in Readers, SocketError(r) PROVE RequestOK'
    BY <1>0, <1>7 DEF SocketError, clientVars, RequestOK
  <1>8. ASSUME NEW c \in Clients,
               \/ Begin(c) \/ Acquire(c) \/ OpenSession(c) \/ OpenFails(c) \/ Expire(c)
               \/ OnOSError(c) \/ Halt(c) \/ Forget(c)
        PROVE  UNCHANGED <<pending, box, req>>
    BY <1>8 DEF Begin, Acquire, OpenSession, OpenFails, Expire, OnOSError, Halt, Forget,
                KeepClient, sharedVars
  <1>9. ASSUME NEW r \in Readers, PickSocket(r) \/ ReadPacket(r) \/ Dispatch(r)
        PROVE  UNCHANGED <<pending, box, req>>
    BY <1>9 DEF PickSocket, ReadPacket, Dispatch, sharedVars, clientVars
  <1>10. ASSUME NEW s \in Socks, Answer(s) \/ PushFault(s) \/ PeerCloses(s)
         PROVE  UNCHANGED <<pending, box, req>>
    BY <1>10 DEF Answer, PushFault, PeerCloses, sharedVars, clientVars
  <1>11. CASE Poll \/ UNCHANGED vars
    BY <1>0, <1>11 DEF Poll, vars, sharedVars, clientVars, RequestOK
  <1>12. ASSUME UNCHANGED <<pending, box, req>> PROVE RequestOK'
    BY <1>0, <1>12 DEF RequestOK
  <1> QED
    BY <1>1, <1>2, <1>3, <1>4, <1>5, <1>6, <1>7, <1>8, <1>9, <1>10, <1>11, <1>12
       DEF Next, Client, Reader

-----------------------------------------------------------------------------
(***************************************************************************)
(* The ring of pushed faults.                                              *)
(***************************************************************************)

\* Only a poll and a stashed packet change the ring; a poll hands over all of it.
LEMMA RingChanges ==
    ASSUME [Next]_vars
    PROVE  \/ UNCHANGED <<ring, polled>>
           \/ ring' = <<>> /\ polled' = polled \cup Held
           \/ \E r \in Readers : ring' = Stashed(reader[r].pkt) /\ UNCHANGED polled
  <1>1. ASSUME NEW c \in Clients, Client(c) PROVE UNCHANGED <<ring, polled>>
    BY <1>1 DEF Client, Begin, Acquire, OpenSession, OpenFails, Register, Send, Receive, Expire,
                Answered, Refused, Failed, OnOSError, Halt, Release, Forget, Joined, sharedVars
  <1>2. ASSUME NEW r \in Readers, Dispatch(r)
        PROVE  /\ ring' = ring \/ ring' = Stashed(reader[r].pkt)
               /\ UNCHANGED polled
    BY <1>2 DEF Dispatch
  <1>3. ASSUME NEW r \in Readers,
               PickSocket(r) \/ ReadPacket(r) \/ Put(r) \/ SocketError(r)
        PROVE  UNCHANGED <<ring, polled>>
    BY <1>3 DEF PickSocket, ReadPacket, Put, SocketError, sharedVars
  <1>4. ASSUME NEW s \in Socks, Answer(s) \/ PushFault(s) \/ PeerCloses(s)
        PROVE  UNCHANGED <<ring, polled>>
    BY <1>4 DEF Answer, PushFault, PeerCloses, sharedVars
  <1>5. CASE Poll
    BY <1>5 DEF Poll
  <1>6. CASE UNCHANGED vars
    BY <1>6 DEF vars, sharedVars
  <1> QED
    BY <1>1, <1>2, <1>3, <1>4, <1>5, <1>6 DEF Next, Reader

\* A stashed packet comes last; it costs the oldest one, and only of a full ring.
LEMMA StashKeeps ==
    ASSUME RingOK, NEW p \in Packets
    PROVE  /\ Stashed(p) \in Seq(Pushes \cup {None}) /\ Len(Stashed(p)) <= RingSize
           /\ Len(ring) = RingSize => Len(Stashed(p)) = RingSize
           /\ Range(ring) \subseteq Range(Stashed(p))
                 \cup (IF Len(ring) = RingSize THEN {ring[1]} ELSE {})
  <1>0. p.push \in Pushes \cup {None} /\ RingSize \in Nat \ {0}
    BY RmiAssumption DEF Packets
  <1> DEFINE x == p.push
             R == Pushes \cup {None}
  <1>1. ring \in Seq(R) /\ Len(ring) <= RingSize /\ x \in R
    BY <1>0 DEF RingOK
  <1> HIDE DEF x, R
  <1>2. CASE Len(ring) = RingSize
    <2>1. ring # <<>> /\ Len(ring) \in Nat \ {0}
      BY <1>0, <1>1, <1>2
    <2>2. PICK t : t = Tail(ring)
      OBVIOUS
    <2>3. /\ t \in Seq(R) /\ Len(t) = Len(ring) - 1
          /\ \A i \in 1..Len(t) : t[i] = ring[i + 1]
      BY <1>1, <2>1, <2>2
    <2>4. Stashed(p) = Append(t, x)
      BY <1>2, <2>2 DEF Stashed, x
    <2>5. /\ Append(t, x) \in Seq(R) /\ Len(Append(t, x)) = RingSize
          /\ \A i \in 1..Len(t) : Append(t, x)[i] = t[i]
      BY <1>0, <1>1, <1>2, <2>1, <2>3
    <2>6. Range(ring) \subseteq Range(Append(t, x)) \cup {ring[1]}
      <3> SUFFICES ASSUME NEW i \in 1..Len(ring), i # 1
                   PROVE  ring[i] \in Range(Append(t, x))
        BY <1>1 DEF Range
      <3>1. i - 1 \in 1..Len(t) /\ i - 1 \in DOMAIN Append(t, x)
        BY <2>1, <2>3, <2>5
      <3>2. Append(t, x)[i - 1] = ring[i]
        BY <2>3, <2>5, <3>1
      <3> QED
        BY <3>1, <3>2 DEF Range
    <2> QED
      BY <1>0, <1>2, <2>4, <2>5, <2>6 DEF R
  <1>3. CASE Len(ring) # RingSize
    <2>1. Stashed(p) = Append(ring, x)
      BY <1>3 DEF Stashed, x
    <2>2. /\ Append(ring, x) \in Seq(R) /\ Len(Append(ring, x)) = Len(ring) + 1
          /\ \A i \in 1..Len(ring) : Append(ring, x)[i] = ring[i]
      BY <1>1
    <2>3. Len(ring) + 1 <= RingSize
      BY <1>0, <1>1, <1>3
    <2>4. Range(ring) \subseteq Range(Append(ring, x))
      <3> SUFFICES ASSUME NEW i \in 1..Len(ring)
                   PROVE  ring[i] \in Range(Append(ring, x))
        BY <1>1 DEF Range
      <3>1. i \in DOMAIN Append(ring, x)
        BY <1>1, <2>2
      <3> QED
        BY <2>2, <3>1 DEF Range
    <2> QED
      BY <1>3, <2>1, <2>2, <2>3, <2>4 DEF R
  <1> QED
    BY <1>2, <1>3

LEMMA RingStep ==
    ASSUME TypeInv, [Next]_vars
    PROVE  RingOK'
  <1>0. RingOK /\ ReaderOK
    BY DEF TypeInv
  <1>1. CASE UNCHANGED <<ring, polled>>
    BY <1>0, <1>1 DEF RingOK
  <1>2. CASE ring' = <<>> /\ polled' = polled \cup Held
    <2>1. Held \subseteq Pushes
      BY <1>0 DEF RingOK, Held, Range
    <2>2. <<>> \in Seq(Pushes \cup {None}) /\ Len(<<>>) <= RingSize
      BY RmiAssumption
    <2> QED
      BY <1>0, <1>2, <2>1, <2>2 DEF RingOK
  <1>3. ASSUME NEW r \in Readers, ring' = Stashed(reader[r].pkt), UNCHANGED polled
        PROVE  RingOK'
    <2>1. reader[r].pkt \in Packets
      BY <1>0 DEF ReaderOK, ReaderStates
    <2> QED
      BY <1>0, <1>3, <2>1, StashKeeps DEF RingOK
  <1> QED
    BY <1>1, <1>2, <1>3, RingChanges

LEMMA RingKept ==
    ASSUME TypeInv, [Next]_vars
    PROVE  Held \subseteq Held' \cup polled'
              \cup (IF Len(ring) = RingSize /\ Len(ring') = RingSize THEN {ring[1]} ELSE {})
  <1>0. RingOK /\ ReaderOK
    BY DEF TypeInv
  <1>1. CASE UNCHANGED <<ring, polled>>
    BY <1>1 DEF Held
  <1>2. CASE ring' = <<>> /\ polled' = polled \cup Held
    BY <1>2
  <1>3. ASSUME NEW r \in Readers, ring' = Stashed(reader[r].pkt), UNCHANGED polled
        PROVE  Held \subseteq Held' \cup polled'
                  \cup (IF Len(ring) = RingSize /\ Len(ring') = RingSize
                        THEN {ring[1]} ELSE {})
    <2>1. reader[r].pkt \in Packets
      BY <1>0 DEF ReaderOK, ReaderStates
    <2>2. /\ Len(ring) = RingSize => Len(ring') = RingSize
          /\ Range(ring) \subseteq Range(ring')
                \cup (IF Len(ring) = RingSize THEN {ring[1]} ELSE {})
      BY <1>0, <1>3, <2>1, StashKeeps
    <2>3. Held = Range(ring) \ {None} /\ Held' = Range(ring') \ {None}
      BY DEF Held
    <2> QED
      BY <2>2, <2>3
  <1> QED
    BY <1>1, <1>2, <1>3, RingChanges

-----------------------------------------------------------------------------
(***************************************************************************)
(* The threads.                                                            *)
(***************************************************************************)

LEMMA TurnTyped ==
    ASSUME ReaderOK, NEW r \in Readers, NEW p \in ReaderStates, ReaderFits(p), Turn(r, p)
    PROVE  ReaderOK'
  <1>1. reader' = [reader EXCEPT ![r] = p]
    BY DEF Turn
  <1>2. reader' \in [Readers -> ReaderStates]
    BY <1>1 DEF ReaderOK
  <1>3. \A x \in Readers : ReaderFits(reader'[x])
    BY <1>1 DEF ReaderOK
  <1> QED
    BY <1>2, <1>3 DEF ReaderOK

\* What the fields of a reader are after each of its steps.
LEMMA ReaderForms ==
    ASSUME NEW p
    PROVE  /\ At(p) = [pc |-> p, sock |-> None, pkt |-> NoPacket, waiter |-> None]
           /\ \A s : [At(p) EXCEPT !.sock = s]
                 = [pc |-> p, sock |-> s, pkt |-> NoPacket, waiter |-> None]
           /\ \A x : [At(p) EXCEPT !.pkt = x]
                 = [pc |-> p, sock |-> None, pkt |-> x, waiter |-> None]
           /\ \A q : [At(p) EXCEPT !.waiter = q]
                 = [pc |-> p, sock |-> None, pkt |-> NoPacket, waiter |-> q]
  BY DEF At

LEMMA NoPacketTyped == NoPacket \in Packets
  BY DEF NoPacket, Push, Packets

\* How a reader's own step moves it: a disjunct for each way of leaving its place.
LEMMA ReaderMoves ==
    ASSUME TypeInv, NEW r \in Readers, Reader(r)
    PROVE  \/ Turn(r, At("exited")) /\ PickSocket(r) /\ stopEvt
           \/ Turn(r, At("top"))
           \/ Turn(r, [At("read") EXCEPT !.sock = sock]) /\ sock \in Socks
           \/ \E x \in Packets : Turn(r, [At("dispatch") EXCEPT !.pkt = x])
           \/ \E s \in Socks : Turn(r, [At("error") EXCEPT !.sock = s])
           \/ \E q \in Reqs, p \in {"put", "fail"} :
                 /\ Turn(r, [At(p) EXCEPT !.waiter = q])
                 /\ q = pending.req
  <1>0. WireOK /\ ReaderOK /\ RequestOK
    BY DEF TypeInv
  <1>1. CASE PickSocket(r)
    BY <1>0, <1>1 DEF PickSocket, WireOK
  <1>2. CASE ReadPacket(r)
    <2>1. PICK s : s = reader[r].sock
      OBVIOUS
    <2>2. s \in Socks
      BY <1>0, <1>2, <2>1 DEF ReaderOK, ReaderFits, ReadPacket
    <2>3. inbound[s] # <<>> => Head(inbound[s]) \in Packets
      BY <1>0, <2>2 DEF WireOK
    <2>4. \/ Turn(r, At("top"))
          \/ inbound[s] # <<>> /\ Turn(r, [At("dispatch") EXCEPT !.pkt = Head(inbound[s])])
          \/ Turn(r, [At("error") EXCEPT !.sock = s])
      BY <1>2, <2>1 DEF ReadPacket
    <2> QED
      BY <2>2, <2>3, <2>4
  <1>3. CASE Dispatch(r)
    <2>1. \/ Turn(r, At("top"))
          \/ /\ Turn(r, [At("put") EXCEPT !.waiter = pending.req])
             /\ reader[r].pkt.ident = pending.ident
      BY <1>3 DEF Dispatch
    <2>2. reader[r].pkt.ident = pending.ident => pending.req \in Reqs
      <3>1. reader[r].pkt \in Packets
        BY <1>0 DEF ReaderOK, ReaderStates
      <3>2. reader[r].pkt.ident # "none"
        BY <3>1 DEF Packets, Idents
      <3> QED
        BY <1>0, <3>2 DEF RequestOK, NoRequest
    <2> QED
      BY <2>1, <2>2
  <1>4. CASE Put(r)
    BY <1>4 DEF Put
  <1>5. CASE SocketError(r)
    <2>1. \/ Turn(r, At("top"))
          \/ /\ Turn(r, [At("fail") EXCEPT !.waiter = pending.req])
             /\ pending # NoRequest
      BY <1>5 DEF SocketError
    <2>2. pending # NoRequest => pending.req \in Reqs
      BY <1>0 DEF RequestOK
    <2> QED
      BY <2>1, <2>2
  <1> QED
    BY <1>1, <1>2, <1>3, <1>4, <1>5 DEF Reader

LEMMA ReaderStep ==
    ASSUME TypeInv, [Next]_vars
    PROVE  ReaderOK'
  <1>0. ReaderOK
    BY DEF TypeInv
  <1>1. ASSUME NEW r \in Readers, Reader(r) PROVE ReaderOK'
    <2>1. ASSUME NEW p \in {"exited", "top"}, Turn(r, At(p)) PROVE ReaderOK'
      <3>1. At(p) \in ReaderStates /\ ReaderFits(At(p))
        BY <2>1, ReaderForms, NoPacketTyped DEF ReaderStates, ReaderPlaces, ReaderFits
      <3> QED
        BY <1>0, <2>1, <3>1, TurnTyped
    <2>2. ASSUME NEW p \in {"read", "error"}, NEW s \in Socks,
                 Turn(r, [At(p) EXCEPT !.sock = s])
          PROVE  ReaderOK'
      <3> DEFINE n == [At(p) EXCEPT !.sock = s]
      <3>1. n = [pc |-> p, sock |-> s, pkt |-> NoPacket, waiter |-> None]
        BY ReaderForms
      <3> HIDE DEF n
      <3>2. n \in ReaderStates /\ ReaderFits(n)
        BY <3>1, NoPacketTyped DEF ReaderStates, ReaderPlaces, ReaderFits
      <3> QED
        BY <1>0, <2>2, <3>2, TurnTyped DEF n
    <2>3. ASSUME NEW x \in Packets, Turn(r, [At("dispatch") EXCEPT !.pkt = x])
          PROVE  ReaderOK'
      <3> DEFINE n == [At("dispatch") EXCEPT !.pkt = x]
      <3>1. n = [pc |-> "dispatch", sock |-> None, pkt |-> x, waiter |-> None]
        BY ReaderForms
      <3> HIDE DEF n
      <3>2. n \in ReaderStates /\ ReaderFits(n)
        BY <3>1 DEF ReaderStates, ReaderPlaces, ReaderFits
      <3> QED
        BY <1>0, <2>3, <3>2, TurnTyped DEF n
    <2>4. ASSUME NEW q \in Reqs, NEW p \in {"put", "fail"},
                 Turn(r, [At(p) EXCEPT !.waiter = q])
          PROVE  ReaderOK'
      <3> DEFINE n == [At(p) EXCEPT !.waiter = q]
      <3>1. n = [pc |-> p, sock |-> None, pkt |-> NoPacket, waiter |-> q]
        BY ReaderForms
      <3> HIDE DEF n
      <3>2. n \in ReaderStates /\ ReaderFits(n)
        BY <3>1, NoPacketTyped DEF ReaderStates, ReaderPlaces, ReaderFits
      <3> QED
        BY <1>0, <2>4, <3>2, TurnTyped DEF n
    <2> QED
      BY <1>1, <2>1, <2>2, <2>3, <2>4, ReaderMoves
  <1>2. ASSUME NEW c \in Clients, OpenSession(c) PROVE ReaderOK'
    <2>1. EnsureReader
      BY <1>2 DEF OpenSession
    <2>2. CASE UNCHANGED reader
      BY <1>0, <2>2 DEF ReaderOK
    <2>3. CASE rxThread' \in FreeReaders /\ reader' = [reader EXCEPT ![rxThread'].pc = "top"]
      <3>1. PICK n \in Readers : n = rxThread'
        BY <2>3 DEF FreeReaders
      <3>2. PICK p : p = [reader[n] EXCEPT !.pc = "top"]
        OBVIOUS
      <3>3. p \in ReaderStates /\ ReaderFits(p)
        <4>1. reader[n] \in ReaderStates
          BY <1>0 DEF ReaderOK
        <4> QED
          BY <3>2, <4>1 DEF ReaderStates, ReaderPlaces, ReaderFits
      <3>4. Turn(n, p)
        BY <2>3, <3>1, <3>2 DEF Turn
      <3> QED
        BY <1>0, <3>3, <3>4, TurnTyped
    <2> QED
      BY <2>1, <2>2, <2>3, EnsureStep
  <1>3. ASSUME NEW c \in Clients, Client(c), ~OpenSession(c) PROVE UNCHANGED reader
    BY <1>3 DEF Client, Begin, Acquire, OpenFails, Register, Send, Receive, Expire, Answered,
                Refused, Failed, OnOSError, Halt, Release, Forget, Joined
  <1>4. ASSUME NEW s \in Socks, Answer(s) \/ PushFault(s) \/ PeerCloses(s)
        PROVE  UNCHANGED reader
    BY <1>4 DEF Answer, PushFault, PeerCloses
  <1>5. CASE Poll \/ UNCHANGED vars
    BY <1>0, <1>5 DEF Poll, vars, ReaderOK
  <1>6. ASSUME UNCHANGED reader PROVE ReaderOK'
    BY <1>0, <1>6 DEF ReaderOK
  <1> QED
    BY <1>1, <1>2, <1>3, <1>4, <1>5, <1>6 DEF Next

\* The tries, the step of the ladder and the place in the script.
LEMMA CountStep ==
    ASSUME TypeInv, [Next]_vars
    PROVE  CountOK'
  <1>0. CountOK /\ ThreadOK
    BY DEF TypeInv
  <1>1. ASSUME NEW c \in Clients,
               \/ NextStep(c) /\ step[c] < 5
               \/ \E p : SecondTry(c, p) \/ Continue(c, p),
               UNCHANGED <<at, leaving>>
        PROVE  CountOK'
    <2>1. CASE NextStep(c) /\ step[c] < 5
      <3>1. step[c] + 1 \in 1..5
        BY <1>0, <2>1 DEF CountOK
      <3> QED
        BY <1>0, <1>1, <2>1, <3>1 DEF CountOK, NextStep
    <2>2. CASE \E p : SecondTry(c, p)
      BY <1>0, <1>1, <2>2 DEF CountOK, SecondTry
    <2>3. CASE \E p : Continue(c, p)
      BY <1>0, <1>1, <2>3 DEF CountOK, Continue
    <2> QED
      BY <1>1, <2>1, <2>2, <2>3
  <1>2. ASSUME NEW c \in Clients, Answered(c) \/ Refused(c) PROVE CountOK'
    <2>1. Len(Ladder) = 5
      BY DEF Ladder
    <2>2. \/ NextStep(c) /\ step[c] < 5
          \/ \E p : SecondTry(c, p) \/ Continue(c, p)
      BY <1>2, <2>1 DEF Answered, Refused
    <2>3. UNCHANGED <<at, leaving>>
      BY <1>2 DEF Answered, Refused
    <2> QED
      BY <1>1, <2>2, <2>3
  <1>3. ASSUME NEW c \in Clients, OnOSError(c) PROVE CountOK'
    <2>1. Op(c) \in {"get", "call", "init", "stop"}
      BY <1>3, OpIsCall DEF OnOSError
    <2>2. \A i \in PrepSteps : i < 5
      BY DEF PrepSteps
    <2>3. \/ NextStep(c) /\ step[c] < 5
          \/ \E p : SecondTry(c, p) \/ Continue(c, p)
      BY <1>3, <2>1, <2>2 DEF OnOSError
    <2>4. UNCHANGED <<at, leaving>>
      BY <1>3 DEF OnOSError
    <2> QED
      BY <1>1, <2>3, <2>4
  <1>4. ASSUME NEW c \in Clients, Finished(c)
        PROVE  /\ at' \in [Clients -> Nat] /\ tries' \in [Clients -> 1..2]
               /\ step' \in [Clients -> 1..5]
    BY <1>0, <1>4 DEF Finished, CountOK
  <1>5. ASSUME NEW c \in Clients, Release(c) PROVE CountOK'
    <2>1. CASE KeepClient
      BY <1>0, <2>1 DEF KeepClient, CountOK
    <2>2. CASE Finished(c) /\ UNCHANGED leaving
      BY <1>0, <1>4, <2>2 DEF CountOK
    <2> QED
      BY <1>5, <2>1, <2>2 DEF Release
  <1>6. ASSUME NEW c \in Clients, Joined(c) PROVE CountOK'
    <2>1. leaving' \in [Clients -> Readers \cup {None}]
      BY <1>0, <1>6 DEF Joined, CountOK
    <2> QED
      BY <1>4, <1>6, <2>1 DEF Joined, CountOK
  <1>7. ASSUME NEW c \in Clients, Forget(c) PROVE CountOK'
    BY <1>0, <1>7 DEF Forget, CountOK, ThreadOK
  <1>8. ASSUME NEW c \in Clients,
               \/ Begin(c) \/ Acquire(c) \/ OpenSession(c) \/ OpenFails(c) \/ Register(c)
               \/ Send(c) \/ Receive(c) \/ Expire(c) \/ Failed(c) \/ Halt(c)
        PROVE  UNCHANGED <<at, tries, step, leaving>>
    BY <1>8 DEF Begin, Acquire, OpenSession, OpenFails, Register, Send, Receive, Expire,
                Failed, Halt, KeepClient
  <1>9. ASSUME NEW r \in Readers, Reader(r)
        PROVE  UNCHANGED <<at, tries, step, leaving>>
    BY <1>9 DEF Reader, PickSocket, ReadPacket, Dispatch, Put, SocketError, clientVars
  <1>10. ASSUME NEW s \in Socks, Answer(s) \/ PushFault(s) \/ PeerCloses(s)
         PROVE  UNCHANGED <<at, tries, step, leaving>>
    BY <1>10 DEF Answer, PushFault, PeerCloses, clientVars
  <1>11. CASE Poll \/ UNCHANGED vars
    BY <1>0, <1>11 DEF Poll, vars, clientVars, CountOK
  <1>12. ASSUME UNCHANGED <<at, tries, step, leaving>> PROVE CountOK'
    BY <1>0, <1>12 DEF CountOK
  <1> QED
    BY <1>2, <1>3, <1>5, <1>6, <1>7, <1>8, <1>9, <1>10, <1>11, <1>12 DEF Next, Client

\* Going on with a call, at a place it visits.
LEMMA GotoKeeps ==
    ASSUME TypeInv, NEW c \in Clients, NEW p \in Places, Goto(c, p), at' = at,
           at[c] <= Len(script[c]), Visits(Op(c), p)
    PROVE  CallInv'
  <1>0. CallInv
    BY DEF TypeInv
  <1>1. pc' = [pc EXCEPT ![c] = p] /\ script' = script
    BY DEF Goto
  <1>2. \A d \in Clients : Op(d)' = Op(d)
    BY <1>1 DEF Op
  <1>3. pc' \in [Clients -> Places]
    BY <1>0, <1>1 DEF CallInv
  <1>4. ASSUME NEW d \in Clients, pc'[d] # "idle"
        PROVE  at'[d] <= Len(script'[d]) /\ Visits(Op(d)', pc'[d])
    <2>1. CASE d = c
      <3>1. pc'[d] = p
        BY <1>0, <1>1, <2>1 DEF CallInv
      <3> QED
        BY <1>1, <1>2, <2>1, <3>1
    <2>2. CASE d # c
      <3>1. pc'[d] = pc[d]
        BY <1>0, <1>1, <2>2 DEF CallInv
      <3> QED
        BY <1>0, <1>1, <1>2, <1>4, <3>1 DEF CallInv
    <2> QED
      BY <2>1, <2>2
  <1> QED
    BY <1>0, <1>1, <1>3, <1>4 DEF CallInv

\* Coming to the end of one.
LEMMA FinishedKeeps ==
    ASSUME TypeInv, NEW c \in Clients, Goto(c, "idle"), Finished(c)
    PROVE  CallInv'
  <1>0. CallInv
    BY DEF TypeInv
  <1>1. /\ pc' = [pc EXCEPT ![c] = "idle"] /\ script' = script
        /\ at' = [at EXCEPT ![c] = @ + 1]
    BY DEF Goto, Finished
  <1>2. at' \in [Clients -> Nat \ {0}]
    BY <1>0, <1>1 DEF CallInv
  <1>3. pc' \in [Clients -> Places]
    BY <1>0, <1>1 DEF CallInv, Places
  <1>4. ASSUME NEW d \in Clients, pc'[d] # "idle"
        PROVE  at'[d] <= Len(script'[d]) /\ Visits(Op(d)', pc'[d])
    <2>1. d # c /\ pc'[d] = pc[d] /\ at'[d] = at[d]
      BY <1>0, <1>1, <1>4 DEF CallInv
    <2>2. Op(d)' = Op(d)
      BY <1>1, <2>1 DEF Op
    <2> QED
      BY <1>0, <1>1, <1>4, <2>1, <2>2 DEF CallInv
  <1> QED
    BY <1>0, <1>1, <1>2, <1>3, <1>4 DEF CallInv

\* Where a step of a client takes it: with the same call to a place which that call
\* visits, or to the end of it.
LEMMA ClientMoves ==
    ASSUME TypeInv, NEW c \in Clients, Client(c)
    PROVE  \/ /\ at' = at /\ at[c] <= Len(script[c])
              /\ \E p \in Places : Goto(c, p) /\ p # "idle" /\ Visits(Op(c), p)
           \/ Goto(c, "idle") /\ Finished(c)
  <1> DEFINE To(p) == p \in Places /\ p # "idle" /\ Goto(c, p) /\ Visits(Op(c), p)
  <1>0. pc[c] # "idle" => /\ at[c] <= Len(script[c]) /\ Op(c) \in Calls
                          /\ Visits(Op(c), pc[c])
    BY OpIsCall DEF TypeInv, CallInv
  <1>1. CASE Begin(c)
    <2>1. To("lock")
      BY <1>1 DEF Begin, Visits, Places, InExchange
    <2> QED
      BY <1>1, <2>1 DEF Begin, KeepClient
  <1>2. CASE Acquire(c)
    <2>1. To("halt") \/ To("connect") \/ To("register")
      BY <1>2 DEF Acquire, Visits, Places, InExchange
    <2> QED
      BY <1>0, <1>2, <2>1 DEF Acquire, KeepClient
  <1>3. CASE OpenSession(c)
    <2>1. To("release") \/ To("register")
      BY <1>3 DEF OpenSession, Visits, Places, InExchange
    <2> QED
      BY <1>0, <1>3, <2>1 DEF OpenSession, KeepClient
  <1>4. CASE OpenFails(c)
    <2>1. To("release") \/ To("oserror")
      BY <1>4 DEF OpenFails, Visits, Places, InExchange
    <2> QED
      BY <1>0, <1>4, <2>1 DEF OpenFails, KeepClient
  <1>5. CASE Register(c)
    <2>1. To("release") \/ To("oserror") \/ To("send")
      BY <1>0, <1>5 DEF Register, Visits, Places, InExchange
    <2> QED
      BY <1>0, <1>5, <2>1 DEF Register
  <1>6. CASE Send(c)
    <2>1. To("release") \/ To("wait") \/ To("oserror")
      BY <1>0, <1>6 DEF Send, Visits, Places, InExchange
    <2> QED
      BY <1>0, <1>6, <2>1 DEF Send
  <1>7. CASE Receive(c)
    <2>1. To("failed") \/ To("answered") \/ To("refused")
      BY <1>0, <1>7 DEF Receive, Tolerant, Visits, Places, InExchange
    <2> QED
      BY <1>0, <1>7, <2>1 DEF Receive, KeepClient
  <1>8. CASE Expire(c)
    <2>1. To("failed")
      BY <1>0, <1>8 DEF Expire, Visits, Places, InExchange
    <2> QED
      BY <1>0, <1>8, <2>1 DEF Expire, KeepClient
  <1>9. CASE Answered(c)
    <2>1. To("register") \/ To("halt") \/ To("release")
      BY <1>9 DEF Answered, NextStep, Continue, Visits, Places, InExchange
    <2> QED
      BY <1>0, <1>9, <2>1 DEF Answered
  <1>10. CASE Refused(c)
    <2>1. To("register") \/ To("release")
      BY <1>10 DEF Refused, SecondTry, Continue, Visits, Places, InExchange
    <2> QED
      BY <1>0, <1>10, <2>1 DEF Refused
  <1>11. CASE Failed(c)
    <2>1. To("oserror")
      BY <1>0, <1>11 DEF Failed, Visits, Places, InExchange
    <2> QED
      BY <1>0, <1>11, <2>1 DEF Failed, KeepClient
  <1>12. CASE OnOSError(c)
    <2>0. Op(c) \in {"get", "call", "init", "stop"}
      BY <1>12, OpIsCall DEF OnOSError
    <2>1. \/ To("connect") \/ To("register") \/ To("halt") \/ To("release")
      BY <1>12, <2>0
         DEF OnOSError, NextStep, SecondTry, Continue, Visits, Places, InExchange
    <2> QED
      BY <1>0, <1>12, <2>1 DEF OnOSError
  <1>13. CASE Halt(c)
    <2>1. To("release")
      BY <1>13 DEF Halt, Visits, Places, InExchange
    <2> QED
      BY <1>0, <1>13, <2>1 DEF Halt, KeepClient
  <1>14. CASE Release(c)
    <2>1. CASE Op(c) = "stop"
      <3>1. To("join")
        BY <1>14, <2>1 DEF Release, Visits, Places, InExchange
      <3> QED
        BY <1>0, <1>14, <2>1, <3>1 DEF Release, KeepClient
    <2>2. CASE Op(c) # "stop"
      BY <1>14, <2>2 DEF Release
    <2> QED
      BY <2>1, <2>2
  <1>15. CASE Forget(c)
    <2>1. To("joining")
      BY <1>0, <1>15 DEF Forget, Visits, Places, InExchange
    <2> QED
      BY <1>0, <1>15, <2>1 DEF Forget
  <1>16. CASE Joined(c)
    BY <1>16 DEF Joined
  <1> QED
    BY <1>1, <1>2, <1>3, <1>4, <1>5, <1>6, <1>7, <1>8, <1>9, <1>10, <1>11, <1>12, <1>13,
       <1>14, <1>15, <1>16 DEF Client

\* What no client does: it leaves every client, and who is to read, as they are.
LEMMA OthersStep ==
    ASSUME [Next]_vars, ~ \E c \in Clients : Client(c)
    PROVE  /\ UNCHANGED <<script, pc, at, req, leaving, rxThread, stopEvt>>
           /\ pending' = pending \/ pending' = NoRequest
  <1>1. ASSUME NEW r \in Readers, Reader(r)
        PROVE  /\ UNCHANGED <<script, pc, at, req, leaving, rxThread, stopEvt>>
               /\ pending' = pending \/ pending' = NoRequest
    BY <1>1 DEF Reader, PickSocket, ReadPacket, Dispatch, Put, SocketError, clientVars,
                sharedVars
  <1>2. ASSUME NEW s \in Socks, Answer(s) \/ PushFault(s) \/ PeerCloses(s)
        PROVE  UNCHANGED <<script, pc, at, req, leaving, rxThread, stopEvt, pending>>
    BY <1>2 DEF Answer, PushFault, PeerCloses, clientVars, sharedVars
  <1>3. CASE Poll \/ UNCHANGED vars
    BY <1>3 DEF Poll, vars, clientVars, sharedVars
  <1> QED
    BY <1>1, <1>2, <1>3 DEF Next

LEMMA CallStep ==
    ASSUME TypeInv, [Next]_vars
    PROVE  CallInv'
  <1>1. ASSUME NEW c \in Clients, Client(c) PROVE CallInv'
    <2>1. CASE /\ at' = at /\ at[c] <= Len(script[c])
               /\ \E p \in Places : Goto(c, p) /\ p # "idle" /\ Visits(Op(c), p)
      BY <2>1, GotoKeeps
    <2>2. CASE Goto(c, "idle") /\ Finished(c)
      BY <2>2, FinishedKeeps
    <2> QED
      BY <1>1, <2>1, <2>2, ClientMoves
  <1>2. CASE ~ \E c \in Clients : Client(c)
    <2>1. UNCHANGED <<script, pc, at>>
      BY <1>2, OthersStep
    <2>2. \A d \in Clients : Op(d)' = Op(d)
      BY <2>1 DEF Op
    <2> QED
      BY <2>1, <2>2 DEF TypeInv, CallInv
  <1> QED
    BY <1>1, <1>2

\* The stop signal is withdrawn by start() and by the start of a reader only.
LEMMA RecallMoves ==
    ASSUME [Next]_vars
    PROVE  Recall \/ (recalled' = recalled /\ (stopEvt => stopEvt'))
  <1>1. ASSUME NEW c \in Clients, Begin(c) \/ OpenSession(c) PROVE Recall
    BY <1>1 DEF Begin, OpenSession
  <1>2. ASSUME NEW c \in Clients, Client(c), ~Begin(c), ~OpenSession(c)
        PROVE  recalled' = recalled /\ (stopEvt => stopEvt')
    <2>1. CASE Halt(c)
      BY <2>1 DEF Halt
    <2>2. CASE Acquire(c) \/ OpenFails(c) \/ Register(c) \/ Send(c) \/ Receive(c) \/ Expire(c)
      BY <2>2 DEF Acquire, OpenFails, Register, Send, Receive, Expire, sharedVars
    <2>3. CASE Answered(c) \/ Refused(c) \/ Failed(c)
      BY <2>3 DEF Answered, Refused, Failed, sharedVars
    <2>4. CASE OnOSError(c)
      BY <2>4 DEF OnOSError, sharedVars
    <2>5. CASE Release(c) \/ Forget(c) \/ Joined(c)
      BY <2>5 DEF Release, Forget, Joined, sharedVars
    <2> QED
      BY <1>2, <2>1, <2>2, <2>3, <2>4, <2>5 DEF Client
  <1>3. ASSUME NEW r \in Readers, Reader(r) PROVE UNCHANGED <<recalled, stopEvt>>
    BY <1>3 DEF Reader, PickSocket, ReadPacket, Dispatch, Put, SocketError, sharedVars
  <1>4. ASSUME NEW s \in Socks, Answer(s) \/ PushFault(s) \/ PeerCloses(s)
        PROVE  UNCHANGED <<recalled, stopEvt>>
    BY <1>4 DEF Answer, PushFault, PeerCloses, sharedVars
  <1>5. CASE Poll \/ UNCHANGED vars
    BY <1>5 DEF Poll, vars, sharedVars
  <1> QED
    BY <1>1, <1>2, <1>3, <1>4, <1>5 DEF Next

LEMMA RecallStep ==
    ASSUME RecallOK, [Next]_vars
    PROVE  RecallOK'
  BY RecallMoves DEF Recall, RecallOK

LEMMA TypeStep ==
    ASSUME TypeInv, [Next]_vars
    PROVE  TypeInv'
  <1>1. WireOK' /\ ThreadOK' /\ RequestOK' /\ RingOK'
    BY WireStep, ThreadStep, RequestStep, RingStep
  <1>2. CountOK' /\ ReaderOK' /\ CallInv'
    BY CountStep, ReaderStep, CallStep
  <1>3. RecallOK'
    BY RecallStep DEF TypeInv
  <1> QED
    BY <1>1, <1>2, <1>3 DEF TypeInv

LEMMA TypeHolds == Spec => []TypeInv
  BY TypeInit, TypeStep, PTL DEF Spec

\* The client's own types: in particular the ring keeps to _MAX_ASYNC_QUEUE, the ladder
\* to its five commands and every call to two tries, whatever calls interleave and
\* whatever the controller sends.
THEOREM TypesHold == Spec => []TypeOK
  <1>1. TypeInv => TypeOK
    BY TypeImplied
  <1> QED
    BY <1>1, TypeHolds, PTL

\* A pushed fault survives every reopen, retry and stop: it leaves the ring with a poller,
\* or as the oldest packet of a full ring.
THEOREM PushesSurvive == Spec => RingSurvives
  <1>1. TypeInv /\ [Next]_vars
           => [Held \subseteq Held' \cup polled'
                  \cup (IF Len(ring) = RingSize /\ Len(ring') = RingSize
                        THEN {ring[1]} ELSE {})]_vars
    BY RingKept
  <1> QED
    BY <1>1, TypeHolds, PTL DEF Spec, RingSurvives

-----------------------------------------------------------------------------
(***************************************************************************)
(* The sole reader.                                                        *)
(***************************************************************************)

\* From the moment stop() has raised its signal until it returns the signal stays up,
\* and no reader is registered while it joins the last one, which is no other's.
SignalInv == \A c \in Clients :
    /\ Waiting(c) => stopEvt
    /\ pc[c] = "joining" => rxThread = None

Joining(c) == pc[c] = "joining" /\ leaving[c] # None
LeaveInv == \A c, d \in Clients : Joining(c) /\ Joining(d) => c = d

Leaving(r) == \E c \in Clients : pc[c] = "joining" /\ leaving[c] = r

\* A live reader is the registered one, or one that stop() is waiting for, or one that
\* stop() gave up on because it waits for ever.
ReaderInv == \A r \in Readers : Alive(r) => r = rxThread \/ Leaving(r) \/ Abandoned(r)

SoleInv == SignalInv /\ LeaveInv /\ ReaderInv

-----------------------------------------------------------------------------

\* A step of a client is its own: the others stay where they are.
LEMMA ClientLocal ==
    ASSUME TypeInv, NEW c \in Clients, Client(c), NEW d \in Clients, d # c
    PROVE  /\ pc'[d] = pc[d] /\ Op(d)' = Op(d)
           /\ req'[d] = req[d] /\ leaving'[d] = leaving[d]
  <1>1. pc'[d] = pc[d] /\ Op(d)' = Op(d)
    BY ClientMoves, ZenonT(60) DEF Goto, Finished, Op, TypeInv, CallInv
  <1>2. req' = req \/ \E x : req' = [req EXCEPT ![c] = x]
    BY DEF Client, Begin, Acquire, OpenSession, OpenFails, Register, Send, Receive, Expire,
           Answered, Refused, Failed, OnOSError, Halt, Release, Forget, Joined, KeepClient,
           Finished
  <1>3. leaving' = leaving \/ \E x : leaving' = [leaving EXCEPT ![c] = x]
    BY DEF Client, Begin, Acquire, OpenSession, OpenFails, Register, Send, Receive, Expire,
           Answered, Refused, Failed, OnOSError, Halt, Release, Forget, Joined, KeepClient
  <1> QED
    BY <1>1, <1>2, <1>3 DEF TypeInv, RequestOK, CountOK

\* A call begins only where none was in progress, and changes only by ending.
LEMMA ClientCalls ==
    ASSUME TypeInv, NEW c \in Clients, Client(c)
    PROVE  /\ pc[c] = "idle" => Begin(c)
           /\ pc'[c] # "idle" => Op(c)' = Op(c)
  <1>1. pc[c] = "idle" => Begin(c)
    BY DEF Client, Acquire, OpenSession, OpenFails, Register, Send, Receive, Expire,
           Answered, Refused, Failed, OnOSError, Halt, Release, Forget, Joined
  <1>2. pc'[c] # "idle" => Op(c)' = Op(c)
    BY ClientMoves DEF Goto, Finished, Op, TypeInv, CallInv
  <1> QED
    BY <1>1, <1>2

\* How a client comes to the end of stop().
LEMMA ComesToStop ==
    ASSUME TypeInv, NEW c \in Clients, Client(c)
    PROVE  /\ pc'[c] = "release" /\ Op(c) = "stop" => Halt(c)
           /\ pc'[c] = "join" => Release(c) /\ Op(c) = "stop"
           /\ pc'[c] = "joining" => Forget(c)
  <1>0. ASSUME NEW p, Goto(c, p) PROVE pc'[c] = p
    BY <1>0 DEF Goto, TypeInv, CallInv
  <1>1. pc[c] # "idle" => Visits(Op(c), pc[c])
    BY OpIsCall
  <1>2. CASE Begin(c) \/ Acquire(c)
    BY <1>0, <1>2 DEF Begin, Acquire
  <1>3. CASE OpenSession(c) \/ OpenFails(c)
    BY <1>0, <1>1, <1>3 DEF OpenSession, OpenFails, Visits
  <1>4. CASE Register(c)
    BY <1>0, <1>4 DEF Register
  <1>5. CASE Send(c)
    BY <1>0, <1>5 DEF Send
  <1>6. CASE Receive(c) \/ Expire(c) \/ Failed(c)
    BY <1>0, <1>6 DEF Receive, Expire, Failed
  <1>7. CASE Answered(c)
    BY <1>0, <1>7 DEF Answered, NextStep, Continue
  <1>8. CASE Refused(c)
    BY <1>0, <1>1, <1>8 DEF Refused, SecondTry, Continue, Visits
  <1>9. CASE OnOSError(c)
    <2>1. Op(c) \in {"get", "call", "init", "stop"}
      BY <1>9, OpIsCall DEF OnOSError
    <2> QED
      BY <1>0, <1>9, <2>1 DEF OnOSError, NextStep, SecondTry, Continue
  <1>10. CASE Halt(c)
    BY <1>0, <1>10 DEF Halt
  <1>11. CASE Release(c)
    BY <1>0, <1>11 DEF Release
  <1>12. CASE Forget(c)
    BY <1>0, <1>12 DEF Forget
  <1>13. CASE Joined(c)
    BY <1>0, <1>13 DEF Joined
  <1> QED
    BY <1>2, <1>3, <1>4, <1>5, <1>6, <1>7, <1>8, <1>9, <1>10, <1>11, <1>12, <1>13
       DEF Client

\* While a stop() waits, a step that lowers the signal is a recall.
LEMMA SignalHeld ==
    ASSUME [Next]_vars, ~recalled', SignalInv, NEW x \in Clients, Waiting(x)
    PROVE  stopEvt /\ stopEvt'
  BY RecallMoves DEF Recall, SignalInv

\* A reader is started with the signal down, so under a stop() none is.
LEMMA NoneRegistered ==
    ASSUME TypeInv, [Next]_vars, ~recalled', SignalInv, NEW x \in Clients, pc[x] = "joining"
    PROVE  rxThread = None /\ rxThread' = None
  <1>1. Waiting(x) /\ rxThread = None
    BY OpIsCall DEF Waiting, Visits, SignalInv
  <1>2. stopEvt'
    BY <1>1, SignalHeld
  <1>3. ASSUME NEW c \in Clients, Client(c) PROVE rxThread' = None
    <2>1. CASE OpenSession(c)
      BY <1>1, <1>2, <2>1, EnsureStep DEF OpenSession
    <2>2. CASE ~OpenSession(c)
      BY <1>1, <1>3, <2>2
         DEF Client, Begin, Acquire, OpenFails, Register, Send, Receive, Expire, Answered,
             Refused, Failed, OnOSError, Halt, Release, Forget, Joined, sharedVars
    <2> QED
      BY <2>1, <2>2
  <1>4. CASE ~ \E c \in Clients : Client(c)
    BY <1>1, <1>4, OthersStep
  <1> QED
    BY <1>1, <1>3, <1>4

LEMMA SignalStep ==
    ASSUME TypeInv, SignalInv, ~recalled', [Next]_vars
    PROVE  SignalInv'
  <1>1. ASSUME NEW x \in Clients, Waiting(x)', ~Waiting(x) PROVE stopEvt'
    <2>1. PICK c \in Clients : Client(c)
      BY <1>1, OthersStep DEF Waiting, Op
    <2>2. x = c
      BY <1>1, <2>1, ClientLocal DEF Waiting
    <2>3. Op(c)' = Op(c)
      BY <1>1, <2>1, <2>2, ClientCalls DEF Waiting
    <2>4. CASE pc'[c] = "release"
      BY <1>1, <2>1, <2>2, <2>3, <2>4, ComesToStop DEF Waiting, Halt
    <2>5. CASE pc'[c] = "join" \/ pc'[c] = "joining"
      <3>1. Release(c) \/ Forget(c)
        BY <2>1, <2>5, ComesToStop
      <3>2. pc[c] \in {"release", "join"}
        BY <3>1 DEF Release, Forget
      <3> QED
        BY <1>1, <2>2, <2>3, <3>2 DEF Waiting
    <2> QED
      BY <1>1, <2>2, <2>4, <2>5 DEF Waiting
  <1>2. ASSUME NEW x \in Clients, Waiting(x)' PROVE stopEvt'
    BY <1>1, <1>2, SignalHeld
  <1>3. ASSUME NEW x \in Clients, pc'[x] = "joining" PROVE rxThread' = None
    <2>1. CASE pc[x] = "joining"
      BY <2>1, NoneRegistered
    <2>2. CASE pc[x] # "joining"
      <3>1. PICK c \in Clients : Client(c)
        BY <1>3, <2>2, OthersStep
      <3>2. x = c
        BY <1>3, <2>2, <3>1, ClientLocal
      <3> QED
        BY <1>3, <3>1, <3>2, ComesToStop DEF Forget
    <2> QED
      BY <2>1, <2>2
  <1> QED
    BY <1>2, <1>3 DEF SignalInv

\* A second stop() finds no reader registered, and joins none.
LEMMA LeaveStep ==
    ASSUME TypeInv, SignalInv, LeaveInv, ~recalled', [Next]_vars
    PROVE  LeaveInv'
  <1>1. ASSUME NEW x \in Clients, Joining(x)', ~Joining(x)
        PROVE  \A d \in Clients : d # x => ~Joining(d) /\ ~Joining(d)'
    <2>1. PICK c \in Clients : Client(c)
      BY <1>1, OthersStep DEF Joining
    <2>2. x = c
      BY <1>1, <2>1, ClientLocal DEF Joining
    <2>3. Forget(c)
      BY <1>1, <2>1, <2>2, ComesToStop DEF Joining
    <2>4. rxThread # None
      BY <1>1, <2>2, <2>3 DEF Forget, Joining, TypeInv, CountOK
    <2>5. \A d \in Clients : pc[d] # "joining"
      BY <2>4 DEF SignalInv
    <2> QED
      BY <2>1, <2>2, <2>5, ClientLocal DEF Joining
  <1>2. SUFFICES ASSUME NEW x \in Clients, NEW y \in Clients, Joining(x)', Joining(y)', x # y
                 PROVE  FALSE
    BY DEF LeaveInv
  <1>3. Joining(x) /\ Joining(y)
    BY <1>1, <1>2
  <1> QED
    BY <1>2, <1>3 DEF LeaveInv

\* A reader whose inbox is full takes no step of its own.
LEMMA StuckStays ==
    ASSUME TypeInv, NEW r \in Readers, Stuck(r), Reader(r)
    PROVE  FALSE
  BY DEF Stuck, Reader, PickSocket, ReadPacket, Dispatch, Put, SocketError

\* A full inbox is emptied only by the client that waits for it.
LEMMA BoxKept ==
    ASSUME TypeInv, [Next]_vars, NEW q \in Reqs, box[q] # "empty",
           \E r \in Readers : reader[r].waiter = q,
           \A c \in Clients : ~Awaits(c, q)
    PROVE  box'[q] = box[q]
  <1>0. RequestOK
    BY DEF TypeInv
  <1>1. ASSUME NEW c \in Clients PROVE DropBox(c)[q] = box[q]
    BY <1>0, DropTyped
  <1>2. ASSUME NEW c \in Clients, Client(c) PROVE box'[q] = box[q]
    <2>1. CASE Receive(c)
      <3>1. pc[c] = "wait" /\ Op(c) # "call"
        BY <2>1, OpIsCall DEF Receive, Visits, Places, InExchange
      <3>2. req[c] # q
        BY <3>1 DEF Awaits
      <3> QED
        BY <1>0, <2>1, <3>2 DEF Receive, RequestOK
    <2>2. CASE Register(c) \/ Release(c) \/ Joined(c)
      <3>1. box' = box \/ box' = DropBox(c)
        BY <2>2 DEF Register, Release, Joined, Finished
      <3> QED
        BY <1>1, <3>1
    <2>3. CASE ~(Receive(c) \/ Register(c) \/ Release(c) \/ Joined(c))
      <3>1. box' = box
        BY <1>2, <2>3 DEF Client, Begin, Acquire, OpenSession, OpenFails, Send, Expire,
                          Answered, Refused, Failed, OnOSError, Halt, Forget
      <3> QED
        BY <3>1
    <2> QED
      BY <2>1, <2>2, <2>3
  <1>3. ASSUME NEW r \in Readers, Put(r) PROVE box'[q] = box[q]
    <2>1. reader[r].waiter # q /\ \E x : box' = [box EXCEPT ![reader[r].waiter] = x]
      BY <1>3 DEF Put
    <2> QED
      BY <1>0, <2>1 DEF RequestOK
  <1>4. ASSUME NEW r \in Readers, Reader(r), ~Put(r) PROVE box' = box
    BY <1>4 DEF Reader, PickSocket, ReadPacket, Dispatch, SocketError
  <1>5. ASSUME NEW s \in Socks, Answer(s) \/ PushFault(s) \/ PeerCloses(s)
        PROVE  box' = box
    BY <1>5 DEF Answer, PushFault, PeerCloses
  <1>6. CASE Poll \/ UNCHANGED vars
    BY <1>6 DEF Poll, vars
  <1> QED
    BY <1>2, <1>3, <1>4, <1>5, <1>6 DEF Next

\* How a client comes to wait for a reply.
LEMMA ComesToWait ==
    ASSUME TypeInv, NEW c \in Clients, Client(c), pc'[c] \in {"send", "wait"}
    PROVE  \/ Register(c)
           \/ pc[c] = "send" /\ req' = req
  <1>0. ASSUME NEW p, Goto(c, p) PROVE pc'[c] = p
    BY <1>0 DEF Goto, TypeInv, CallInv
  <1>1. CASE Begin(c) \/ Acquire(c) \/ OpenSession(c) \/ OpenFails(c)
    BY <1>0, <1>1 DEF Begin, Acquire, OpenSession, OpenFails
  <1>2. CASE Send(c)
    BY <1>2 DEF Send
  <1>3. CASE Receive(c) \/ Expire(c) \/ Failed(c)
    BY <1>0, <1>3 DEF Receive, Expire, Failed
  <1>4. CASE Answered(c)
    BY <1>0, <1>4 DEF Answered, NextStep, Continue
  <1>5. CASE Refused(c)
    BY <1>0, <1>5 DEF Refused, SecondTry, Continue
  <1>6. CASE OnOSError(c)
    <2>1. Op(c) \in {"get", "call", "init", "stop"}
      BY <1>6, OpIsCall DEF OnOSError
    <2> QED
      BY <1>0, <1>6, <2>1 DEF OnOSError, NextStep, SecondTry, Continue
  <1>7. CASE Halt(c) \/ Release(c) \/ Forget(c) \/ Joined(c)
    BY <1>0, <1>7 DEF Halt, Release, Forget, Joined
  <1> QED
    BY <1>1, <1>2, <1>3, <1>4, <1>5, <1>6, <1>7 DEF Client

\* A request that a reader delivers to is never given out again.
LEMMA RequestsFresh ==
    ASSUME TypeInv, [Next]_vars, NEW q \in Reqs,
           \E r \in Readers : reader[r].waiter = q,
           \A c \in Clients : ~Awaits(c, q)
    PROVE  \A c \in Clients : ~Awaits(c, q)'
  <1> SUFFICES ASSUME NEW d \in Clients, Awaits(d, q)' PROVE FALSE
    OBVIOUS
  <1>1. PICK c \in Clients : Client(c)
    BY OthersStep DEF Awaits, Op
  <1>2. d = c
    BY <1>1, ClientLocal DEF Awaits
  <1>3. pc'[c] \in {"send", "wait"} /\ Op(c)' # "call" /\ req'[c] = q
    BY <1>2 DEF Awaits
  <1>4. Op(c) # "call"
    BY <1>1, <1>3, ClientCalls
  <1>5. CASE Register(c)
    <2>1. sock # None
      <3>1. CASE sock = None
        <4>1. pc'[c] \in {"release", "oserror"}
          BY <1>5, <3>1 DEF Register, Goto, TypeInv, CallInv
        <4> QED
          BY <1>3, <4>1
      <3> QED
        BY <3>1
    <2>2. req' = [req EXCEPT ![c] = First(FreeReqs)] /\ FreeReqs # {}
      BY <1>4, <1>5, <2>1 DEF Register
    <2>3. First(FreeReqs) # q
      BY <2>2, FreeNames DEF FreeReqs
    <2> QED
      BY <1>3, <2>2, <2>3 DEF TypeInv, RequestOK
  <1>6. CASE pc[c] = "send" /\ req' = req
    BY <1>3, <1>4, <1>6 DEF Awaits
  <1> QED
    BY <1>1, <1>3, <1>5, <1>6, ComesToWait

\* No step moves a reader but its own and the start of one that had exited.
LEMMA ReaderKept ==
    ASSUME TypeInv, [Next]_vars, NEW r \in Readers, ~Reader(r), Alive(r)
    PROVE  reader'[r] = reader[r]
  <1>0. ReaderOK
    BY DEF TypeInv
  <1>1. ASSUME NEW x \in Readers, Reader(x) PROVE reader'[r] = reader[r]
    <2>1. \E p : Turn(x, p)
      BY <1>1, ReaderMoves
    <2> QED
      BY <1>0, <1>1, <2>1 DEF Turn, ReaderOK
  <1>2. ASSUME NEW c \in Clients, OpenSession(c) PROVE reader'[r] = reader[r]
    <2>1. EnsureReader
      BY <1>2 DEF OpenSession
    <2>2. CASE UNCHANGED reader
      BY <2>2
    <2>3. CASE rxThread' \in FreeReaders /\ reader' = [reader EXCEPT ![rxThread'].pc = "top"]
      <3>1. rxThread' # r
        BY <2>3 DEF FreeReaders, Alive
      <3> QED
        BY <1>0, <2>3, <3>1 DEF ReaderOK
    <2> QED
      BY <2>1, <2>2, <2>3, EnsureStep
  <1>3. ASSUME NEW c \in Clients, Client(c), ~OpenSession(c) PROVE UNCHANGED reader
    BY <1>3 DEF Client, Begin, Acquire, OpenFails, Register, Send, Receive, Expire, Answered,
                Refused, Failed, OnOSError, Halt, Release, Forget, Joined
  <1>4. ASSUME NEW s \in Socks, Answer(s) \/ PushFault(s) \/ PeerCloses(s)
        PROVE  UNCHANGED reader
    BY <1>4 DEF Answer, PushFault, PeerCloses
  <1>5. CASE Poll \/ UNCHANGED vars
    BY <1>5 DEF Poll, vars
  <1> QED
    BY <1>1, <1>2, <1>3, <1>4, <1>5 DEF Next

LEMMA AbandonedStays ==
    ASSUME TypeInv, [Next]_vars, NEW r \in Readers, Abandoned(r)
    PROVE  Abandoned(r)'
  <1>1. /\ Stuck(r) /\ reader[r].pc \in {"put", "fail"}
        /\ reader[r].waiter \in Reqs
    BY DEF Abandoned, Stuck, TypeInv, ReaderOK, ReaderFits
  <1>2. ~Reader(r) /\ Alive(r)
    BY <1>1, StuckStays DEF Alive
  <1>3. reader'[r] = reader[r]
    BY <1>2, ReaderKept
  <1>4. PICK q \in Reqs : q = reader[r].waiter
    BY <1>1
  <1>5. box[q] # "empty" /\ \A c \in Clients : ~Awaits(c, q)
    BY <1>4 DEF Abandoned, Stuck
  <1>6. box'[q] = box[q]
    BY <1>4, <1>5, BoxKept
  <1>7. \A c \in Clients : ~Awaits(c, q)'
    BY <1>4, <1>5, RequestsFresh
  <1>8. reader'[r].pc \in {"put", "fail"} /\ reader'[r].waiter = q
    BY <1>1, <1>3, <1>4
  <1>9. Stuck(r)'
    BY <1>5, <1>6, <1>8 DEF Stuck
  <1> QED
    BY <1>7, <1>8, <1>9 DEF Abandoned, Awaits, Op

\* A reader comes to life only by being registered.
LEMMA ReaderWakes ==
    ASSUME TypeInv, [Next]_vars, NEW r \in Readers, ~Alive(r), Alive(r)'
    PROVE  r = rxThread'
  <1>0. ReaderOK
    BY DEF TypeInv
  <1>1. ASSUME NEW x \in Readers, Reader(x) PROVE FALSE
    <2>1. x # r
      BY <1>1 DEF Alive, Reader, PickSocket, ReadPacket, Dispatch, Put, SocketError
    <2>2. \E p : Turn(x, p)
      BY <1>1, ReaderMoves
    <2>3. reader'[r] = reader[r]
      BY <1>0, <2>1, <2>2 DEF Turn, ReaderOK
    <2> QED
      BY <2>3 DEF Alive
  <1>2. ASSUME NEW c \in Clients, OpenSession(c) PROVE r = rxThread'
    <2>1. EnsureReader
      BY <1>2 DEF OpenSession
    <2>2. CASE UNCHANGED reader
      BY <2>2 DEF Alive
    <2>3. CASE reader' = [reader EXCEPT ![rxThread'].pc = "top"]
      <3> SUFFICES ASSUME rxThread' # r PROVE FALSE
        OBVIOUS
      <3>1. reader'[r] = reader[r]
        BY <1>0, <2>3 DEF ReaderOK
      <3> QED
        BY <3>1 DEF Alive
    <2> QED
      BY <2>1, <2>2, <2>3, EnsureStep
  <1>3. ASSUME NEW c \in Clients, Client(c), ~OpenSession(c) PROVE UNCHANGED reader
    BY <1>3 DEF Client, Begin, Acquire, OpenFails, Register, Send, Receive, Expire, Answered,
                Refused, Failed, OnOSError, Halt, Release, Forget, Joined
  <1>4. ASSUME NEW s \in Socks, Answer(s) \/ PushFault(s) \/ PeerCloses(s)
        PROVE  UNCHANGED reader
    BY <1>4 DEF Answer, PushFault, PeerCloses
  <1>5. CASE Poll \/ UNCHANGED vars
    BY <1>5 DEF Poll, vars, Alive
  <1>6. ASSUME UNCHANGED reader PROVE FALSE
    BY <1>6 DEF Alive
  <1> QED
    BY <1>1, <1>2, <1>3, <1>4, <1>5, <1>6 DEF Next

LEMMA ReaderInvStep ==
    ASSUME TypeInv, SoleInv, ~recalled', [Next]_vars
    PROVE  ReaderInv'
  <1>0. SignalInv /\ LeaveInv /\ ReaderInv
    BY DEF SoleInv
  <1> SUFFICES ASSUME NEW r \in Readers, Alive(r)'
               PROVE  r = rxThread' \/ Leaving(r)' \/ Abandoned(r)'
    BY DEF ReaderInv
  <1>1. r # None
    BY RmiAssumption DEF Readers, None
  <1>2. CASE ~Alive(r)
    BY <1>2, ReaderWakes
  <1>3. CASE Alive(r) /\ Abandoned(r)
    BY <1>3, AbandonedStays
  <1>4. CASE Alive(r) /\ r = rxThread
    <2>1. ASSUME NEW c \in Clients, Client(c) PROVE r = rxThread' \/ Leaving(r)'
      <3>1. CASE OpenSession(c)
        BY <1>1, <1>4, <3>1, EnsureStep DEF OpenSession
      <3>2. CASE Forget(c)
        <4>1. pc'[c] = "joining" /\ leaving'[c] = r
          BY <1>4, <3>2 DEF Forget, Goto, TypeInv, CallInv, CountOK
        <4> QED
          BY <4>1 DEF Leaving
      <3>3. CASE ~OpenSession(c) /\ ~Forget(c)
        <4>1. rxThread' = rxThread
          BY <2>1, <3>3 DEF Client, Begin, Acquire, OpenFails, Register, Send, Receive, Expire,
                            Answered, Refused, Failed, OnOSError, Halt, Release, Joined,
                            sharedVars
        <4> QED
          BY <1>4, <4>1
      <3> QED
        BY <3>1, <3>2, <3>3
    <2>2. CASE ~ \E c \in Clients : Client(c)
      BY <1>4, <2>2, OthersStep
    <2> QED
      BY <2>1, <2>2
  <1>5. CASE Alive(r) /\ Leaving(r) /\ ~Abandoned(r)
    <2>1. PICK d \in Clients : pc[d] = "joining" /\ leaving[d] = r
      BY <1>5 DEF Leaving
    <2>2. Waiting(d) /\ stopEvt
      BY <1>0, <2>1, OpIsCall DEF Waiting, Visits, SignalInv
    <2>3. ASSUME NEW c \in Clients, Client(c) PROVE Leaving(r)'
      <3>1. CASE d = c
        <4>1. Joined(c)
          BY <2>1, <2>3, <3>1
             DEF Client, Begin, Acquire, OpenSession, OpenFails, Register, Send, Receive,
                 Expire, Answered, Refused, Failed, OnOSError, Halt, Release, Forget
        <4> QED
          BY <1>1, <1>5, <2>1, <2>2, <3>1, <4>1 DEF Joined
      <3>2. CASE d # c
        BY <2>1, <2>3, <3>2, ClientLocal DEF Leaving
      <3> QED
        BY <3>1, <3>2
    <2>4. CASE ~ \E c \in Clients : Client(c)
      BY <2>1, <2>4, OthersStep DEF Leaving
    <2> QED
      BY <2>3, <2>4
  <1> QED
    BY <1>0, <1>2, <1>3, <1>4, <1>5 DEF ReaderInv

LEMMA SoleInit == Init => SoleInv
  <1> SUFFICES ASSUME Init PROVE SoleInv
    OBVIOUS
  <1>1. SignalInv /\ LeaveInv
    BY DEF Init, SignalInv, LeaveInv, Waiting, Joining
  <1>2. ReaderInv
    BY DEF Init, ReaderInv, Alive
  <1> QED
    BY <1>1, <1>2 DEF SoleInv

\* A recall is not forgotten, and until there is one the invariant is kept.
LEMMA SoleStep ==
    ASSUME TypeInv, recalled \/ SoleInv, [Next]_vars
    PROVE  recalled' \/ SoleInv'
  <1> SUFFICES ASSUME ~recalled' PROVE SoleInv'
    OBVIOUS
  <1>1. SoleInv
    BY RecallMoves DEF Recall
  <1>2. SignalInv' /\ LeaveInv'
    BY <1>1, SignalStep, LeaveStep DEF SoleInv
  <1> QED
    BY <1>1, <1>2, ReaderInvStep DEF SoleInv

\* What is registered and what is joined are never both a live reader.
LEMMA OneReads ==
    ASSUME TypeInv, recalled \/ SoleInv
    PROVE  SoleReader
  <1> SUFFICES ASSUME SoleInv PROVE SoleReader
    BY DEF SoleReader
  <1> DEFINE X == {r \in Readers : Alive(r) /\ ~Stuck(r)}
  <1>0. \A r \in X : r # None
    BY RmiAssumption DEF Readers, None
  <1>1. \A r \in X : r = rxThread \/ Leaving(r)
    BY DEF SoleInv, ReaderInv, Abandoned
  <1>2. \E x : X \subseteq {x}
    <2>1. CASE \E c \in Clients : Joining(c)
      <3>1. PICK c \in Clients : Joining(c)
        BY <2>1
      <3>2. rxThread = None
        BY <3>1 DEF Joining, SoleInv, SignalInv
      <3>3. \A d \in Clients : Joining(d) => d = c
        BY <3>1 DEF SoleInv, LeaveInv
      <3>4. \A r \in X : r = leaving[c]
        BY <1>0, <1>1, <3>2, <3>3 DEF Leaving, Joining
      <3> QED
        BY <3>4
    <2>2. CASE ~ \E c \in Clients : Joining(c)
      BY <1>0, <1>1, <2>2 DEF Leaving, Joining
    <2> QED
      BY <2>1, <2>2
  <1> HIDE DEF X
  <1>3. PICK x : X = {} \/ X = {x}
    BY <1>2
  <1>4. Cardinality({}) = 0 /\ Cardinality({x}) = 1
    BY FS_EmptySet, FS_Singleton
  <1>5. Cardinality(X) <= 1
    BY <1>3, <1>4
  <1> QED
    BY <1>5 DEF SoleReader, X

\* However calls, start() and stop() overlap, one RX thread at most reads the session
\* socket, until the signal of a stop() is withdrawn before that stop() has returned: a
\* reopen keeps the reader that is registered, and the one that stop() forgets has
\* exited, or waits for ever, before another can be started.
THEOREM ReadsAlone == Spec => []SoleReader
  <1>1. Init => TypeInv /\ (recalled \/ SoleInv)
    BY TypeInit, SoleInit
  <1>2. TypeInv /\ (recalled \/ SoleInv) /\ [Next]_vars
            => TypeInv' /\ (recalled' \/ SoleInv')
    BY TypeStep, SoleStep
  <1>3. TypeInv /\ (recalled \/ SoleInv) => SoleReader
    BY OneReads
  <1> QED
    BY <1>1, <1>2, <1>3, PTL DEF Spec
=============================================================================
