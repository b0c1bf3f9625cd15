---------------------------- MODULE AccessProofs ----------------------------
(***************************************************************************)
(* What Access promises, for any hosts, connections and limits: types, the *)
(* two invariants that no revoked host keeps a transport or a service,     *)
(* that an admitted connection finds a place at the supervisor, and that   *)
(* no session is forgotten when its host is revoked.                       *)
(***************************************************************************)
EXTENDS Access, FiniteSetTheorems, SequenceTheorems, TLAPS

\* The parts of the state that only a whole new worker process resets.
LEMMA NoThreadsTypes ==
    ASSUME NoThreads
    PROVE  /\ phase' \in [Conn -> Phases]
           /\ allowed' \in [Conn -> SUBSET Host]
           /\ fp' \in [Conn -> Host \cup {None}]
           /\ call' \in [Conn -> CallKinds \cup {"none"}]
           /\ calls' \in [Conn -> Nat]
           /\ answer' \in [Conn -> {"none", "ok", "refused"}]
           /\ held' \in [Conn -> SUBSET Service]
           /\ peers' \in [Conn -> Host \cup {None}]
           /\ cancelled' \in SUBSET Conn
BY DEF NoThreads, NoTransports, Phases

\* What the supervisor takes from the socket is a request.
LEMMA HeadRequest ==
    ASSUME TypeOK, toSup # <<>>
    PROVE  /\ Head(toSup) \in Request
           /\ Tail(toSup) \in Seq(Request)
BY HeadTailProperties DEF TypeOK

\* What the worker takes from the socket is a message.
LEMMA HeadMessage ==
    ASSUME TypeOK, toWorker # <<>>
    PROVE  /\ Head(toWorker) \in Message
           /\ Tail(toWorker) \in Seq(Message)
BY HeadTailProperties DEF TypeOK

\* Sending keeps the queue to the worker a queue of messages.
LEMMA SendTypes ==
    ASSUME TypeOK, NEW m \in Message, SendToWorker(m)
    PROVE  toWorker' \in Seq(Message)
BY AppendProperties DEF TypeOK, SendToWorker

\* Dropping transports keeps their types, and stops running services only.
LEMMA DisconnectTypes ==
    ASSUME TypeOK, NEW S, Disconnect(S)
    PROVE  /\ transports' \in [Conn -> Host \cup {None}]
           /\ stopped' \in SUBSET services
BY DEF TypeOK, Disconnect, ServicesOf

\* A call puts one request into the socket.
LEMMA StartCallTypes ==
    ASSUME TypeOK, NEW c \in Conn, NEW r \in Request, NEW k \in CallKinds,
           StartCall(c, r, k)
    PROVE  /\ call' \in [Conn -> CallKinds \cup {"none"}]
           /\ calls' \in [Conn -> Nat]
           /\ toSup' \in Seq(Request)
<1>1. toSup' \in Seq(Request)
  BY AppendProperties DEF TypeOK, StartCall
<1>2. calls' \in [Conn -> Nat]
  BY DEF TypeOK, StartCall
<1>3. call' \in [Conn -> CallKinds \cup {"none"}]
  BY DEF TypeOK, StartCall
<1>4. QED
  BY <1>1, <1>2, <1>3

LEMMA InitTypes == Init => TypeOK
<1>1. <<>> \in Seq(Request) /\ <<>> \in Seq(Message)
  BY EmptySeq
<1>2. Init => /\ phase \in [Conn -> Phases]
              /\ allowed \in [Conn -> SUBSET Host]
              /\ fp \in [Conn -> Host \cup {None}]
              /\ call \in [Conn -> CallKinds \cup {"none"}]
              /\ answer \in [Conn -> {"none", "ok", "refused"}]
              /\ held \in [Conn -> SUBSET Service]
  BY DEF Init, Phases
<1>3. Init => calls \in [Conn -> Nat] /\ edits \in Nat
  BY DEF Init
<1>4. Init => /\ transports \in [Conn -> Host \cup {None}]
              /\ peers \in [Conn -> Host \cup {None}]
  BY DEF Init, NoTransports
<1>5. Init => /\ hosts \in SUBSET Host /\ whosts \in SUBSET Host
              /\ services \in SUBSET Service
              /\ stopped \in SUBSET services /\ closing \in SUBSET services
              /\ worker \in BOOLEAN /\ alive \in BOOLEAN
              /\ cancelled \in SUBSET Conn
  BY DEF Init
<1>6. Init => toSup \in Seq(Request) /\ toWorker \in Seq(Message)
  BY <1>1 DEF Init
<1>7. QED
  BY <1>2, <1>3, <1>4, <1>5, <1>6 DEF TypeOK

-----------------------------------------------------------------------------
LEMMA SupervisorTypes ==
    ASSUME TypeOK,
           \/ StartWorker
           \/ StopWorker
           \/ \E h \in Host : Revoke(h)
           \/ \E h \in Host : PairHost(h)
           \/ \E s \in closing : CloseDue(s)
           \/ \E s \in services : ReapService(s)
    PROVE  TypeOK'
<1>0. <<>> \in Seq(Request) /\ <<>> \in Seq(Message)
  BY EmptySeq
<1>1. CASE StartWorker
  BY <1>0, <1>1, NoThreadsTypes DEF TypeOK, StartWorker
<1>2. CASE StopWorker
  BY <1>0, <1>2, NoThreadsTypes DEF TypeOK, StopWorker, NoTransports
<1>3. ASSUME NEW h \in Host, Revoke(h) PROVE TypeOK'
  <2>1. hosts' \in SUBSET Host
    BY <1>3 DEF TypeOK, Revoke
  <2>2. toWorker' \in Seq(Message)
    <3>1. CASE worker
      BY <1>3, <2>1, <3>1, SendTypes DEF Revoke, Message
    <3>2. CASE ~worker
      BY <1>3, <3>2 DEF Revoke, TypeOK
    <3>3. QED
      BY <3>1, <3>2
  <2>3. transports' \in [Conn -> Host \cup {None}] /\ stopped' \in SUBSET services
    BY <1>3, DisconnectTypes DEF Revoke
  <2>4. QED
    BY <1>3, <2>1, <2>2, <2>3 DEF TypeOK, Revoke, mainVars, threadVars
<1>4. ASSUME NEW h \in Host, PairHost(h) PROVE TypeOK'
  <2>1. hosts' \in SUBSET Host
    BY <1>4 DEF TypeOK, PairHost
  <2>2. toWorker' \in Seq(Message)
    BY <1>4, <2>1, SendTypes DEF PairHost, Message
  <2>3. QED
    BY <1>4, <2>1, <2>2 DEF TypeOK, PairHost, mainVars, threadVars
<1>5. ASSUME NEW s \in closing, CloseDue(s) PROVE TypeOK'
  BY <1>5 DEF TypeOK, CloseDue, mainVars, threadVars
<1>6. ASSUME NEW s \in services, ReapService(s) PROVE TypeOK'
  BY <1>6 DEF TypeOK, ReapService, mainVars, threadVars
<1>7. QED
  BY <1>1, <1>2, <1>3, <1>4, <1>5, <1>6

\* The supervisor's answer to one request.
LEMMA HandleRequestTypes ==
    ASSUME TypeOK, HandleRequest
    PROVE  TypeOK'
<1>1. PICK ok \in BOOLEAN : toSup # <<>> /\ Handle(Head(toSup), ok)
  BY DEF HandleRequest
<1> DEFINE r == Head(toSup)
<1>2. r \in Request /\ Tail(toSup) \in Seq(Request)
  BY <1>1, HeadRequest
<1>3. Take(r, ok)
  BY <1>1 DEF Handle
<1>4. r.conn \in Conn /\ r.n \in Nat
  BY <1>2 DEF Request
<1>5. toWorker' \in Seq(Message)
  <2>1. [type |-> "Reply", conn |-> r.conn, n |-> r.n, ok |-> ok] \in Message
    BY <1>1, <1>4 DEF Message
  <2>2. QED
    BY <1>3, <2>1, SendTypes DEF Take
<1>6. /\ transports' \in [Conn -> Host \cup {None}]
      /\ services' \in SUBSET Service
      /\ stopped' \in SUBSET services'
      /\ closing' \in SUBSET services'
  <2>1. CASE Authenticate(r, ok)
    <3>1. r.type = "Authenticated" /\ r.host \in Host
      BY <1>2, <2>1 DEF Authenticate, Request
    <3>2. QED
      BY <1>4, <2>1, <3>1 DEF Authenticate, TypeOK
  <2>2. CASE SpawnService(r, ok)
    BY <1>4, <2>2 DEF SpawnService, TypeOK, Service
  <2>3. CASE CloseService(r, ok)
    BY <2>3 DEF CloseService, TypeOK
  <2>4. CASE Disconnected(r, ok)
    BY <2>4, DisconnectTypes DEF Disconnected, TypeOK
  <2>5. QED
    BY <1>1, <2>1, <2>2, <2>3, <2>4 DEF Handle
<1>7. QED
  BY <1>2, <1>3, <1>5, <1>6 DEF TypeOK, Take, mainVars, threadVars

\* The worker's main thread.
LEMMA MainThreadTypes ==
    ASSUME TypeOK,
           \/ Receive
           \/ WorkerDies
           \/ \E c \in Conn : Accept(c) \/ RetainConnection(c) \/ Sweep(c)
    PROVE  TypeOK'
<1>1. CASE Receive
  <2> DEFINE m == Head(toWorker)
  <2>1. m \in Message /\ Tail(toWorker) \in Seq(Message)
    BY <1>1, HeadMessage DEF Receive
  <2>2. whosts' \in SUBSET Host /\ cancelled' \in SUBSET Conn
        /\ answer' \in [Conn -> {"none", "ok", "refused"}]
    <3>1. CASE ReceiveReply(m)
      BY <3>1 DEF ReceiveReply, TypeOK
    <3>2. CASE ReceiveHosts(m)
      <4>1. m.hosts \in SUBSET Host
        BY <2>1, <3>2 DEF ReceiveHosts, Message
      <4>2. QED
        BY <3>2, <4>1 DEF ReceiveHosts, TypeOK, Connections
    <3>3. QED
      BY <1>1, <3>1, <3>2 DEF Receive
  <2>3. QED
    BY <1>1, <2>1, <2>2 DEF Receive, TypeOK, supVars
<1>2. CASE WorkerDies
  BY <1>2, NoThreadsTypes, EmptySeq DEF WorkerDies, TypeOK, supVars
<1>3. ASSUME NEW c \in Conn, Accept(c) PROVE TypeOK'
  BY <1>3 DEF Accept, TypeOK, supVars, mainVars, Phases
<1>4. ASSUME NEW c \in Conn, RetainConnection(c) PROVE TypeOK'
  BY <1>4 DEF RetainConnection, TypeOK, supVars, mainVars, Phases
<1>5. ASSUME NEW c \in Conn, Sweep(c) PROVE TypeOK'
  BY <1>5 DEF Sweep, TypeOK, supVars, threadVars, Connections
<1>6. QED
  BY <1>1, <1>2, <1>3, <1>4, <1>5

\* A thread that is about to send Authenticated knows the host to name: what
\* types alone do not say, and what its request needs to be one.
PeerKnown == \A c \in Conn : phase[c] = "registered" => fp[c] \in Host

\* The steps of a connection thread.
LEMMA ThreadTypes ==
    ASSUME TypeOK, PeerKnown, NEW c \in Conn, Thread(c)
    PROVE  TypeOK'
<1>1. CASE HandshakeFails(c)
  BY <1>1 DEF HandshakeFails, TypeOK, supVars, mainVars, Phases
<1>2. CASE \E h \in Host : Register(c, h)
  BY <1>2 DEF Register, TypeOK, supVars, Phases
<1>3. CASE SendAuthenticated(c)
  <2>1. [type |-> "Authenticated", conn |-> c, n |-> calls[c] + 1, host |-> fp[c]]
            \in Request
    <3>1. fp[c] \in Host
      BY <1>3 DEF SendAuthenticated, PeerKnown
    <3>2. QED
      BY <3>1 DEF Request, TypeOK
  <2>2. QED
    BY <1>3, <2>1, StartCallTypes DEF SendAuthenticated, CallKinds, TypeOK, supVars, mainVars
<1>4. CASE AuthenticatedAnswered(c)
  BY <1>4 DEF AuthenticatedAnswered, EndCall, TypeOK, supVars, Phases
<1>5. CASE OpenStream(c)
  <2>1. [type |-> "Spawn", conn |-> c, n |-> calls[c] + 1] \in Request
    BY DEF Request, TypeOK
  <2>2. QED
    BY <1>5, <2>1, StartCallTypes DEF OpenStream, CallKinds, TypeOK, supVars, mainVars
<1>6. CASE SpawnAnswered(c)
  BY <1>6 DEF SpawnAnswered, EndCall, TypeOK, supVars, mainVars, Service
<1>7. CASE \E s \in held[c] : DropStream(c, s)
  <2>1. PICK s \in held[c] : DropStream(c, s)
    BY <1>7
  <2>2. s \in Service
    BY DEF TypeOK
  <2>3. [type |-> "CloseService", conn |-> c, n |-> calls[c] + 1, service |-> s]
            \in Request
    BY <2>2 DEF Request, TypeOK
  <2>4. QED
    BY <2>1, <2>3, StartCallTypes DEF DropStream, CallKinds, TypeOK, supVars, mainVars
<1>8. CASE DropAnswered(c)
  BY <1>8 DEF DropAnswered, EndCall, TypeOK, supVars, mainVars
<1>9. CASE EndSession(c)
  BY <1>9 DEF EndSession, TypeOK, supVars, mainVars, Phases
<1>10. CASE SendDisconnected(c)
  <2>1. [type |-> "Disconnected", conn |-> c, n |-> calls[c] + 1] \in Request
    BY DEF Request, TypeOK
  <2>2. QED
    BY <1>10, <2>1, StartCallTypes DEF SendDisconnected, CallKinds, TypeOK, supVars
<1>11. CASE DisconnectedAnswered(c)
  BY <1>11 DEF DisconnectedAnswered, EndCall, TypeOK, supVars, mainVars, Phases
<1>12. CASE CallTimeout(c)
  BY <1>12 DEF CallTimeout, TypeOK, supVars, Phases
<1>13. QED
  BY <1>1, <1>2, <1>3, <1>4, <1>5, <1>6, <1>7, <1>8, <1>9, <1>10, <1>11, <1>12
     DEF Thread

\* Only the handshake leads to that place, and the handshake sets the host.
LEMMA PeerKnownKept ==
    ASSUME TypeOK, PeerKnown, [Next]_vars
    PROVE  PeerKnown'
<1> SUFFICES ASSUME NEW c \in Conn, phase'[c] = "registered"
             PROVE  fp'[c] \in Host
  BY DEF PeerKnown
<1>1. CASE UNCHANGED <<phase, fp>>
  BY <1>1 DEF PeerKnown
<1>2. CASE NoThreads
  BY <1>2 DEF NoThreads
<1>3. ASSUME NEW d \in Conn, Accept(d) \/ RetainConnection(d) PROVE fp'[c] \in Host
  BY <1>3 DEF Accept, RetainConnection, PeerKnown, TypeOK
<1>4. ASSUME NEW d \in Conn, Thread(d) PROVE fp'[c] \in Host
  <2>1. CASE \E h \in Host : Register(d, h)
    BY <2>1 DEF Register, PeerKnown, TypeOK
  <2>2. CASE UNCHANGED <<phase, fp>>
    BY <2>2 DEF PeerKnown
  <2>3. CASE HandshakeFails(d) \/ AuthenticatedAnswered(d) \/ EndSession(d)
             \/ DisconnectedAnswered(d) \/ CallTimeout(d)
    BY <2>3 DEF HandshakeFails, AuthenticatedAnswered, EndSession,
                DisconnectedAnswered, CallTimeout, PeerKnown, TypeOK
  <2>4. CASE SendAuthenticated(d) \/ OpenStream(d) \/ SpawnAnswered(d)
             \/ (\E s \in held[d] : DropStream(d, s)) \/ DropAnswered(d)
             \/ SendDisconnected(d)
    BY <2>2, <2>4 DEF SendAuthenticated, OpenStream, SpawnAnswered, DropStream,
                      DropAnswered, SendDisconnected
  <2>5. QED
    BY <1>4, <2>1, <2>3, <2>4 DEF Thread
<1>5. CASE StartWorker \/ StopWorker \/ WorkerDies
  BY <1>2, <1>5 DEF StartWorker, StopWorker, WorkerDies
<1>6. CASE HandleRequest
  BY <1>1, <1>6 DEF HandleRequest, Handle, Take, threadVars
<1>7. CASE \/ \E h \in Host : Revoke(h) \/ PairHost(h)
           \/ \E s \in closing : CloseDue(s)
           \/ \E s \in services : ReapService(s)
  BY <1>1, <1>7 DEF Revoke, PairHost, CloseDue, ReapService, threadVars
<1>8. CASE Receive \/ \E d \in Conn : Sweep(d)
  BY <1>1, <1>8 DEF Receive, Sweep, threadVars
<1>9. QED
  BY <1>1, <1>3, <1>4, <1>5, <1>6, <1>7, <1>8 DEF Next, vars, threadVars

\* Every step keeps the types.
LEMMA NextTypes ==
    ASSUME TypeOK, PeerKnown, [Next]_vars
    PROVE  TypeOK'
<1>1. CASE UNCHANGED vars
  BY <1>1 DEF TypeOK, vars, supVars, mainVars, threadVars
<1>2. CASE Next
  BY <1>2, SupervisorTypes, HandleRequestTypes, MainThreadTypes, ThreadTypes DEF Next
<1>3. QED
  BY <1>1, <1>2

\* Type correctness of the supervisor, the worker and the socket between them
\* (daemon.rs, worker.rs, transport.rs, ipc.rs), with the lemma on the peer.
THEOREM TypesHold == Spec => [](TypeOK /\ PeerKnown)
<1>1. Init => TypeOK /\ PeerKnown
  BY InitTypes DEF Init, PeerKnown
<1>2. TypeOK /\ PeerKnown /\ [Next]_vars => (TypeOK /\ PeerKnown)'
  BY NextTypes, PeerKnownKept
<1>3. QED
  BY <1>1, <1>2, PTL DEF Spec

\* The types alone, as the runs check them.
THEOREM TypesCorrect == Spec => []TypeOK
<1>1. TypeOK /\ PeerKnown => TypeOK
  OBVIOUS
<1>2. QED
  BY <1>1, TypesHold, PTL

-----------------------------------------------------------------------------
(* Authorization *)

\* Steps that leave the supervisor's view of transports and services alone.
LEMMA AuthorizationUntouched ==
    ASSUME TransportsAuthorized, ServicesAuthorized,
           UNCHANGED <<hosts, transports, services, stopped>>
    PROVE  TransportsAuthorized' /\ ServicesAuthorized'
BY DEF TransportsAuthorized, ServicesAuthorized, Registered

\* Dropping transports takes every service of theirs along.
LEMMA DisconnectAuthorized ==
    ASSUME TypeOK, TransportsAuthorized, ServicesAuthorized, NEW S,
           Disconnect(S), UNCHANGED <<hosts, services>>
    PROVE  TransportsAuthorized' /\ ServicesAuthorized'
<1>1. TransportsAuthorized'
  BY DEF Disconnect, TransportsAuthorized, Registered, TypeOK
<1>2. ServicesAuthorized'
  <2> SUFFICES ASSUME NEW s \in services \ stopped'
               PROVE  transports'[s.conn] \in hosts
    BY DEF ServicesAuthorized
  <2>1. s \in services \ stopped /\ s.conn \notin S /\ s.conn \in Conn
    BY DEF Disconnect, ServicesOf, TypeOK, Service
  <2>2. transports'[s.conn] = transports[s.conn]
    BY <2>1 DEF Disconnect
  <2>3. QED
    BY <2>1, <2>2 DEF ServicesAuthorized
<1>3. QED
  BY <1>1, <1>2

\* A revocation takes the host's transports and services with the host.
LEMMA RevokeAuthorized ==
    ASSUME TypeOK, TransportsAuthorized, ServicesAuthorized, ConstantsAssumption,
           NEW h \in Host, Revoke(h)
    PROVE  TransportsAuthorized' /\ ServicesAuthorized'
<1> DEFINE S == {c \in Conn : transports[c] = h}
<1>1. Disconnect(S) /\ hosts' = hosts \ {h} /\ services' = services
  BY DEF Revoke
<1>2. TransportsAuthorized'
  BY <1>1 DEF Disconnect, TransportsAuthorized, Registered, TypeOK
<1>3. ServicesAuthorized'
  <2> SUFFICES ASSUME NEW s \in services \ stopped'
               PROVE  transports'[s.conn] \in hosts'
    BY <1>1 DEF ServicesAuthorized
  <2>1. s \in services \ stopped /\ s.conn \notin S /\ s.conn \in Conn
    BY <1>1 DEF Disconnect, ServicesOf, TypeOK, Service
  <2>2. transports'[s.conn] = transports[s.conn] /\ transports[s.conn] # h
    BY <1>1, <2>1 DEF Disconnect
  <2>3. QED
    BY <1>1, <2>1, <2>2 DEF ServicesAuthorized
<1>4. QED
  BY <1>2, <1>3

\* An answered request: a new transport is of a paired host, a new service of a
\* registered transport.
LEMMA RequestAuthorized ==
    ASSUME TypeOK, TransportsAuthorized, ServicesAuthorized, ConstantsAssumption,
           HandleRequest
    PROVE  TransportsAuthorized' /\ ServicesAuthorized'
<1>1. PICK ok \in BOOLEAN : toSup # <<>> /\ Handle(Head(toSup), ok)
  BY DEF HandleRequest
<1> DEFINE r == Head(toSup)
<1>2. r.conn \in Conn
  BY <1>1, HeadRequest DEF Request
<1>3. hosts' = hosts
  BY <1>1 DEF Handle, Take
<1>4. CASE Authenticate(r, ok)
  <2>1. CASE ~ok
    BY <1>3, <1>4, <2>1, AuthorizationUntouched DEF Authenticate
  <2>2. CASE ok
    <3>1. /\ transports[r.conn] = None /\ r.host \in hosts
          /\ transports' = [transports EXCEPT ![r.conn] = r.host]
          /\ UNCHANGED <<services, stopped>>
      BY <1>4, <2>2 DEF Authenticate
    <3>2. TransportsAuthorized'
      BY <1>2, <1>3, <3>1 DEF TransportsAuthorized, Registered, TypeOK
    <3>3. ServicesAuthorized'
      <4> SUFFICES ASSUME NEW s \in services \ stopped
                   PROVE  transports'[s.conn] \in hosts
        BY <1>3, <3>1 DEF ServicesAuthorized
      <4>1. s.conn \in Conn /\ transports[s.conn] \in hosts
        BY DEF ServicesAuthorized, TypeOK, Service
      <4>2. s.conn # r.conn
        BY <3>1, <4>1 DEF ConstantsAssumption, TypeOK
      <4>3. QED
        BY <1>2, <3>1, <4>1, <4>2 DEF TypeOK
    <3>4. QED
      BY <3>2, <3>3
  <2>3. QED
    BY <1>1, <2>1, <2>2
<1>5. CASE SpawnService(r, ok)
  <2>1. CASE ~ok
    BY <1>3, <1>5, <2>1, AuthorizationUntouched DEF SpawnService
  <2>2. CASE ok
    <3> DEFINE n == [conn |-> r.conn, n |-> r.n]
    <3>1. /\ transports[r.conn] # None /\ services' = services \cup {n}
          /\ UNCHANGED <<transports, stopped>>
      BY <1>5, <2>2 DEF SpawnService
    <3>2. transports[r.conn] \in hosts
      BY <1>2, <3>1 DEF TransportsAuthorized, Registered
    <3>3. QED
      BY <1>3, <3>1, <3>2 DEF TransportsAuthorized, ServicesAuthorized, Registered
  <2>3. QED
    BY <1>1, <2>1, <2>2
<1>6. CASE CloseService(r, ok)
  BY <1>3, <1>6, AuthorizationUntouched DEF CloseService
<1>7. CASE Disconnected(r, ok)
  BY <1>3, <1>7, DisconnectAuthorized DEF Disconnected
<1>8. QED
  BY <1>1, <1>4, <1>5, <1>6, <1>7 DEF Handle

\* Every step keeps the authorization of what is registered and what runs.
LEMMA NextAuthorized ==
    ASSUME TypeOK, TransportsAuthorized, ServicesAuthorized, ConstantsAssumption,
           [Next]_vars
    PROVE  TransportsAuthorized' /\ ServicesAuthorized'
<1>1. CASE StartWorker
  BY <1>1, AuthorizationUntouched DEF StartWorker
<1>2. CASE StopWorker
  BY <1>2 DEF StopWorker, NoTransports, TransportsAuthorized, ServicesAuthorized,
              Registered
<1>3. CASE \E h \in Host : Revoke(h)
  BY <1>3, RevokeAuthorized
<1>4. CASE \E h \in Host : PairHost(h)
  BY <1>4 DEF PairHost, TransportsAuthorized, ServicesAuthorized, Registered
<1>5. CASE HandleRequest
  BY <1>5, RequestAuthorized
<1>6. CASE \E s \in closing : CloseDue(s)
  BY <1>6 DEF CloseDue, TransportsAuthorized, ServicesAuthorized, Registered
<1>7. CASE \E s \in services : ReapService(s)
  BY <1>7 DEF ReapService, TransportsAuthorized, ServicesAuthorized, Registered
<1>8. CASE \/ Receive \/ WorkerDies \/ UNCHANGED vars
           \/ \E c \in Conn : Accept(c) \/ RetainConnection(c) \/ Sweep(c)
  BY <1>8, AuthorizationUntouched DEF Receive, WorkerDies, Accept, RetainConnection,
                                      Sweep, vars, supVars
<1>9. ASSUME NEW c \in Conn, Thread(c)
      PROVE  UNCHANGED <<hosts, transports, services, stopped>>
  BY <1>9 DEF Thread, HandshakeFails, Register, SendAuthenticated,
              AuthenticatedAnswered, OpenStream, SpawnAnswered, DropStream,
              DropAnswered, EndSession, SendDisconnected, DisconnectedAnswered,
              CallTimeout, supVars
<1>10. QED
  BY <1>1, <1>2, <1>3, <1>4, <1>5, <1>6, <1>7, <1>8, <1>9, AuthorizationUntouched
     DEF Next

\* For any number of hosts and connections and with calls that time out or not:
\* a registered transport belongs to a host that is paired now (daemon.rs:304,
\* 434), and a service that was not told to stop to such a transport (daemon.rs:
\* 333, 348).
THEOREM AuthorizationHolds == Spec => [](TransportsAuthorized /\ ServicesAuthorized)
<1>1. Init => TransportsAuthorized /\ ServicesAuthorized
  BY DEF Init, NoTransports, TransportsAuthorized, ServicesAuthorized, Registered
<1>2. TypeOK /\ TransportsAuthorized /\ ServicesAuthorized /\ [Next]_vars
        => (TransportsAuthorized /\ ServicesAuthorized)'
  BY NextAuthorized, ConstantsAssumption
<1>3. QED
  BY <1>1, <1>2, TypesCorrect, PTL DEF Spec

\* The two invariants as the runs check them.
THEOREM TransportsAreAuthorized == Spec => []TransportsAuthorized
<1>1. TransportsAuthorized /\ ServicesAuthorized => TransportsAuthorized
  OBVIOUS
<1>2. QED
  BY <1>1, AuthorizationHolds, PTL

\* No service of a revoked host is left running (daemon.rs:333).
THEOREM ServicesAreAuthorized == Spec => []ServicesAuthorized
<1>1. TransportsAuthorized /\ ServicesAuthorized => ServicesAuthorized
  OBVIOUS
<1>2. QED
  BY <1>1, AuthorizationHolds, PTL

-----------------------------------------------------------------------------
(* Admission *)

Applies(c) == \E i \in DOMAIN toSup : toSup[i].type = "Authenticated" /\ toSup[i].conn = c

\* The transports of the supervisor and those that ask to become one.
Places == Registered \cup {c \in Conn : Applies(c)}

PlacesInv == IsFiniteSet(Places) /\ Cardinality(Places) <= MaxTransports

\* A connection has one request on its way, and none that is registered applies.
RequestsInv ==
    /\ \A i, j \in DOMAIN toSup : toSup[i].conn = toSup[j].conn => i = j
    /\ \A i \in DOMAIN toSup :
        toSup[i].type = "Authenticated" => toSup[i].conn \notin Registered

\* A thread waits where its phase lets it, and is not registered before its session
\* or after it.
ThreadInv(c) ==
    /\ call[c] = "Authenticated" => phase[c] = "registered"
    /\ call[c] \notin {"Authenticated", "none"} => phase[c] \in {"serving", "ending"}
    /\ call[c] = "none" => answer[c] = "none"
    /\ call[c] = "none" /\ phase[c] \notin {"serving", "ending"} => c \notin Registered
    /\ call[c] = "Authenticated" /\ answer[c] = "refused" => c \notin Registered
    /\ call[c] = "Disconnected" /\ answer[c] # "none" => c \notin Registered

\* What is on its way belongs to the call its thread waits in.
AskingInv ==
    \A i \in DOMAIN toSup :
        call[toSup[i].conn] = toSup[i].type /\ answer[toSup[i].conn] = "none"

ReplyInv(i) ==
    /\ call[toWorker[i].conn] # "none" /\ answer[toWorker[i].conn] = "none"
    /\ \A j \in DOMAIN toSup : toSup[j].conn # toWorker[i].conn
    /\ \/ call[toWorker[i].conn] = "Disconnected"
       \/ call[toWorker[i].conn] = "Authenticated" /\ ~toWorker[i].ok
       => toWorker[i].conn \notin Registered

RepliesInv ==
    /\ \A i \in DOMAIN toWorker : toWorker[i].type = "Reply" => ReplyInv(i)
    /\ \A i, j \in DOMAIN toWorker :
        /\ toWorker[i].type = "Reply" /\ toWorker[j].type = "Reply"
        /\ toWorker[i].conn = toWorker[j].conn
        => i = j

LiveInv ==
    /\ IsFiniteSet(Connections) /\ Cardinality(Connections) <= MaxTransports
    /\ \A c \in Conn : ThreadInv(c)
    /\ AskingInv
    /\ RepliesInv

\* The requests of a dead worker are still answered.
DeadInv ==
    /\ \A c \in Conn : phase[c] = "fresh" /\ call[c] = "none" /\ answer[c] = "none"
    /\ PlacesInv

AdmissionInv ==
    /\ RequestsInv
    /\ ~worker => ~alive /\ Registered = {} /\ toSup = <<>>
    /\ IF alive THEN LiveInv ELSE DeadInv

\* The cardinality of what shrinks.
LEMMA PlacesShrink ==
    ASSUME PlacesInv, Places' \subseteq Places
    PROVE  PlacesInv'
<1>1. IsFiniteSet(Places') /\ Cardinality(Places') <= Cardinality(Places)
  BY FS_Subset DEF PlacesInv
<1>2. Cardinality(Places) \in Nat /\ Cardinality(Places') \in Nat /\ MaxTransports \in Nat
  BY <1>1, FS_CardinalityType, ConstantsAssumption DEF PlacesInv
<1>3. QED
  BY <1>1, <1>2 DEF PlacesInv

\* In a live worker each of them has a connection of its own.
LEMMA LivePlaces ==
    ASSUME TypeOK, LiveInv
    PROVE  PlacesInv
<1>1. ASSUME NEW c \in Conn, c \in Registered \/ Applies(c) PROVE c \in Connections
  <2>1. ThreadInv(c) /\ call[c] \in CallKinds \cup {"none"}
    BY DEF LiveInv, TypeOK
  <2>2. Applies(c) => call[c] = "Authenticated"
    BY DEF Applies, LiveInv, AskingInv
  <2>3. phase[c] \in {"registered", "serving", "ending"}
    BY <1>1, <2>1, <2>2 DEF ThreadInv
  <2>4. QED
    BY <2>3 DEF Connections
<1>2. Places \subseteq Connections
  BY <1>1 DEF Places, Registered
<1>3. IsFiniteSet(Places) /\ Cardinality(Places) <= Cardinality(Connections)
  BY <1>2, FS_Subset DEF LiveInv
<1>4. /\ Cardinality(Places) \in Nat /\ Cardinality(Connections) \in Nat
      /\ MaxTransports \in Nat /\ Cardinality(Connections) <= MaxTransports
  BY <1>3, FS_CardinalityType, ConstantsAssumption DEF LiveInv
<1>5. QED
  BY <1>3, <1>4 DEF PlacesInv

\* So whoever applies finds a place that is not taken.
LEMMA PlaceLeft ==
    ASSUME TypeOK, AdmissionInv
    PROVE  AdmissionNeverStarves
<1> SUFFICES ASSUME toSup # <<>>, Head(toSup).type = "Authenticated"
             PROVE  Cardinality(Registered) < MaxTransports
  BY DEF AdmissionNeverStarves
<1>1. PlacesInv
  BY LivePlaces DEF AdmissionInv, DeadInv
<1>2. 1 \in DOMAIN toSup /\ Head(toSup) = toSup[1] /\ toSup[1] \in Request
  BY DEF TypeOK
<1>3. PICK c : c = toSup[1].conn
  OBVIOUS
<1>4. c \in Conn /\ Applies(c) /\ c \notin Registered
  BY <1>2, <1>3 DEF Request, Applies, AdmissionInv, RequestsInv
<1>5. Registered \subseteq Places \ {c} /\ c \in Places
  BY <1>4 DEF Places
<1>6. /\ IsFiniteSet(Places \ {c})
      /\ Cardinality(Places \ {c}) = Cardinality(Places) - 1
  BY <1>1, <1>5, FS_RemoveElement DEF PlacesInv
<1>7. IsFiniteSet(Registered) /\ Cardinality(Registered) <= Cardinality(Places \ {c})
  BY <1>5, <1>6, FS_Subset
<1>8. /\ Cardinality(Registered) \in Nat /\ Cardinality(Places) \in Nat
      /\ MaxTransports \in Nat /\ Cardinality(Places) <= MaxTransports
  BY <1>1, <1>7, FS_CardinalityType, ConstantsAssumption DEF PlacesInv
<1>9. QED
  BY <1>6, <1>7, <1>8

LEMMA AdmissionInit == Init => AdmissionInv
<1> SUFFICES ASSUME Init PROVE AdmissionInv
  OBVIOUS
<1>1. Registered = {} /\ toSup = <<>> /\ ~alive
  BY DEF Init, Registered, NoTransports
<1>2. RequestsInv
  BY <1>1 DEF RequestsInv
<1>3. Places = {}
  BY <1>1 DEF Places, Applies
<1>4. PlacesInv
  BY <1>3, FS_EmptySet, ConstantsAssumption DEF PlacesInv
<1>5. DeadInv
  BY <1>4 DEF Init, DeadInv
<1>6. QED
  BY <1>1, <1>2, <1>5 DEF AdmissionInv

-----------------------------------------------------------------------------
\* A host list in the queue changes nothing for the replies in it.
LEMMA RepliesKept ==
    ASSUME TypeOK, RepliesInv, Registered' \subseteq Registered,
           UNCHANGED <<call, answer, toSup>>,
           \/ toWorker' = toWorker
           \/ \E m \in Message : m.type = "Hosts" /\ toWorker' = Append(toWorker, m)
    PROVE  RepliesInv'
<1>1. ASSUME NEW i \in DOMAIN toWorker', toWorker'[i].type = "Reply"
      PROVE  i \in DOMAIN toWorker /\ toWorker'[i] = toWorker[i]
  <2>1. CASE toWorker' = toWorker
    BY <2>1
  <2>2. ASSUME NEW m \in Message, m.type = "Hosts", toWorker' = Append(toWorker, m)
        PROVE  i \in DOMAIN toWorker /\ toWorker'[i] = toWorker[i]
    BY <1>1, <2>2, AppendProperties DEF TypeOK
  <2>3. QED
    BY <2>1, <2>2
<1>2. ASSUME NEW i \in DOMAIN toWorker', toWorker'[i].type = "Reply"
      PROVE  ReplyInv(i)'
  <2>1. ReplyInv(i) /\ toWorker'[i] = toWorker[i]
    BY <1>1, <1>2 DEF RepliesInv
  <2>2. QED
    BY <2>1 DEF ReplyInv
<1>3. ASSUME NEW i \in DOMAIN toWorker', NEW j \in DOMAIN toWorker',
             toWorker'[i].type = "Reply", toWorker'[j].type = "Reply",
             toWorker'[i].conn = toWorker'[j].conn
      PROVE  i = j
  <2>1. /\ i \in DOMAIN toWorker /\ toWorker'[i] = toWorker[i]
        /\ j \in DOMAIN toWorker /\ toWorker'[j] = toWorker[j]
    BY <1>1, <1>3
  <2>2. QED
    BY <1>3, <2>1 DEF RepliesInv
<1>4. QED
  BY <1>2, <1>3 DEF RepliesInv

\* A step that registers nobody and leaves requests and threads alone.
LEMMA FewerRegistered ==
    ASSUME TypeOK, AdmissionInv, Registered' \subseteq Registered,
           UNCHANGED <<worker, alive, phase, call, answer, toSup>>,
           \/ toWorker' = toWorker
           \/ /\ alive
              /\ \E m \in Message : m.type = "Hosts" /\ toWorker' = Append(toWorker, m)
    PROVE  AdmissionInv'
<1>1. RequestsInv'
  BY DEF AdmissionInv, RequestsInv
<1>2. CASE alive
  <2>1. LiveInv
    BY <1>2 DEF AdmissionInv
  <2>2. Connections' = Connections
    BY DEF Connections
  <2>3. ASSUME NEW c \in Conn PROVE ThreadInv(c)'
    BY <2>1 DEF LiveInv, ThreadInv
  <2>4. AskingInv'
    BY <2>1 DEF LiveInv, AskingInv
  <2>5. RepliesInv'
    BY <2>1, RepliesKept DEF LiveInv
  <2>6. LiveInv'
    BY <2>1, <2>2, <2>3, <2>4, <2>5 DEF LiveInv
  <2>7. QED
    BY <1>1, <1>2, <2>6 DEF AdmissionInv
<1>3. CASE ~alive
  <2>1. DeadInv
    BY <1>3 DEF AdmissionInv
  <2>2. Places' \subseteq Places
    BY DEF Places, Applies
  <2>3. DeadInv'
    BY <2>1, <2>2, PlacesShrink DEF DeadInv
  <2>4. Registered = {} => Registered' = {}
    OBVIOUS
  <2>5. QED
    BY <1>1, <1>3, <2>3, <2>4 DEF AdmissionInv
<1>4. QED
  BY <1>2, <1>3

\* The edits of the host list and the ends of services.
LEMMA EditsAdmit ==
    ASSUME TypeOK, AdmissionInv,
           \/ \E h \in Host : Revoke(h) \/ PairHost(h)
           \/ \E s \in closing : CloseDue(s)
           \/ \E s \in services : ReapService(s)
           \/ \E c \in Conn : Sweep(c)
           \/ UNCHANGED vars
    PROVE  AdmissionInv'
<1>1. ASSUME NEW S, Disconnect(S) PROVE Registered' \subseteq Registered
  BY <1>1 DEF Disconnect, Registered
<1>2. ASSUME NEW h \in Host, Revoke(h) PROVE AdmissionInv'
  <2>1. PICK m : m = [type |-> "Hosts", hosts |-> hosts']
    OBVIOUS
  <2>2. m \in Message /\ m.type = "Hosts"
    <3>1. hosts' \in SUBSET Host
      BY <1>2 DEF Revoke, TypeOK
    <3>2. QED
      BY <2>1, <3>1 DEF Message
  <2>3. /\ Registered' \subseteq Registered
        /\ UNCHANGED <<worker, alive, phase, call, answer, toSup>>
    BY <1>1, <1>2 DEF Revoke, mainVars, threadVars
  <2>4. toWorker' = toWorker \/ (alive /\ toWorker' = Append(toWorker, m))
    <3>1. toWorker' = toWorker \/ SendToWorker(m)
      BY <1>2, <2>1 DEF Revoke
    <3>2. SendToWorker(m) => IF alive THEN toWorker' = Append(toWorker, m) ELSE toWorker' = toWorker
      BY DEF SendToWorker
    <3>3. QED
      BY <3>1, <3>2
  <2>5. QED
    BY <2>2, <2>3, <2>4, FewerRegistered
<1>3. ASSUME NEW h \in Host, PairHost(h) PROVE AdmissionInv'
  <2>1. PICK m : m = [type |-> "Hosts", hosts |-> hosts']
    OBVIOUS
  <2>2. m \in Message /\ m.type = "Hosts"
    <3>1. hosts' \in SUBSET Host
      BY <1>3 DEF PairHost, TypeOK
    <3>2. QED
      BY <2>1, <3>1 DEF Message
  <2>3. /\ Registered' \subseteq Registered
        /\ UNCHANGED <<worker, alive, phase, call, answer, toSup>>
    BY <1>3 DEF PairHost, Registered, mainVars, threadVars
  <2>4. toWorker' = toWorker \/ (alive /\ toWorker' = Append(toWorker, m))
    <3>1. toWorker' = toWorker \/ SendToWorker(m)
      BY <1>3, <2>1 DEF PairHost
    <3>2. SendToWorker(m) => IF alive THEN toWorker' = Append(toWorker, m) ELSE toWorker' = toWorker
      BY DEF SendToWorker
    <3>3. QED
      BY <3>1, <3>2
  <2>5. QED
    BY <2>2, <2>3, <2>4, FewerRegistered
<1>4. CASE \/ \E s \in closing : CloseDue(s)
           \/ \E s \in services : ReapService(s)
           \/ \E c \in Conn : Sweep(c)
           \/ UNCHANGED vars
  <2>1. UNCHANGED <<worker, alive, transports, phase, call, answer, toSup, toWorker>>
    BY <1>4 DEF CloseDue, ReapService, Sweep, vars, supVars, mainVars, threadVars
  <2>2. Registered' = Registered
    BY <2>1 DEF Registered
  <2>3. QED
    BY <2>1, <2>2, FewerRegistered
<1>5. QED
  BY <1>2, <1>3, <1>4

\* The supervisor answers a request: only an applicant is registered, and whoever
\* leaves is not.
LEMMA RequestAdmits ==
    ASSUME TypeOK, AdmissionInv, HandleRequest
    PROVE  AdmissionInv'
<1>1. PICK ok \in BOOLEAN : toSup # <<>> /\ Handle(Head(toSup), ok)
  BY DEF HandleRequest
<1>2. PICK r \in Request : r = Head(toSup)
  BY <1>1, HeadRequest
<1>3. PICK c \in Conn : c = r.conn
  BY <1>2 DEF Request
<1>4. 1 \in DOMAIN toSup /\ toSup[1] = r
  BY <1>1, <1>2 DEF TypeOK
<1>5. /\ worker /\ toSup' = Tail(toSup)
      /\ UNCHANGED <<worker, alive, phase, call, answer>>
  BY <1>1 DEF Handle, Take, mainVars, threadVars
<1>6. ASSUME NEW i \in DOMAIN toSup'
      PROVE  i + 1 \in DOMAIN toSup /\ toSup'[i] = toSup[i + 1] /\ i + 1 # 1
  BY <1>1, <1>5, <1>6, HeadTailProperties DEF TypeOK
<1>7. \A i, j \in DOMAIN toSup : toSup[i].conn = toSup[j].conn => i = j
  BY DEF AdmissionInv, RequestsInv
<1>8. ASSUME NEW i \in DOMAIN toSup' PROVE toSup'[i].conn # c
  BY <1>3, <1>4, <1>6, <1>7
<1>9. r.type = "Authenticated" => c \notin Registered
  BY <1>3, <1>4 DEF AdmissionInv, RequestsInv
<1>10. /\ Registered' \subseteq Registered \cup {c}
       /\ Registered' \subseteq Registered \/ (r.type = "Authenticated" /\ ok)
       /\ r.type = "Disconnected" => c \notin Registered'
  <2>1. CASE Authenticate(r, ok)
    <3>1. CASE ok
      <4>1. transports' = [transports EXCEPT ![c] = r.host] /\ r.type = "Authenticated"
        BY <1>3, <2>1, <3>1 DEF Authenticate
      <4>2. \A d \in Conn : d # c => transports'[d] = transports[d]
        BY <4>1 DEF TypeOK
      <4>3. QED
        BY <3>1, <4>1, <4>2 DEF Registered
    <3>2. CASE ~ok
      <4>1. transports' = transports /\ r.type = "Authenticated"
        BY <2>1, <3>2 DEF Authenticate
      <4>2. Registered' = Registered
        BY <4>1 DEF Registered
      <4>3. QED
        BY <4>1, <4>2
    <3>3. QED
      BY <3>1, <3>2
  <2>2. CASE SpawnService(r, ok) \/ CloseService(r, ok)
    <3>1. transports' = transports /\ r.type # "Disconnected"
      BY <2>2 DEF SpawnService, CloseService
    <3>2. Registered' = Registered
      BY <3>1 DEF Registered
    <3>3. QED
      BY <3>1, <3>2
  <2>3. CASE Disconnected(r, ok)
    <3>1. Disconnect({c})
      BY <1>3, <2>3 DEF Disconnected
    <3>2. Registered' \subseteq Registered /\ c \notin Registered'
      BY <3>1 DEF Disconnect, Registered
    <3>3. QED
      BY <3>2
  <2>4. QED
    BY <1>1, <1>2, <2>1, <2>2, <2>3 DEF Handle
<1>11. \A d \in Conn : d # c /\ d \in Registered' => d \in Registered
  BY <1>10
<1>12. RequestsInv'
  <2>1. ASSUME NEW i \in DOMAIN toSup', NEW j \in DOMAIN toSup',
               toSup'[i].conn = toSup'[j].conn
        PROVE  i = j
    <3>1. i + 1 = j + 1
      BY <1>6, <1>7, <2>1
    <3>2. i \in Nat /\ j \in Nat
      BY <1>1, <1>5 DEF TypeOK
    <3>3. QED
      BY <3>1, <3>2
  <2>2. ASSUME NEW i \in DOMAIN toSup', toSup'[i].type = "Authenticated"
        PROVE  toSup'[i].conn \notin Registered'
    <3>1. toSup'[i].conn \notin Registered
      BY <1>6, <2>2 DEF AdmissionInv, RequestsInv
    <3>2. QED
      BY <1>8, <1>10, <3>1
  <2>3. QED
    BY <2>1, <2>2 DEF RequestsInv
<1>13. CASE alive
  <2>1. LiveInv
    BY <1>13 DEF AdmissionInv
  <2>2. call[c] = r.type /\ answer[c] = "none"
    BY <1>3, <1>4, <2>1 DEF LiveInv, AskingInv
  <2>3. r.type # "none"
    BY <1>2 DEF Request
  <2>4. ASSUME NEW d \in Conn PROVE ThreadInv(d)'
    <3>1. ThreadInv(d)
      BY <2>1 DEF LiveInv
    <3>2. CASE d # c
      BY <1>5, <1>11, <3>1, <3>2 DEF ThreadInv
    <3>3. CASE d = c
      BY <1>5, <1>10, <2>2, <2>3, <3>1, <3>3 DEF ThreadInv
    <3>4. QED
      BY <3>2, <3>3
  <2>5. AskingInv'
    BY <1>5, <1>6, <2>1 DEF LiveInv, AskingInv
  <2>6. PICK m : m = [type |-> "Reply", conn |-> r.conn, n |-> r.n, ok |-> ok]
    OBVIOUS
  <2>7. toWorker' = Append(toWorker, m) /\ m.type = "Reply" /\ m.conn = c /\ m.ok = ok
    <3>1. SendToWorker(m)
      BY <1>1, <1>2, <2>6 DEF Handle, Take
    <3>2. QED
      BY <1>3, <1>13, <2>6, <3>1 DEF SendToWorker
  <2>8. /\ DOMAIN toWorker' = DOMAIN toWorker \cup {Len(toWorker) + 1}
        /\ toWorker'[Len(toWorker) + 1] = m
        /\ \A i \in DOMAIN toWorker : toWorker'[i] = toWorker[i]
    <3>1. toWorker \in Seq(Message) /\ m \in Message
      BY <1>2, <2>6 DEF TypeOK, Message, Request
    <3>2. /\ Len(toWorker') = Len(toWorker) + 1 /\ toWorker' \in Seq(Message)
          /\ \A i \in 1 .. Len(toWorker) : toWorker'[i] = toWorker[i]
          /\ toWorker'[Len(toWorker) + 1] = m
      BY <2>7, <3>1, AppendProperties
    <3>3. /\ DOMAIN toWorker = 1 .. Len(toWorker) /\ DOMAIN toWorker' = 1 .. Len(toWorker')
          /\ Len(toWorker) \in Nat
      BY <3>1, <3>2
    <3>4. 1 .. Len(toWorker') = 1 .. Len(toWorker) \cup {Len(toWorker) + 1}
      BY <3>2, <3>3
    <3>5. QED
      BY <3>2, <3>3, <3>4
  <2>9. ASSUME NEW i \in DOMAIN toWorker, toWorker[i].type = "Reply"
        PROVE  toWorker[i].conn \in Conn /\ toWorker[i].conn # c
    <3>1. ReplyInv(i) /\ toWorker[i] \in Message
      BY <2>1, <2>9 DEF LiveInv, RepliesInv, TypeOK
    <3>2. QED
      BY <1>3, <1>4, <2>9, <3>1 DEF ReplyInv, Message
  <2>10. ASSUME NEW i \in DOMAIN toWorker', toWorker'[i].type = "Reply"
         PROVE  ReplyInv(i)'
    <3>1. CASE i \in DOMAIN toWorker
      <4>1. toWorker'[i] = toWorker[i] /\ ReplyInv(i)
        BY <2>1, <2>8, <2>10, <3>1 DEF LiveInv, RepliesInv
      <4>2. toWorker[i].conn \in Conn /\ toWorker[i].conn # c
        BY <2>9, <2>10, <3>1, <4>1
      <4>3. \A j \in DOMAIN toSup' : toSup'[j].conn # toWorker[i].conn
        BY <1>6, <4>1 DEF ReplyInv
      <4>4. QED
        BY <1>5, <1>11, <4>1, <4>2, <4>3 DEF ReplyInv
    <3>2. CASE i = Len(toWorker) + 1
      <4>1. toWorker'[i].conn = c /\ toWorker'[i].ok = ok
        BY <2>7, <2>8, <3>2
      <4>2. r.type = "Authenticated" /\ ~ok => c \notin Registered'
        BY <1>9, <1>10
      <4>3. QED
        BY <1>5, <1>8, <1>10, <2>2, <2>3, <4>1, <4>2 DEF ReplyInv
    <3>3. QED
      BY <2>8, <3>1, <3>2
  <2>11. ASSUME NEW i \in DOMAIN toWorker', NEW j \in DOMAIN toWorker',
                toWorker'[i].type = "Reply", toWorker'[j].type = "Reply",
                toWorker'[i].conn = toWorker'[j].conn
         PROVE  i = j
    <3>1. CASE i \in DOMAIN toWorker /\ j \in DOMAIN toWorker
      BY <2>1, <2>8, <2>11, <3>1 DEF LiveInv, RepliesInv
    <3>2. CASE i \in DOMAIN toWorker /\ j = Len(toWorker) + 1
      BY <2>7, <2>8, <2>9, <2>11, <3>2
    <3>3. CASE i = Len(toWorker) + 1 /\ j \in DOMAIN toWorker
      BY <2>7, <2>8, <2>9, <2>11, <3>3
    <3>4. QED
      BY <2>8, <3>1, <3>2, <3>3
  <2>12. RepliesInv'
    BY <2>10, <2>11 DEF RepliesInv
  <2>13. Connections' = Connections
    BY <1>5 DEF Connections
  <2>14. LiveInv'
    BY <2>1, <2>4, <2>5, <2>12, <2>13 DEF LiveInv
  <2>15. QED
    BY <1>5, <1>12, <1>13, <2>14 DEF AdmissionInv
<1>14. CASE ~alive
  <2>1. DeadInv
    BY <1>14 DEF AdmissionInv
  <2>2. ASSUME NEW d \in Conn, Applies(d)' PROVE Applies(d)
    BY <1>6, <2>2 DEF Applies
  <2>3. r.type = "Authenticated" => Applies(c)
    BY <1>3, <1>4 DEF Applies
  <2>4. Places' \subseteq Places
    BY <1>10, <2>2, <2>3 DEF Places
  <2>5. DeadInv'
    BY <1>5, <2>1, <2>4, PlacesShrink DEF DeadInv
  <2>6. QED
    BY <1>5, <1>12, <1>14, <2>5 DEF AdmissionInv
<1>15. QED
  BY <1>13, <1>14

-----------------------------------------------------------------------------
\* A new worker has no connection; a dead one leaves its transports and requests.
LEMMA WorkerAdmits ==
    ASSUME TypeOK, AdmissionInv, StartWorker \/ StopWorker \/ WorkerDies
    PROVE  AdmissionInv'
<1>1. \A c \in Conn : phase'[c] = "fresh" /\ call'[c] = "none" /\ answer'[c] = "none"
  BY DEF StartWorker, StopWorker, WorkerDies, NoThreads
<1>2. CASE StartWorker
  <2>1. Registered' = {} /\ toSup' = <<>> /\ toWorker' = <<>> /\ worker' /\ alive'
    BY <1>2 DEF StartWorker, AdmissionInv, Registered
  <2>2. Connections' = {}
    BY <1>1 DEF Connections
  <2>3. IsFiniteSet(Connections') /\ Cardinality(Connections') <= MaxTransports
    BY <2>2, FS_EmptySet, ConstantsAssumption
  <2>4. \A c \in Conn : ThreadInv(c)'
    BY <1>1, <2>1 DEF ThreadInv
  <2>5. RequestsInv' /\ AskingInv' /\ RepliesInv'
    BY <2>1 DEF RequestsInv, AskingInv, RepliesInv
  <2>6. QED
    BY <2>1, <2>3, <2>4, <2>5 DEF AdmissionInv, LiveInv
<1>3. CASE StopWorker
  <2>1. Registered' = {} /\ toSup' = <<>> /\ ~worker' /\ ~alive'
    BY <1>3 DEF StopWorker, Registered, NoTransports
  <2>2. Places' = {}
    BY <2>1 DEF Places, Applies
  <2>3. PlacesInv'
    BY <2>2, FS_EmptySet, ConstantsAssumption DEF PlacesInv
  <2>4. RequestsInv'
    BY <2>1 DEF RequestsInv
  <2>5. QED
    BY <1>1, <2>1, <2>3, <2>4 DEF AdmissionInv, DeadInv
<1>4. CASE WorkerDies
  <2>1. /\ alive /\ ~alive' /\ worker' = worker /\ transports' = transports
        /\ toSup' = toSup
    BY <1>4 DEF WorkerDies, supVars
  <2>2. worker
    BY <2>1 DEF AdmissionInv
  <2>3. PlacesInv
    BY <2>1, LivePlaces DEF AdmissionInv
  <2>4. Places' \subseteq Places
    BY <2>1 DEF Places, Applies, Registered
  <2>5. PlacesInv'
    BY <2>3, <2>4, PlacesShrink
  <2>6. RequestsInv'
    BY <2>1 DEF AdmissionInv, RequestsInv, Registered
  <2>7. QED
    BY <1>1, <2>1, <2>2, <2>5, <2>6 DEF AdmissionInv, DeadInv
<1>5. QED
  BY <1>2, <1>3, <1>4

\* A step of a live worker's threads that leaves both queues alone, and every call
\* that still has its answer to come.
LEMMA CallsKept ==
    ASSUME TypeOK, AdmissionInv, alive,
           UNCHANGED <<worker, alive, transports, toSup, toWorker>>,
           \A c \in Conn : call[c] # "none" /\ answer[c] = "none" =>
               call'[c] = call[c] /\ answer'[c] = answer[c],
           \A c \in Conn : ThreadInv(c)',
           IsFiniteSet(Connections'), Cardinality(Connections') <= MaxTransports
    PROVE  AdmissionInv'
<1>1. LiveInv /\ Registered' = Registered
  BY DEF AdmissionInv, Registered
<1>2. RequestsInv'
  BY <1>1 DEF AdmissionInv, RequestsInv
<1>3. AskingInv'
  <2>1. ASSUME NEW i \in DOMAIN toSup
        PROVE  call'[toSup[i].conn] = toSup[i].type /\ answer'[toSup[i].conn] = "none"
    <3>1. toSup[i] \in Request
      BY DEF TypeOK
    <3>2. toSup[i].conn \in Conn /\ toSup[i].type # "none"
      BY <3>1 DEF Request
    <3>3. QED
      BY <1>1, <3>2 DEF LiveInv, AskingInv
  <2>2. QED
    BY <2>1 DEF AskingInv
<1>4. RepliesInv'
  <2>1. ASSUME NEW i \in DOMAIN toWorker, toWorker[i].type = "Reply"
        PROVE  ReplyInv(i)'
    <3>1. toWorker[i].conn \in Conn
      BY <2>1 DEF TypeOK, Message
    <3>2. ReplyInv(i)
      BY <1>1, <2>1 DEF LiveInv, RepliesInv
    <3>3. QED
      BY <1>1, <3>1, <3>2 DEF ReplyInv
  <2>2. QED
    BY <1>1, <2>1 DEF LiveInv, RepliesInv
<1>5. QED
  BY <1>2, <1>3, <1>4 DEF AdmissionInv, LiveInv

\* The worker takes a reply or a host list.
LEMMA ReceiveAdmits ==
    ASSUME TypeOK, AdmissionInv, Receive
    PROVE  AdmissionInv'
<1>1. PICK m \in Message : m = Head(toWorker)
  BY HeadMessage DEF Receive
<1>2. /\ alive /\ toWorker # <<>> /\ toWorker' = Tail(toWorker)
      /\ UNCHANGED <<worker, alive, transports, phase, call, toSup>>
  BY DEF Receive, supVars
<1>3. LiveInv /\ Registered' = Registered /\ Connections' = Connections
  BY <1>2 DEF AdmissionInv, Registered, Connections
<1>4. 1 \in DOMAIN toWorker /\ toWorker[1] = m
  BY <1>1, <1>2 DEF TypeOK
<1>5. ASSUME NEW i \in DOMAIN toWorker'
      PROVE  i + 1 \in DOMAIN toWorker /\ toWorker'[i] = toWorker[i + 1] /\ i + 1 # 1
  BY <1>2, <1>5, HeadTailProperties DEF TypeOK
<1>6. ASSUME NEW d \in Conn
      PROVE  \/ answer'[d] = answer[d]
             \/ /\ m.type = "Reply" /\ m.conn = d /\ call[d] # "none"
                /\ answer'[d] = IF m.ok THEN "ok" ELSE "refused"
  <2>1. CASE ReceiveReply(m)
    BY <2>1 DEF ReceiveReply, TypeOK
  <2>2. CASE ReceiveHosts(m)
    BY <2>2 DEF ReceiveHosts
  <2>3. QED
    BY <1>1, <2>1, <2>2 DEF Receive
<1>7. ASSUME NEW d \in Conn PROVE ThreadInv(d)'
  <2>1. ThreadInv(d)
    BY <1>3 DEF LiveInv
  <2>2. CASE answer'[d] = answer[d]
    BY <1>2, <1>3, <2>1, <2>2 DEF ThreadInv
  <2>3. CASE /\ m.type = "Reply" /\ m.conn = d /\ call[d] # "none"
             /\ answer'[d] = IF m.ok THEN "ok" ELSE "refused"
    <3>1. ReplyInv(1)
      BY <1>3, <1>4, <2>3 DEF LiveInv, RepliesInv
    <3>2. QED
      BY <1>2, <1>3, <1>4, <2>1, <2>3, <3>1 DEF ThreadInv, ReplyInv
  <2>4. QED
    BY <1>6, <2>2, <2>3
<1>8. RequestsInv'
  BY <1>2, <1>3 DEF AdmissionInv, RequestsInv
<1>9. AskingInv'
  <2>1. ASSUME NEW i \in DOMAIN toSup PROVE answer'[toSup[i].conn] = "none"
    <3>1. toSup[i].conn \in Conn /\ answer[toSup[i].conn] = "none"
      BY <1>3 DEF LiveInv, AskingInv, TypeOK, Request
    <3>2. m.type = "Reply" => m.conn # toSup[i].conn
      BY <1>3, <1>4 DEF LiveInv, RepliesInv, ReplyInv
    <3>3. QED
      BY <1>6, <3>1, <3>2
  <2>2. QED
    BY <1>2, <1>3, <2>1 DEF LiveInv, AskingInv
<1>10. ASSUME NEW i \in DOMAIN toWorker', toWorker'[i].type = "Reply"
       PROVE  ReplyInv(i)'
  <2>1. PICK j \in DOMAIN toWorker : j = i + 1 /\ toWorker'[i] = toWorker[j] /\ j # 1
    BY <1>5
  <2>2. ReplyInv(j) /\ toWorker[j].conn \in Conn
    <3>1. toWorker[j] \in Message /\ toWorker[j].type = "Reply"
      BY <1>10, <2>1 DEF TypeOK
    <3>2. toWorker[j].conn \in Conn
      BY <3>1 DEF Message
    <3>3. QED
      BY <1>3, <3>1, <3>2 DEF LiveInv, RepliesInv
  <2>3. m.type = "Reply" => m.conn # toWorker[j].conn
    BY <1>3, <1>4, <1>10, <2>1 DEF LiveInv, RepliesInv
  <2>4. answer'[toWorker[j].conn] = answer[toWorker[j].conn]
    BY <1>6, <2>2, <2>3
  <2>5. QED
    BY <1>2, <1>3, <2>1, <2>2, <2>4 DEF ReplyInv
<1>11. ASSUME NEW i \in DOMAIN toWorker', NEW j \in DOMAIN toWorker',
              toWorker'[i].type = "Reply", toWorker'[j].type = "Reply",
              toWorker'[i].conn = toWorker'[j].conn
       PROVE  i = j
  <2>1. i + 1 = j + 1
    BY <1>3, <1>5, <1>11 DEF LiveInv, RepliesInv
  <2>2. i \in Nat /\ j \in Nat
    BY <1>2 DEF TypeOK
  <2>3. QED
    BY <2>1, <2>2
<1>12. RepliesInv'
  BY <1>10, <1>11 DEF RepliesInv
<1>13. QED
  BY <1>2, <1>3, <1>7, <1>8, <1>9, <1>12 DEF AdmissionInv, LiveInv

\* The connection table of the worker.
LEMMA TableAdmits ==
    ASSUME TypeOK, AdmissionInv, NEW c \in Conn, Accept(c) \/ RetainConnection(c)
    PROVE  AdmissionInv'
<1>1. /\ alive
      /\ UNCHANGED <<worker, alive, transports, call, answer, toSup, toWorker>>
  <2>1. CASE Accept(c)
    BY <2>1 DEF Accept, supVars, mainVars
  <2>2. CASE RetainConnection(c)
    BY <2>2 DEF RetainConnection, supVars, mainVars, AdmissionInv, DeadInv
  <2>3. QED
    BY <2>1, <2>2
<1>2. LiveInv /\ Registered' = Registered
  BY <1>1 DEF AdmissionInv, Registered
<1>3. /\ \A d \in Conn : d # c => phase'[d] = phase[d]
      /\ \/ phase[c] = "fresh" /\ phase'[c] = "handshake"
         \/ phase[c] = "done" /\ phase'[c] = "gone"
  BY DEF Accept, RetainConnection, TypeOK
<1>4. ASSUME NEW d \in Conn PROVE ThreadInv(d)'
  <2>1. ThreadInv(d)
    BY <1>2 DEF LiveInv
  <2>2. CASE d # c
    BY <1>1, <1>2, <1>3, <2>1, <2>2 DEF ThreadInv
  <2>3. CASE d = c
    BY <1>1, <1>2, <1>3, <2>1, <2>3 DEF ThreadInv
  <2>4. QED
    BY <2>2, <2>3
<1>5. IsFiniteSet(Connections') /\ Cardinality(Connections') <= MaxTransports
  <2>1. /\ IsFiniteSet(Connections) /\ Cardinality(Connections) <= MaxTransports
        /\ Cardinality(Connections) \in Nat /\ MaxTransports \in Nat
    BY <1>2, FS_CardinalityType, ConstantsAssumption DEF LiveInv
  <2>2. CASE Accept(c)
    <3>1. Cardinality(Connections) < MaxTransports /\ phase[c] = "fresh"
      BY <2>2 DEF Accept
    <3>2. Connections' = Connections \cup {c} /\ c \notin Connections
      BY <1>3, <3>1 DEF Connections
    <3>3. /\ IsFiniteSet(Connections \cup {c})
          /\ Cardinality(Connections \cup {c}) = Cardinality(Connections) + 1
      BY <2>1, <3>2, FS_AddElement
    <3>4. QED
      BY <2>1, <3>1, <3>2, <3>3
  <2>3. CASE RetainConnection(c)
    <3>1. Connections' \subseteq Connections
      BY <1>3, <2>3 DEF Connections, RetainConnection
    <3>2. IsFiniteSet(Connections') /\ Cardinality(Connections') <= Cardinality(Connections)
      BY <2>1, <3>1, FS_Subset
    <3>3. Cardinality(Connections') \in Nat
      BY <3>2, FS_CardinalityType
    <3>4. QED
      BY <2>1, <3>2, <3>3
  <2>4. QED
    BY <2>2, <2>3
<1>6. QED
  BY <1>1, <1>4, <1>5, CallsKept

\* Sending a request: the thread has no other on its way.
LEMMA SendAdmits ==
    ASSUME TypeOK, AdmissionInv, alive, NEW c \in Conn, NEW r \in Request, NEW k \in CallKinds,
           r.conn = c, r.type = k, call[c] = "none", StartCall(c, r, k),
           IF k = "Authenticated" THEN phase[c] = "registered"
                                  ELSE phase[c] \in {"serving", "ending"},
           UNCHANGED <<worker, alive, transports, phase, answer, toWorker>>
    PROVE  AdmissionInv'
<1>1. LiveInv /\ Registered' = Registered /\ Connections' = Connections
  BY DEF AdmissionInv, Registered, Connections
<1>2. call'[c] = k /\ \A d \in Conn : d # c => call'[d] = call[d]
  BY DEF StartCall, TypeOK
<1>3. ThreadInv(c) /\ answer[c] = "none" /\ k # "none"
  BY <1>1 DEF LiveInv, ThreadInv, CallKinds
<1>4. /\ DOMAIN toSup' = DOMAIN toSup \cup {Len(toSup) + 1}
      /\ toSup'[Len(toSup) + 1] = r
      /\ \A i \in DOMAIN toSup : toSup'[i] = toSup[i]
  <2>1. toSup \in Seq(Request) /\ toSup' = Append(toSup, r)
    BY DEF TypeOK, StartCall
  <2>2. /\ Len(toSup') = Len(toSup) + 1 /\ toSup' \in Seq(Request)
        /\ \A i \in 1 .. Len(toSup) : toSup'[i] = toSup[i]
        /\ toSup'[Len(toSup) + 1] = r
    BY <2>1, AppendProperties
  <2>3. /\ DOMAIN toSup = 1 .. Len(toSup) /\ DOMAIN toSup' = 1 .. Len(toSup')
        /\ Len(toSup) \in Nat
    BY <2>1, <2>2
  <2>4. 1 .. Len(toSup') = 1 .. Len(toSup) \cup {Len(toSup) + 1}
    BY <2>2, <2>3
  <2>5. QED
    BY <2>2, <2>3, <2>4
<1>5. ASSUME NEW i \in DOMAIN toSup PROVE toSup[i].conn \in Conn /\ toSup[i].conn # c
  <2>1. toSup[i] \in Request
    BY DEF TypeOK
  <2>2. toSup[i].conn \in Conn /\ toSup[i].type # "none"
    BY <2>1 DEF Request
  <2>3. QED
    BY <1>1, <2>2 DEF LiveInv, AskingInv
<1>6. ASSUME NEW i \in DOMAIN toSup', NEW j \in DOMAIN toSup', toSup'[i].conn = toSup'[j].conn
      PROVE  i = j
  <2>1. CASE i \in DOMAIN toSup /\ j \in DOMAIN toSup
    BY <1>4, <1>6, <2>1 DEF AdmissionInv, RequestsInv
  <2>2. CASE i = Len(toSup) + 1 \/ j = Len(toSup) + 1
    BY <1>4, <1>5, <1>6, <2>2
  <2>3. QED
    BY <1>4, <2>1, <2>2
<1>7. ASSUME NEW i \in DOMAIN toSup', toSup'[i].type = "Authenticated"
      PROVE  toSup'[i].conn \notin Registered
  <2>1. CASE i \in DOMAIN toSup
    BY <1>4, <1>7, <2>1 DEF AdmissionInv, RequestsInv
  <2>2. CASE i = Len(toSup) + 1
    BY <1>3, <1>4, <1>7, <2>2 DEF ThreadInv
  <2>3. QED
    BY <1>4, <2>1, <2>2
<1>8. RequestsInv'
  BY <1>1, <1>6, <1>7 DEF RequestsInv
<1>9. ASSUME NEW d \in Conn PROVE ThreadInv(d)'
  <2>1. ThreadInv(d)
    BY <1>1 DEF LiveInv
  <2>2. CASE d # c
    BY <1>1, <1>2, <2>1, <2>2 DEF ThreadInv
  <2>3. CASE d = c
    BY <1>1, <1>2, <1>3, <2>1, <2>3 DEF ThreadInv
  <2>4. QED
    BY <2>2, <2>3
<1>10. AskingInv'
  <2>1. ASSUME NEW i \in DOMAIN toSup'
        PROVE  call'[toSup'[i].conn] = toSup'[i].type /\ answer[toSup'[i].conn] = "none"
    <3>1. CASE i \in DOMAIN toSup
      BY <1>1, <1>2, <1>4, <1>5, <3>1 DEF LiveInv, AskingInv
    <3>2. CASE i = Len(toSup) + 1
      BY <1>2, <1>3, <1>4, <3>2
    <3>3. QED
      BY <1>4, <3>1, <3>2
  <2>2. QED
    BY <2>1 DEF AskingInv
<1>11. ASSUME NEW i \in DOMAIN toWorker, toWorker[i].type = "Reply"
       PROVE  ReplyInv(i)'
  <2>1. ReplyInv(i)
    BY <1>1, <1>11 DEF LiveInv, RepliesInv
  <2>2. toWorker[i] \in Message
    BY DEF TypeOK
  <2>3. toWorker[i].conn \in Conn
    BY <1>11, <2>2 DEF Message
  <2>4. toWorker[i].conn # c
    BY <2>1 DEF ReplyInv
  <2>5. \A j \in DOMAIN toSup' : toSup'[j].conn # toWorker[i].conn
    BY <1>4, <2>1, <2>4 DEF ReplyInv
  <2>6. QED
    BY <1>1, <1>2, <2>1, <2>3, <2>4, <2>5 DEF ReplyInv
<1>12. RepliesInv'
  BY <1>1, <1>11 DEF LiveInv, RepliesInv
<1>13. QED
  BY <1>1, <1>8, <1>9, <1>10, <1>12 DEF AdmissionInv, LiveInv

\* The steps of a connection thread, none of which gives up a call.
LEMMA ThreadAdmits ==
    ASSUME TypeOK, PeerKnown, AdmissionInv, ~Timeouts, NEW c \in Conn, Thread(c)
    PROVE  AdmissionInv'
<1>1. \/ HandshakeFails(c) \/ (\E h \in Host : Register(c, h)) \/ SendAuthenticated(c)
      \/ AuthenticatedAnswered(c) \/ OpenStream(c) \/ SpawnAnswered(c)
      \/ (\E s \in held[c] : DropStream(c, s)) \/ DropAnswered(c) \/ EndSession(c)
      \/ SendDisconnected(c) \/ DisconnectedAnswered(c)
  BY DEF Thread, CallTimeout
<1>2. phase[c] # "fresh" \/ call[c] # "none"
  BY <1>1 DEF HandshakeFails, Register, SendAuthenticated, AuthenticatedAnswered, OpenStream,
     SpawnAnswered, DropStream, DropAnswered, EndSession, SendDisconnected, DisconnectedAnswered
<1>3. alive /\ LiveInv
  BY <1>2 DEF AdmissionInv, DeadInv
<1>4. ThreadInv(c) /\ IsFiniteSet(Connections) /\ Cardinality(Connections) <= MaxTransports
  BY <1>3 DEF LiveInv
<1>5. ASSUME NEW p \in Phases \ {"fresh", "gone"}, phase[c] \notin {"fresh", "gone"},
             phase' = [phase EXCEPT ![c] = p]
      PROVE  /\ phase'[c] = p /\ \A d \in Conn : d # c => phase'[d] = phase[d]
             /\ IsFiniteSet(Connections') /\ Cardinality(Connections') <= MaxTransports
  <2>1. phase'[c] = p /\ \A d \in Conn : d # c => phase'[d] = phase[d]
    BY <1>5 DEF TypeOK
  <2>2. Connections' = Connections
    BY <1>5, <2>1 DEF Connections
  <2>3. QED
    BY <1>4, <2>1, <2>2
<1>6. ASSUME UNCHANGED <<worker, alive, transports, toSup, toWorker>>, ThreadInv(c)',
             \A d \in Conn : d # c => /\ phase'[d] = phase[d] /\ call'[d] = call[d]
                                      /\ answer'[d] = answer[d],
             call[c] # "none" => answer[c] # "none",
             IsFiniteSet(Connections'), Cardinality(Connections') <= MaxTransports
      PROVE  AdmissionInv'
  <2>1. ASSUME NEW d \in Conn PROVE ThreadInv(d)'
    <3>1. CASE d # c
      BY <1>3, <1>6, <3>1 DEF LiveInv, ThreadInv, Registered
    <3>2. QED
      BY <1>6, <3>1
  <2>2. \A d \in Conn : call[d] # "none" /\ answer[d] = "none" =>
            call'[d] = call[d] /\ answer'[d] = answer[d]
    BY <1>6
  <2>3. QED
    BY <1>3, <1>6, <2>1, <2>2, CallsKept
<1>7. CASE HandshakeFails(c) \/ (\E h \in Host : Register(c, h)) \/ EndSession(c)
  <2>1. PICK p \in Phases \ {"fresh", "gone"} :
            /\ phase' = [phase EXCEPT ![c] = p]
            /\ UNCHANGED <<worker, alive, transports, call, answer, toSup, toWorker>>
            /\ \/ phase[c] = "handshake" /\ p \in {"registered", "done"}
               \/ phase[c] = "serving" /\ p = "ending" /\ call[c] = "none"
    BY <1>7 DEF HandshakeFails, Register, EndSession, supVars, mainVars, Phases
  <2>2. /\ phase'[c] = p /\ \A d \in Conn : d # c => phase'[d] = phase[d]
        /\ IsFiniteSet(Connections') /\ Cardinality(Connections') <= MaxTransports
    BY <1>5, <2>1
  <2>3. call[c] = "none"
    BY <1>4, <2>1 DEF ThreadInv, TypeOK
  <2>4. Registered' = Registered
    BY <2>1 DEF Registered
  <2>5. ThreadInv(c)'
    BY <1>4, <2>1, <2>2, <2>3, <2>4 DEF ThreadInv
  <2>6. QED
    BY <1>6, <2>1, <2>2, <2>3, <2>5
<1>8. CASE SendAuthenticated(c)
  <2>1. PICK r : r = [type |-> "Authenticated", conn |-> c, n |-> calls[c] + 1, host |-> fp[c]]
    OBVIOUS
  <2>2. /\ phase[c] = "registered" /\ call[c] = "none" /\ StartCall(c, r, "Authenticated")
        /\ UNCHANGED <<worker, alive, transports, phase, answer, toWorker>>
    BY <1>8, <2>1 DEF SendAuthenticated, supVars, mainVars
  <2>3. r \in Request
    BY <2>1, <2>2 DEF PeerKnown, Request, TypeOK
  <2>4. r.conn = c /\ r.type = "Authenticated" /\ "Authenticated" \in CallKinds
    BY <2>1 DEF CallKinds
  <2>5. QED
    BY <1>3, <2>2, <2>3, <2>4, SendAdmits
<1>9. CASE OpenStream(c)
  <2>1. PICK r : r = [type |-> "Spawn", conn |-> c, n |-> calls[c] + 1]
    OBVIOUS
  <2>2. /\ phase[c] = "serving" /\ call[c] = "none" /\ StartCall(c, r, "Spawn")
        /\ UNCHANGED <<worker, alive, transports, phase, answer, toWorker>>
    BY <1>9, <2>1 DEF OpenStream, supVars, mainVars
  <2>3. r \in Request
    BY <2>1 DEF Request, TypeOK
  <2>4. r.conn = c /\ r.type = "Spawn" /\ "Spawn" \in CallKinds
    BY <2>1 DEF CallKinds
  <2>5. QED
    BY <1>3, <2>2, <2>3, <2>4, SendAdmits
<1>10. ASSUME NEW s \in held[c], DropStream(c, s) PROVE AdmissionInv'
  <2>1. PICK r : r = [type |-> "CloseService", conn |-> c, n |-> calls[c] + 1, service |-> s]
    OBVIOUS
  <2>2. /\ phase[c] \in {"serving", "ending"} /\ call[c] = "none"
        /\ StartCall(c, r, "CloseService")
        /\ UNCHANGED <<worker, alive, transports, phase, answer, toWorker>>
    BY <1>10, <2>1 DEF DropStream, supVars, mainVars
  <2>3. r \in Request
    BY <2>1 DEF Request, TypeOK
  <2>4. r.conn = c /\ r.type = "CloseService" /\ "CloseService" \in CallKinds
    BY <2>1 DEF CallKinds
  <2>5. QED
    BY <1>3, <2>2, <2>3, <2>4, SendAdmits
<1>11. CASE SendDisconnected(c)
  <2>1. PICK r : r = [type |-> "Disconnected", conn |-> c, n |-> calls[c] + 1]
    OBVIOUS
  <2>2. /\ phase[c] = "ending" /\ call[c] = "none" /\ StartCall(c, r, "Disconnected")
        /\ UNCHANGED <<worker, alive, transports, phase, answer, toWorker>>
    BY <1>11, <2>1 DEF SendDisconnected, supVars, mainVars
  <2>3. r \in Request
    BY <2>1 DEF Request, TypeOK
  <2>4. r.conn = c /\ r.type = "Disconnected" /\ "Disconnected" \in CallKinds
    BY <2>1 DEF CallKinds
  <2>5. QED
    BY <1>3, <2>2, <2>3, <2>4, SendAdmits
<1>12. ASSUME NEW k \in CallKinds, call[c] = k, answer[c] # "none", EndCall(c),
              UNCHANGED <<worker, alive, transports, toSup, toWorker>>,
              NEW p \in Phases, phase' = [phase EXCEPT ![c] = p],
              \/ /\ k = "Authenticated"
                 /\ p = IF answer[c] = "ok" THEN "serving" ELSE "done"
              \/ k = "Disconnected" /\ p = "done"
              \/ k \in {"Spawn", "CloseService"} /\ p = phase[c]
       PROVE  AdmissionInv'
  <2>1. /\ call'[c] = "none" /\ answer'[c] = "none"
        /\ \A d \in Conn : d # c => call'[d] = call[d] /\ answer'[d] = answer[d]
    BY <1>12 DEF EndCall, TypeOK
  <2>2. phase[c] \in {"registered", "serving", "ending"}
    BY <1>4, <1>12 DEF ThreadInv, CallKinds
  <2>3. p \in Phases \ {"fresh", "gone"}
    BY <1>12, <2>2 DEF Phases
  <2>4. /\ phase'[c] = p /\ \A d \in Conn : d # c => phase'[d] = phase[d]
        /\ IsFiniteSet(Connections') /\ Cardinality(Connections') <= MaxTransports
    BY <1>5, <1>12, <2>2, <2>3
  <2>5. answer[c] \in {"ok", "refused"} /\ Registered' = Registered
    BY <1>12 DEF TypeOK, Registered
  <2>6. p \in {"serving", "ending"} \/ c \notin Registered
    BY <1>4, <1>12, <2>2, <2>5 DEF ThreadInv
  <2>7. ThreadInv(c)'
    BY <2>1, <2>4, <2>5, <2>6 DEF ThreadInv
  <2>8. QED
    BY <1>6, <1>12, <2>1, <2>4, <2>7
<1>13. CASE AuthenticatedAnswered(c)
  BY <1>12, <1>13 DEF AuthenticatedAnswered, supVars, CallKinds, Phases
<1>14. CASE SpawnAnswered(c) \/ DropAnswered(c)
  <2>1. phase[c] \in Phases /\ phase' = [phase EXCEPT ![c] = phase[c]]
    BY <1>14 DEF SpawnAnswered, DropAnswered, TypeOK
  <2>2. /\ call[c] \in {"Spawn", "CloseService"} /\ answer[c] # "none" /\ EndCall(c)
        /\ UNCHANGED <<worker, alive, transports, toSup, toWorker>>
    BY <1>14 DEF SpawnAnswered, DropAnswered, supVars, mainVars
  <2>3. call[c] \in CallKinds
    BY <2>2 DEF CallKinds
  <2>4. QED
    BY <1>12, <2>1, <2>2, <2>3
<1>15. CASE DisconnectedAnswered(c)
  BY <1>12, <1>15 DEF DisconnectedAnswered, supVars, mainVars, CallKinds, Phases
<1>16. QED
  BY <1>1, <1>7, <1>8, <1>9, <1>10, <1>11, <1>13, <1>14, <1>15

\* The supervisor refuses nobody for the limit of transports, whatever number that is,
\* as long as no call outlasts the ten seconds of the broker: an applicant has one of
\* the MAX_TRANSPORTS connections of the worker, and so has every transport
\* (daemon.rs:439, worker.rs:219).
THEOREM AdmissionHolds == ASSUME ~Timeouts PROVE Spec => []AdmissionNeverStarves
<1>1. TypeOK /\ PeerKnown /\ AdmissionInv /\ [Next]_vars => AdmissionInv'
  BY EditsAdmit, RequestAdmits, WorkerAdmits, ReceiveAdmits, TableAdmits, ThreadAdmits DEF Next
<1>2. TypeOK /\ AdmissionInv => AdmissionNeverStarves
  BY PlaceLeft
<1>3. QED
  BY <1>1, <1>2, AdmissionInit, TypesHold, PTL DEF Spec

-----------------------------------------------------------------------------
(* Revocation *)

\* A thread that waits for its authentication has registered its peer, and keeps it
\* while it serves.
PeerInv(c) ==
    /\ call[c] = "none" => answer[c] = "none"
    /\ call[c] = "Authenticated" => phase[c] = "registered"
    /\ phase[c] \in {"registered", "serving"} => peers[c] = fp[c] /\ fp[c] # None

\* A request names a call its connection has made; the last one, the call it is in.
AskedInv(r) ==
    /\ r.n <= calls[r.conn]
    /\ r.n = calls[r.conn] /\ call[r.conn] = "Authenticated" => r.type = "Authenticated"
    /\ r.type = "Authenticated" =>
        r.host = fp[r.conn] /\ phase[r.conn] \notin {"fresh", "handshake"}
    /\ r.type = "Disconnected" => phase[r.conn] \in {"ending", "done", "gone"}

\* A host list without the host of a connection is in the queue behind i.
Told(c, i) ==
    \E j \in DOMAIN toWorker :
        j > i /\ toWorker[j].type = "Hosts" /\ fp[c] \notin toWorker[j].hosts

Covered(c, i) == transports[c] = fp[c] \/ c \in cancelled \/ Told(c, i)

\* A session is open, or is about to be.
Accepted(c) == phase[c] = "serving" \/ (call[c] = "Authenticated" /\ answer[c] = "ok")

Confirms(i, c) ==
    /\ toWorker[i].type = "Reply" /\ toWorker[i].ok
    /\ toWorker[i].conn = c /\ toWorker[i].n = calls[c]
    /\ call[c] = "Authenticated"

SessionsInv ==
    /\ worker
    /\ \A c \in Conn : PeerInv(c)
    /\ \A i \in DOMAIN toSup : AskedInv(toSup[i])
    /\ \A i \in DOMAIN toWorker :
        toWorker[i].type = "Reply" => toWorker[i].n <= calls[toWorker[i].conn]
    /\ \A c \in Conn : Accepted(c) => Covered(c, 0)
    /\ \A c \in Conn : \A i \in DOMAIN toWorker : Confirms(i, c) => Covered(c, i)

\* No session is forgotten, and none of a dead worker is there.
ToldInv ==
    IF alive THEN SessionsInv ELSE \A c \in Conn : phase[c] = "fresh" /\ call[c] = "none"

\* What keeps a session covered.
LEMMA CoveredKept ==
    ASSUME TypeOK, NEW c \in Conn, NEW i \in Nat, Covered(c, i), fp'[c] = fp[c],
           cancelled \subseteq cancelled',
           transports[c] = fp[c] => transports'[c] = fp[c],
           toWorker' = toWorker \/ \E m \in Message : toWorker' = Append(toWorker, m)
    PROVE  Covered(c, i)'
<1>1. CASE transports[c] = fp[c] \/ c \in cancelled
  BY <1>1 DEF Covered
<1>2. CASE Told(c, i)
  <2>1. PICK j \in DOMAIN toWorker :
          j > i /\ toWorker[j].type = "Hosts" /\ fp[c] \notin toWorker[j].hosts
    BY <1>2 DEF Told
  <2>2. j \in DOMAIN toWorker' /\ toWorker'[j] = toWorker[j]
    <3>1. CASE toWorker' = toWorker
      BY <3>1
    <3>2. ASSUME NEW m \in Message, toWorker' = Append(toWorker, m)
          PROVE  j \in DOMAIN toWorker' /\ toWorker'[j] = toWorker[j]
      BY <2>1, <3>2, AppendProperties DEF TypeOK
    <3>3. QED
      BY <3>1, <3>2
  <2>3. QED
    BY <2>1, <2>2 DEF Covered, Told
<1>3. QED
  BY <1>1, <1>2 DEF Covered

\* The word that reaches it.
LEMMA CoveredByWord ==
    ASSUME TypeOK, NEW c \in Conn, NEW i \in Nat, i <= Len(toWorker), fp'[c] = fp[c],
           NEW m \in Message, m.type = "Hosts", fp[c] \notin m.hosts,
           toWorker' = Append(toWorker, m)
    PROVE  Covered(c, i)'
<1>1. /\ Len(toWorker) \in Nat
      /\ Len(toWorker) + 1 \in DOMAIN toWorker' /\ toWorker'[Len(toWorker) + 1] = m
  BY AppendProperties, LenProperties DEF TypeOK
<1>2. Len(toWorker) + 1 > i
  BY <1>1
<1>3. QED
  BY <1>1, <1>2 DEF Covered, Told

\* What is left of it when a message is read.
LEMMA CoveredRead ==
    ASSUME TypeOK, NEW c \in Conn, NEW i \in Nat, Covered(c, i + 1),
           UNCHANGED <<fp, transports>>, cancelled \subseteq cancelled',
           toWorker # <<>>, toWorker' = Tail(toWorker)
    PROVE  Covered(c, i)'
<1>1. CASE transports[c] = fp[c] \/ c \in cancelled
  BY <1>1 DEF Covered
<1>2. CASE Told(c, i + 1)
  <2>1. PICK j \in DOMAIN toWorker :
          j > i + 1 /\ toWorker[j].type = "Hosts" /\ fp[c] \notin toWorker[j].hosts
    BY <1>2 DEF Told
  <2>2. /\ Len(toWorker) \in Nat /\ j \in Nat /\ j <= Len(toWorker)
        /\ Len(toWorker') = Len(toWorker) - 1
        /\ DOMAIN toWorker' = 1..Len(toWorker')
        /\ \A k \in 1..Len(toWorker') : toWorker'[k] = toWorker[k + 1]
    BY <2>1, HeadTailProperties, LenProperties DEF TypeOK
  <2>3. PICK k : k = j - 1
    OBVIOUS
  <2>4. k \in 1..Len(toWorker') /\ k > i /\ k + 1 = j
    BY <2>1, <2>2, <2>3
  <2>5. k \in DOMAIN toWorker' /\ toWorker'[k] = toWorker[j]
    BY <2>2, <2>4
  <2>6. QED
    BY <2>1, <2>4, <2>5 DEF Covered, Told
<1>3. QED
  BY <1>1, <1>2 DEF Covered

\* A session that is open or about to be has a peer.
LEMMA AcceptedPhase ==
    ASSUME NEW c \in Conn, PeerInv(c), Accepted(c) \/ call[c] = "Authenticated"
    PROVE  phase[c] \in {"registered", "serving"} /\ peers[c] = fp[c] /\ fp[c] # None
BY DEF PeerInv, Accepted

\* Steps of the supervisor that add at most one message, which confirms nothing
\* unless the session is registered.
LEMMA SupervisorTold ==
    ASSUME TypeOK, alive, SessionsInv, worker', alive',
           UNCHANGED <<peers, threadVars>>, cancelled \subseteq cancelled',
           \A r \in Request : (\E i \in DOMAIN toSup' : toSup'[i] = r)
                => \E i \in DOMAIN toSup : toSup[i] = r,
           toSup' \in Seq(Request),
           \/ toWorker' = toWorker
           \/ \E m \in Message :
                /\ toWorker' = Append(toWorker, m)
                /\ m.type = "Reply" => m.n <= calls[m.conn]
                /\ \A c \in Conn :
                    m.type = "Reply" /\ m.ok /\ m.conn = c /\ m.n = calls[c]
                        /\ call[c] = "Authenticated"
                    => transports'[c] = fp[c],
           \A c \in Conn : phase[c] \in {"registered", "serving"} /\ transports[c] = fp[c] =>
                \/ transports'[c] = fp[c]
                \/ \E m \in Message : m.type = "Hosts" /\ fp[c] \notin m.hosts
                                      /\ toWorker' = Append(toWorker, m)
    PROVE  ToldInv'
<1>1. UNCHANGED <<phase, fp, call, calls, answer, held, allowed>>
  BY DEF threadVars
<1>2. \A c \in Conn : PeerInv(c)'
  BY <1>1 DEF SessionsInv, PeerInv
<1>3. ASSUME NEW i \in DOMAIN toSup' PROVE AskedInv(toSup[i])'
  <2>1. PICK r \in Request : r = toSup'[i]
    BY <1>3
  <2>2. PICK k \in DOMAIN toSup : toSup[k] = r
    BY <1>3, <2>1
  <2>3. AskedInv(r)
    BY <2>2 DEF SessionsInv
  <2>4. AskedInv(r)'
    BY <1>1, <2>3 DEF AskedInv
  <2>5. QED
    BY <2>1, <2>4
<1>4. ASSUME NEW c \in Conn, NEW i \in Nat, Covered(c, i), i <= Len(toWorker),
             phase[c] \in {"registered", "serving"}
      PROVE  Covered(c, i)'
  <2>1. CASE \E m \in Message : m.type = "Hosts" /\ fp[c] \notin m.hosts
                                /\ toWorker' = Append(toWorker, m)
    BY <1>1, <1>4, <2>1, CoveredByWord
  <2>2. CASE transports[c] = fp[c] => transports'[c] = fp[c]
    BY <1>1, <1>4, <2>2, CoveredKept
  <2>3. QED
    BY <1>4, <2>1, <2>2
<1>5. Len(toWorker) \in Nat /\ DOMAIN toWorker = 1..Len(toWorker)
  BY LenProperties DEF TypeOK
<1>6. ASSUME NEW c \in Conn, Accepted(c)' PROVE Covered(c, 0)'
  <2>1. Accepted(c)
    BY <1>1, <1>6 DEF Accepted
  <2>2. Covered(c, 0) /\ phase[c] \in {"registered", "serving"}
    BY <2>1, AcceptedPhase DEF SessionsInv
  <2>3. QED
    BY <1>4, <1>5, <2>2
<1>7. ASSUME NEW i \in DOMAIN toWorker
      PROVE  /\ i \in Nat /\ i <= Len(toWorker)
             /\ toWorker'[i] = toWorker[i]
             /\ toWorker[i].type = "Reply" => toWorker[i].n <= calls[toWorker[i].conn]
  <2>1. ASSUME toWorker' = toWorker PROVE toWorker'[i] = toWorker[i]
    BY <2>1
  <2>2. ASSUME NEW m \in Message, toWorker' = Append(toWorker, m)
        PROVE  toWorker'[i] = toWorker[i]
    BY <1>7, <2>2, AppendProperties DEF TypeOK
  <2>3. toWorker[i].type = "Reply" => toWorker[i].n <= calls[toWorker[i].conn]
    BY DEF SessionsInv
  <2>4. i \in Nat /\ i <= Len(toWorker)
    BY <1>5
  <2>5. QED
    BY <2>1, <2>2, <2>3, <2>4
<1>8. ASSUME NEW c \in Conn, NEW i \in DOMAIN toWorker, Confirms(i, c)'
      PROVE  Covered(c, i)'
  <2>1. Confirms(i, c)
    BY <1>1, <1>7, <1>8 DEF Confirms
  <2>2. Covered(c, i) /\ phase[c] \in {"registered", "serving"}
    BY <2>1, AcceptedPhase DEF SessionsInv, Confirms
  <2>3. QED
    BY <1>4, <1>7, <2>2
<1>9. CASE toWorker' = toWorker
  <2>1. \A i \in DOMAIN toWorker' :
            toWorker'[i].type = "Reply" => toWorker'[i].n <= calls'[toWorker'[i].conn]
    BY <1>1, <1>7, <1>9
  <2>2. QED
    BY <1>2, <1>3, <1>6, <1>8, <1>9, <2>1 DEF ToldInv, SessionsInv
<1>10. ASSUME NEW m \in Message,
              toWorker' = Append(toWorker, m),
              m.type = "Reply" => m.n <= calls[m.conn],
              \A c \in Conn :
                    m.type = "Reply" /\ m.ok /\ m.conn = c /\ m.n = calls[c]
                        /\ call[c] = "Authenticated"
                    => transports'[c] = fp[c]
       PROVE  ToldInv'
  <2>1. /\ DOMAIN toWorker' = 1..(Len(toWorker) + 1)
        /\ toWorker'[Len(toWorker) + 1] = m
    BY <1>10, AppendProperties DEF TypeOK
  <2>2. ASSUME NEW i \in DOMAIN toWorker'
        PROVE  i \in DOMAIN toWorker \/ toWorker'[i] = m
    BY <1>5, <2>1, <2>2
  <2>3. \A i \in DOMAIN toWorker' :
            toWorker'[i].type = "Reply" => toWorker'[i].n <= calls'[toWorker'[i].conn]
    BY <1>1, <1>7, <1>10, <2>2
  <2>4. ASSUME NEW c \in Conn, NEW i \in DOMAIN toWorker', Confirms(i, c)'
        PROVE  Covered(c, i)'
    <3>1. CASE i \in DOMAIN toWorker
      BY <1>8, <2>4, <3>1
    <3>2. CASE toWorker'[i] = m
      <4>1. transports'[c] = fp'[c]
        BY <1>1, <1>10, <2>4, <3>2 DEF Confirms
      <4>2. QED
        BY <4>1 DEF Covered
    <3>3. QED
      BY <2>2, <2>4, <3>1, <3>2
  <2>5. QED
    BY <1>2, <1>3, <1>6, <2>3, <2>4 DEF ToldInv, SessionsInv
<1>11. QED
  BY <1>9, <1>10

\* The supervisor's steps.
LEMMA HandleTold ==
    ASSUME TypeOK, ToldInv, alive, HandleRequest
    PROVE  ToldInv'
<1>1. PICK ok \in BOOLEAN : toSup # <<>> /\ Handle(Head(toSup), ok)
  BY DEF HandleRequest
<1>2. PICK r : r = Head(toSup)
  OBVIOUS
<1>3. r \in Request /\ r = toSup[1] /\ 1 \in DOMAIN toSup /\ AskedInv(r) /\ SessionsInv
  <2>1. r \in Request /\ r = toSup[1] /\ 1 \in DOMAIN toSup
    BY <1>1, <1>2 DEF TypeOK
  <2>2. QED
    BY <2>1 DEF ToldInv, SessionsInv
<1>4. PICK m : m = [type |-> "Reply", conn |-> r.conn, n |-> r.n, ok |-> ok]
  OBVIOUS
<1>5. /\ m \in Message /\ m.type = "Reply" /\ m.conn = r.conn /\ m.n = r.n /\ m.ok = ok
      /\ r.conn \in Conn
  BY <1>3, <1>4 DEF Message, Request
<1>6. /\ worker' /\ alive' /\ UNCHANGED <<mainVars, threadVars>>
      /\ toSup' = Tail(toSup) /\ toWorker' = Append(toWorker, m)
  BY <1>1, <1>2, <1>4 DEF Handle, Take, SendToWorker, mainVars
<1>7. /\ toSup' \in Seq(Request)
      /\ \A q \in Request : (\E i \in DOMAIN toSup' : toSup'[i] = q)
            => \E i \in DOMAIN toSup : toSup[i] = q
  <2>1. /\ toSup' \in Seq(Request) /\ DOMAIN toSup' = 1..(Len(toSup) - 1)
        /\ \A i \in 1..(Len(toSup) - 1) : toSup'[i] = toSup[i + 1]
    BY <1>1, <1>6, HeadTailProperties DEF TypeOK
  <2>2. \A i \in 1..(Len(toSup) - 1) : i + 1 \in DOMAIN toSup
    BY LenProperties DEF TypeOK
  <2>3. QED
    BY <2>1, <2>2
<1>8. r.type = "Authenticated" => r.host = fp[r.conn]
  BY <1>3 DEF AskedInv
<1>9. transports \in [Conn -> Host \cup {None}]
  BY DEF TypeOK
<1>10. CASE Authenticate(r, ok)
  <2>1. ok => transports' = [transports EXCEPT ![r.conn] = fp[r.conn]]
    BY <1>8, <1>10 DEF Authenticate
  <2>2. ~ok => transports' = transports
    BY <1>10 DEF Authenticate
  <2>3. \A c \in Conn : transports[c] = fp[c] => transports'[c] = fp[c]
    BY <1>9, <2>1, <2>2
  <2>4. \A c \in Conn : m.ok /\ m.conn = c => transports'[c] = fp[c]
    BY <1>5, <1>9, <2>1
  <2>5. QED
    BY <1>3, <1>5, <1>6, <1>7, <2>3, <2>4, SupervisorTold DEF AskedInv, mainVars
<1>11. CASE r.type # "Authenticated"
            /\ \A c \in Conn : phase[c] \in {"registered", "serving"}
                                => transports'[c] = transports[c]
  <2>1. ~(r.n = calls[r.conn] /\ call[r.conn] = "Authenticated")
    BY <1>3, <1>11 DEF AskedInv
  <2>2. \A c \in Conn : ~(m.conn = c /\ m.n = calls[c] /\ call[c] = "Authenticated")
    BY <1>5, <2>1
  <2>3. QED
    BY <1>3, <1>5, <1>6, <1>7, <1>11, <2>2, SupervisorTold DEF AskedInv, mainVars
<1>12. CASE SpawnService(r, ok) \/ CloseService(r, ok)
  BY <1>11, <1>12 DEF SpawnService, CloseService
<1>13. CASE Disconnected(r, ok)
  <2>1. r.type = "Disconnected" /\ phase[r.conn] \in {"ending", "done", "gone"}
    BY <1>3, <1>13 DEF Disconnected, AskedInv
  <2>2. \A c \in Conn \ {r.conn} : transports'[c] = transports[c]
    BY <1>13 DEF Disconnected, Disconnect
  <2>3. \A c \in Conn : phase[c] \in {"registered", "serving"} => transports'[c] = transports[c]
    BY <2>1, <2>2
  <2>4. QED
    BY <1>11, <2>1, <2>3
<1>14. QED
  BY <1>1, <1>2, <1>10, <1>12, <1>13 DEF Handle

LEMMA EditsTold ==
    ASSUME TypeOK, ToldInv, alive,
           \/ \E h \in Host : Revoke(h) \/ PairHost(h)
           \/ \E s \in closing : CloseDue(s)
           \/ \E s \in services : ReapService(s)
           \/ \E c \in Conn : Sweep(c)
           \/ UNCHANGED vars
    PROVE  ToldInv'
<1>1. SessionsInv /\ worker
  BY DEF ToldInv, SessionsInv
<1>2. toSup \in Seq(Request) /\ transports \in [Conn -> Host \cup {None}]
  BY DEF TypeOK
<1>3. ASSUME NEW h \in Host, Revoke(h) PROVE ToldInv'
  <2>1. PICK m : m = [type |-> "Hosts", hosts |-> hosts \ {h}]
    OBVIOUS
  <2>2. m \in Message /\ m.type = "Hosts" /\ h \notin m.hosts
    BY <2>1 DEF Message, TypeOK
  <2>3. /\ worker' /\ alive' /\ UNCHANGED <<peers, threadVars, toSup, cancelled>>
        /\ toWorker' = Append(toWorker, m)
    BY <1>1, <1>3, <2>1 DEF Revoke, SendToWorker, mainVars
  <2>4. \A c \in Conn : transports[c] # h => transports'[c] = transports[c]
    BY <1>2, <1>3 DEF Revoke, Disconnect
  <2>5. ASSUME NEW c \in Conn, transports[c] = fp[c]
        PROVE  transports'[c] = fp[c] \/ (m.type = "Hosts" /\ fp[c] \notin m.hosts)
    BY <2>2, <2>4, <2>5
  <2>6. QED
    BY <1>1, <1>2, <2>2, <2>3, <2>5, SupervisorTold
<1>4. ASSUME NEW h \in Host, PairHost(h) PROVE ToldInv'
  <2>1. PICK m : m = [type |-> "Hosts", hosts |-> hosts \cup {h}]
    OBVIOUS
  <2>2. m \in Message /\ m.type = "Hosts"
    BY <2>1 DEF Message, TypeOK
  <2>3. /\ worker' /\ alive' /\ UNCHANGED <<peers, threadVars, toSup, cancelled, transports>>
        /\ toWorker' = Append(toWorker, m)
    BY <1>1, <1>4, <2>1 DEF PairHost, SendToWorker, mainVars
  <2>4. QED
    BY <1>1, <1>2, <2>2, <2>3, SupervisorTold
<1>5. CASE \/ \E s \in closing : CloseDue(s)
           \/ \E s \in services : ReapService(s)
           \/ \E c \in Conn : Sweep(c)
           \/ UNCHANGED vars
  <2>1. /\ worker' /\ alive' /\ UNCHANGED <<peers, threadVars, toSup, transports, toWorker>>
        /\ cancelled \subseteq cancelled'
    BY <1>1, <1>5 DEF CloseDue, ReapService, Sweep, vars, supVars, mainVars
  <2>2. QED
    BY <1>1, <1>2, <2>1, SupervisorTold
<1>6. QED
  BY <1>3, <1>4, <1>5

\* A worker that starts, ends or dies has no sessions.
LEMMA WorkerTold ==
    ASSUME TypeOK, ToldInv, StartWorker \/ StopWorker \/ WorkerDies
    PROVE  ToldInv'
<1>1. /\ \A c \in Conn : phase'[c] = "fresh" /\ call'[c] = "none" /\ answer'[c] = "none"
      /\ alive' => worker' /\ toSup' = <<>> /\ toWorker' = <<>>
  BY DEF StartWorker, StopWorker, WorkerDies, NoThreads
<1>2. QED
  BY <1>1 DEF ToldInv, SessionsInv, PeerInv, Accepted

\* Without a worker nothing is opened.
LEMMA DeadTold ==
    ASSUME TypeOK, ToldInv, ~alive, [Next]_vars, ~StartWorker
    PROVE  ToldInv'
<1>1. \A c \in Conn : phase[c] = "fresh" /\ call[c] = "none"
  BY DEF ToldInv
<1>2. ASSUME NEW c \in Conn, Accept(c) \/ RetainConnection(c) \/ Sweep(c) \/ Thread(c)
      PROVE  FALSE
  BY <1>1, <1>2 DEF Accept, RetainConnection, Sweep, Connections, Thread, HandshakeFails,
       Register, SendAuthenticated, AuthenticatedAnswered, OpenStream, SpawnAnswered, DropStream,
       DropAnswered, EndSession, SendDisconnected, DisconnectedAnswered, CallTimeout
<1>3. ~Receive /\ ~WorkerDies
  BY DEF Receive, WorkerDies
<1>4. CASE StopWorker
  BY <1>4, WorkerTold
<1>5. ASSUME UNCHANGED <<mainVars, threadVars>> PROVE ToldInv'
  BY <1>1, <1>5 DEF ToldInv, mainVars, threadVars
<1>6. CASE HandleRequest
  BY <1>5, <1>6 DEF HandleRequest, Handle, Take
<1>7. CASE \/ \E h \in Host : Revoke(h) \/ PairHost(h)
           \/ \E s \in closing : CloseDue(s)
           \/ \E s \in services : ReapService(s)
           \/ UNCHANGED vars
  BY <1>5, <1>7 DEF Revoke, PairHost, CloseDue, ReapService, vars
<1>8. QED
  BY <1>2, <1>3, <1>4, <1>6, <1>7 DEF Next

\* The worker's main thread.
LEMMA ReceiveTold ==
    ASSUME TypeOK, ToldInv, Receive
    PROVE  ToldInv'
<1>1. SessionsInv /\ alive /\ worker /\ alive' /\ worker'
  BY DEF Receive, ToldInv, SessionsInv, supVars
<1>2. /\ toWorker # <<>> /\ toWorker' = Tail(toWorker)
      /\ UNCHANGED <<transports, peers, phase, fp, call, calls, toSup>>
  BY DEF Receive, supVars
<1>3. PICK m : m = Head(toWorker)
  OBVIOUS
<1>4. m \in Message /\ m = toWorker[1] /\ 1 \in DOMAIN toWorker
  BY <1>2, <1>3 DEF TypeOK
<1>5. /\ Len(toWorker) \in Nat /\ DOMAIN toWorker = 1..Len(toWorker)
      /\ DOMAIN toWorker' = 1..(Len(toWorker) - 1)
      /\ \A i \in 1..(Len(toWorker) - 1) : toWorker'[i] = toWorker[i + 1]
  BY <1>2, HeadTailProperties, LenProperties DEF TypeOK
<1>6. ASSUME NEW i \in DOMAIN toWorker'
      PROVE  i \in Nat /\ i + 1 \in DOMAIN toWorker /\ toWorker'[i] = toWorker[i + 1]
  BY <1>5
<1>7. CASE ReceiveReply(m)
  <2>1. m.type = "Reply" /\ UNCHANGED cancelled /\ m.conn \in Conn
    BY <1>4, <1>7 DEF ReceiveReply, Message
  <2>2. \A c \in Conn : c # m.conn => answer'[c] = answer[c]
    BY <1>7 DEF ReceiveReply, TypeOK
  <2>3. answer'[m.conn] # answer[m.conn] =>
            /\ call[m.conn] # "none" /\ calls[m.conn] = m.n
            /\ answer'[m.conn] = IF m.ok THEN "ok" ELSE "refused"
    BY <1>7, <2>1 DEF ReceiveReply, TypeOK
  <2>4. ASSUME NEW c \in Conn PROVE PeerInv(c)'
    <3>1. PeerInv(c)
      BY <1>1 DEF SessionsInv
    <3>2. QED
      BY <1>2, <2>2, <2>3, <3>1 DEF PeerInv
  <2>5. ASSUME NEW c \in Conn, Covered(c, 0) PROVE Covered(c, 1)
    <3>1. CASE transports[c] = fp[c] \/ c \in cancelled
      BY <3>1 DEF Covered
    <3>2. CASE Told(c, 0)
      <4>1. PICK j \in DOMAIN toWorker :
              j > 0 /\ toWorker[j].type = "Hosts" /\ fp[c] \notin toWorker[j].hosts
        BY <3>2 DEF Told
      <4>2. j # 1
        BY <1>4, <2>1, <4>1
      <4>3. j > 1
        BY <1>5, <4>1, <4>2
      <4>4. QED
        BY <4>1, <4>3 DEF Covered, Told
    <3>3. QED
      BY <2>5, <3>1, <3>2 DEF Covered
  <2>6. ASSUME NEW c \in Conn, Accepted(c)' PROVE Covered(c, 1)
    <3>1. CASE Accepted(c)
      BY <1>1, <2>5, <3>1 DEF SessionsInv
    <3>2. CASE ~Accepted(c)
      <4>1. call[c] = "Authenticated" /\ answer'[c] = "ok" /\ answer[c] # "ok"
        BY <1>2, <2>6, <3>2 DEF Accepted
      <4>2. c = m.conn /\ calls[c] = m.n /\ m.ok
        BY <2>2, <2>3, <4>1
      <4>3. Confirms(1, c)
        BY <1>4, <2>1, <4>1, <4>2 DEF Confirms
      <4>4. QED
        BY <1>1, <1>4, <4>3 DEF SessionsInv
    <3>3. QED
      BY <3>1, <3>2
  <2>7. ASSUME NEW c \in Conn, Accepted(c)' PROVE Covered(c, 0)'
    <3>1. Covered(c, 0 + 1)
      BY <2>6, <2>7
    <3>2. QED
      BY <1>2, <2>1, <3>1, CoveredRead
  <2>8. ASSUME NEW c \in Conn, NEW i \in DOMAIN toWorker', Confirms(i, c)'
        PROVE  Covered(c, i)'
    <3>1. Confirms(i + 1, c)
      BY <1>2, <1>6, <2>8 DEF Confirms
    <3>2. Covered(c, i + 1) /\ i \in Nat
      BY <1>1, <1>6, <3>1 DEF SessionsInv
    <3>3. QED
      BY <1>2, <2>1, <3>2, CoveredRead
  <2>9. \A i \in DOMAIN toSup' : AskedInv(toSup[i])'
    BY <1>1, <1>2 DEF SessionsInv, AskedInv
  <2>10. \A i \in DOMAIN toWorker' :
            toWorker'[i].type = "Reply" => toWorker'[i].n <= calls'[toWorker'[i].conn]
    BY <1>1, <1>2, <1>6 DEF SessionsInv
  <2>11. QED
    BY <1>1, <2>4, <2>7, <2>8, <2>9, <2>10 DEF ToldInv, SessionsInv
<1>8. CASE ReceiveHosts(m)
  <2>1. m.type = "Hosts" /\ UNCHANGED answer /\ cancelled \subseteq cancelled'
    BY <1>8 DEF ReceiveHosts
  <2>2. \A c \in Conn : PeerInv(c)'
    BY <1>1, <1>2, <2>1 DEF SessionsInv, PeerInv
  <2>3. ASSUME NEW c \in Conn, phase[c] \in {"registered", "serving"},
               peers[c] = fp[c], fp[c] # None, fp[c] \notin m.hosts
        PROVE  c \in cancelled'
    BY <1>8, <2>3 DEF ReceiveHosts, Connections
  <2>4. ASSUME NEW c \in Conn, Accepted(c)' PROVE Covered(c, 0)'
    <3>1. Accepted(c)
      BY <1>2, <2>1, <2>4 DEF Accepted
    <3>2. /\ Covered(c, 0) /\ phase[c] \in {"registered", "serving"}
          /\ peers[c] = fp[c] /\ fp[c] # None
      BY <1>1, <3>1, AcceptedPhase DEF SessionsInv
    <3>3. CASE fp[c] \notin m.hosts
      BY <2>3, <3>2, <3>3 DEF Covered
    <3>4. CASE transports[c] = fp[c] \/ c \in cancelled
      BY <1>2, <2>1, <3>4 DEF Covered
    <3>5. CASE Told(c, 0) /\ fp[c] \in m.hosts
      <4>1. PICK j \in DOMAIN toWorker :
              j > 0 /\ toWorker[j].type = "Hosts" /\ fp[c] \notin toWorker[j].hosts
        BY <3>5 DEF Told
      <4>2. j # 1
        BY <1>4, <3>5, <4>1
      <4>3. j > 0 + 1
        BY <1>5, <4>1, <4>2
      <4>4. Covered(c, 0 + 1)
        BY <4>1, <4>3 DEF Covered, Told
      <4>5. QED
        BY <1>2, <2>1, <4>4, CoveredRead
    <3>6. QED
      BY <3>2, <3>3, <3>4, <3>5 DEF Covered
  <2>5. ASSUME NEW c \in Conn, NEW i \in DOMAIN toWorker', Confirms(i, c)'
        PROVE  Covered(c, i)'
    <3>1. Confirms(i + 1, c)
      BY <1>2, <1>6, <2>5 DEF Confirms
    <3>2. Covered(c, i + 1) /\ i \in Nat
      BY <1>1, <1>6, <3>1 DEF SessionsInv
    <3>3. QED
      BY <1>2, <2>1, <3>2, CoveredRead
  <2>6. \A i \in DOMAIN toSup' : AskedInv(toSup[i])'
    BY <1>1, <1>2 DEF SessionsInv, AskedInv
  <2>7. \A i \in DOMAIN toWorker' :
            toWorker'[i].type = "Reply" => toWorker'[i].n <= calls'[toWorker'[i].conn]
    BY <1>1, <1>2, <1>6 DEF SessionsInv
  <2>8. QED
    BY <1>1, <2>2, <2>4, <2>5, <2>6, <2>7 DEF ToldInv, SessionsInv
<1>9. QED
  BY <1>3, <1>7, <1>8 DEF Receive

\* A step of one thread, which may make a call and has not got an answer.
LEMMA ThreadTold ==
    ASSUME TypeOK, SessionsInv, alive, alive', NEW c \in Conn,
           UNCHANGED <<worker, transports, cancelled, toWorker>>,
           \A d \in Conn \ {c} :
                /\ phase'[d] = phase[d] /\ peers'[d] = peers[d] /\ fp'[d] = fp[d]
                /\ call'[d] = call[d] /\ calls'[d] = calls[d] /\ answer'[d] = answer[d],
           PeerInv(c)',
           fp'[c] = fp[c] \/ phase[c] = "handshake",
           Accepted(c)' => Accepted(c),
           call'[c] = "Authenticated" => call[c] = "Authenticated" \/ calls'[c] = calls[c] + 1,
           calls'[c] \in {calls[c], calls[c] + 1},
           \A r \in Request : r.conn = c /\ AskedInv(r) => AskedInv(r)',
           \/ toSup' = toSup
           \/ \E r \in Request :
                toSup' = Append(toSup, r) /\ r.conn = c /\ AskedInv(r)'
    PROVE  ToldInv'
<1>1. calls \in [Conn -> Nat] /\ toSup \in Seq(Request) /\ toWorker \in Seq(Message)
  BY DEF TypeOK
<1>2. ASSUME NEW d \in Conn PROVE PeerInv(d)'
  <2>1. CASE d = c
    BY <2>1
  <2>2. CASE d # c
    <3>1. PeerInv(d)
      BY DEF SessionsInv
    <3>2. QED
      BY <2>2, <3>1 DEF PeerInv
  <2>3. QED
    BY <2>1, <2>2
<1>3. ASSUME NEW r \in Request, AskedInv(r) PROVE AskedInv(r)'
  <2>1. CASE r.conn = c
    BY <1>3, <2>1
  <2>2. CASE r.conn # c
    <3>1. r.conn \in Conn \ {c}
      BY <2>2 DEF Request
    <3>2. QED
      BY <1>3, <3>1 DEF AskedInv
  <2>3. QED
    BY <2>1, <2>2
<1>4. ASSUME NEW i \in DOMAIN toSup' PROVE AskedInv(toSup[i])'
  <2>1. ASSUME NEW k \in DOMAIN toSup, toSup'[i] = toSup[k] PROVE AskedInv(toSup[i])'
    <3>1. PICK r \in Request : r = toSup[k]
      BY <1>1
    <3>2. AskedInv(r)
      BY <3>1 DEF SessionsInv
    <3>3. AskedInv(r)'
      BY <1>3, <3>2
    <3>4. QED
      BY <2>1, <3>1, <3>3
  <2>2. CASE toSup' = toSup
    BY <1>4, <2>1, <2>2
  <2>3. ASSUME NEW r \in Request, toSup' = Append(toSup, r), AskedInv(r)'
        PROVE  AskedInv(toSup[i])'
    <3>1. i \in DOMAIN toSup \/ i = Len(toSup) + 1
      BY <1>1, <1>4, <2>3, AppendProperties, LenProperties
    <3>2. CASE i \in DOMAIN toSup
      <4>1. toSup'[i] = toSup[i]
        BY <1>1, <2>3, <3>2, AppendProperties
      <4>2. QED
        BY <2>1, <3>2, <4>1
    <3>3. CASE i = Len(toSup) + 1
      <4>1. toSup'[i] = r
        BY <1>1, <2>3, <3>3, AppendProperties
      <4>2. QED
        BY <2>3, <4>1
    <3>4. QED
      BY <3>1, <3>2, <3>3
  <2>4. QED
    BY <2>2, <2>3
<1>5. ASSUME NEW i \in DOMAIN toWorker', toWorker'[i].type = "Reply"
      PROVE  toWorker'[i].n <= calls'[toWorker'[i].conn]
  <2>1. PICK d, n : d = toWorker[i].conn /\ n = toWorker[i].n
    OBVIOUS
  <2>2. d \in Conn /\ n \in Nat /\ n <= calls[d]
    BY <1>1, <1>5, <2>1 DEF SessionsInv, Message
  <2>3. calls'[d] \in {calls[d], calls[d] + 1}
    BY <2>2
  <2>4. n <= calls'[d]
    BY <1>1, <2>2, <2>3
  <2>5. QED
    BY <2>1, <2>4
<1>6. ASSUME NEW d \in Conn, Accepted(d)' PROVE Accepted(d)
  <2>1. CASE d = c
    BY <1>6, <2>1
  <2>2. CASE d # c
    BY <1>6, <2>2 DEF Accepted
  <2>3. QED
    BY <2>1, <2>2
<1>7. ASSUME NEW d \in Conn, NEW i \in DOMAIN toWorker', Confirms(i, d)'
      PROVE  Confirms(i, d)
  <2>1. CASE d = c
    <3>1. /\ toWorker[i].type = "Reply" /\ toWorker[i].ok /\ toWorker[i].conn = c
          /\ toWorker[i].n = calls'[c] /\ call'[c] = "Authenticated"
      BY <1>7, <2>1 DEF Confirms
    <3>2. calls[c] \in Nat /\ toWorker[i].n \in Nat /\ toWorker[i].n <= calls[c]
      BY <1>1, <3>1 DEF SessionsInv, Message
    <3>3. calls'[c] = calls[c]
      BY <3>1, <3>2
    <3>4. call[c] = "Authenticated"
      BY <3>1, <3>2, <3>3
    <3>5. QED
      BY <2>1, <3>1, <3>3, <3>4 DEF Confirms
  <2>2. CASE d # c
    BY <1>7, <2>2 DEF Confirms
  <2>3. QED
    BY <2>1, <2>2
<1>8. ASSUME NEW d \in Conn, NEW i \in Nat, Covered(d, i), phase[d] \in {"registered", "serving"}
      PROVE  Covered(d, i)'
  <2>1. fp'[d] = fp[d]
    BY <1>8
  <2>2. QED
    BY <1>8, <2>1, CoveredKept
<1>9. ASSUME NEW d \in Conn, Accepted(d)' PROVE Covered(d, 0)'
  <2>1. Accepted(d)
    BY <1>6, <1>9
  <2>2. Covered(d, 0) /\ phase[d] \in {"registered", "serving"}
    BY <2>1, AcceptedPhase DEF SessionsInv
  <2>3. QED
    BY <1>8, <2>2
<1>10. ASSUME NEW d \in Conn, NEW i \in DOMAIN toWorker', Confirms(i, d)'
       PROVE  Covered(d, i)'
  <2>1. Confirms(i, d)
    BY <1>7, <1>10
  <2>2. Covered(d, i) /\ phase[d] \in {"registered", "serving"}
    BY <2>1, AcceptedPhase DEF SessionsInv, Confirms
  <2>3. i \in Nat
    BY <1>1, LenProperties
  <2>4. QED
    BY <1>8, <2>2, <2>3
<1>11. worker'
  BY DEF SessionsInv
<1>12. QED
  BY <1>2, <1>4, <1>5, <1>9, <1>10, <1>11 DEF ToldInv, SessionsInv

\* A thread that makes a call.
LEMMA CallTold ==
    ASSUME TypeOK, ToldInv, NEW c \in Conn, NEW r \in Request, NEW kind \in CallKinds,
           StartCall(c, r, kind), r.conn = c, r.n = calls[c] + 1, r.type = kind,
           call[c] = "none", phase[c] \notin {"fresh", "handshake", "done", "gone"},
           kind = "Authenticated" => phase[c] = "registered" /\ r.host = fp[c],
           kind = "Disconnected" => phase[c] = "ending",
           UNCHANGED <<supVars, alive, cancelled, phase, fp, answer, toWorker>>,
           peers' = peers \/ (kind = "Disconnected" /\ peers' = [peers EXCEPT ![c] = None])
    PROVE  ToldInv'
<1>1. alive /\ SessionsInv /\ PeerInv(c) /\ alive'
  BY DEF ToldInv, SessionsInv
<1>2. /\ calls \in [Conn -> Nat] /\ call \in [Conn -> CallKinds \cup {"none"}]
      /\ peers \in [Conn -> Host \cup {None}]
  BY DEF TypeOK
<1>3. /\ call' = [call EXCEPT ![c] = kind] /\ calls' = [calls EXCEPT ![c] = calls[c] + 1]
      /\ toSup' = Append(toSup, r)
  BY DEF StartCall
<1>4. call'[c] = kind /\ calls'[c] = calls[c] + 1 /\ calls[c] \in Nat
  BY <1>2, <1>3
<1>5. \A d \in Conn \ {c} :
                /\ phase'[d] = phase[d] /\ peers'[d] = peers[d] /\ fp'[d] = fp[d]
                /\ call'[d] = call[d] /\ calls'[d] = calls[d] /\ answer'[d] = answer[d]
  BY <1>2, <1>3
<1>6. PeerInv(c)'
  <2>1. answer'[c] = "none" /\ kind # "none"
    BY <1>1 DEF PeerInv, CallKinds
  <2>2. phase[c] \in {"registered", "serving"} => peers'[c] = fp[c] /\ fp[c] # None
    BY <1>1 DEF PeerInv
  <2>3. QED
    BY <1>4, <2>1, <2>2 DEF PeerInv
<1>7. Accepted(c)' => Accepted(c)
  BY <1>1 DEF Accepted, PeerInv
<1>8. ASSUME NEW q \in Request, q.conn = c, AskedInv(q) PROVE AskedInv(q)'
  <2>1. q.n \in Nat /\ q.n <= calls[c]
    BY <1>8 DEF AskedInv, Request
  <2>2. q.n <= calls'[c] /\ q.n # calls'[c]
    BY <1>4, <2>1
  <2>3. QED
    BY <1>8, <2>2 DEF AskedInv
<1>9. AskedInv(r)'
  <2>1. r.n <= calls'[c]
    BY <1>4
  <2>2. QED
    BY <1>4, <2>1 DEF AskedInv
<1>10. UNCHANGED <<worker, transports>>
  BY DEF supVars
<1>11. QED
  BY <1>1, <1>3, <1>4, <1>5, <1>6, <1>7, <1>8, <1>9, <1>10, ThreadTold

\* A thread that makes no call.
LEMMA MoveTold ==
    ASSUME TypeOK, ToldInv, NEW c \in Conn, alive,
           UNCHANGED <<supVars, alive, cancelled, calls, toSup, toWorker>>,
           \A d \in Conn \ {c} :
                /\ phase'[d] = phase[d] /\ peers'[d] = peers[d] /\ fp'[d] = fp[d]
                /\ call'[d] = call[d] /\ answer'[d] = answer[d],
           PeerInv(c)',
           fp'[c] = fp[c] \/ phase[c] = "handshake",
           phase[c] \notin {"fresh", "handshake"} => phase'[c] \notin {"fresh", "handshake"},
           phase[c] \in {"ending", "done", "gone"} => phase'[c] \in {"ending", "done", "gone"},
           Accepted(c)' => Accepted(c),
           call'[c] = call[c] \/ call'[c] = "none"
    PROVE  ToldInv'
<1>1. SessionsInv /\ alive'
  BY DEF ToldInv
<1>2. UNCHANGED <<worker, transports>>
  BY DEF supVars
<1>3. ASSUME NEW r \in Request, r.conn = c, AskedInv(r) PROVE AskedInv(r)'
  <2>1. calls'[c] = calls[c] /\ (call'[c] = "Authenticated" => call[c] = "Authenticated")
    OBVIOUS
  <2>2. r.type = "Authenticated" => fp'[c] = fp[c] /\ phase'[c] \notin {"fresh", "handshake"}
    BY <1>3 DEF AskedInv
  <2>3. QED
    BY <1>3, <2>1, <2>2 DEF AskedInv
<1>4. call'[c] = "Authenticated" => call[c] = "Authenticated"
  OBVIOUS
<1>5. QED
  BY <1>1, <1>2, <1>3, <1>4, ThreadTold

LEMMA ThreadsTold ==
    ASSUME TypeOK, ToldInv, NEW c \in Conn, Accept(c) \/ RetainConnection(c) \/ Thread(c)
    PROVE  ToldInv'
<1>1. /\ phase \in [Conn -> Phases] /\ peers \in [Conn -> Host \cup {None}]
      /\ fp \in [Conn -> Host \cup {None}] /\ call \in [Conn -> CallKinds \cup {"none"}]
      /\ calls \in [Conn -> Nat] /\ answer \in [Conn -> {"none", "ok", "refused"}]
  BY DEF TypeOK
<1>2. alive
  BY DEF ToldInv, Accept, RetainConnection, Thread, HandshakeFails,
       Register, SendAuthenticated, AuthenticatedAnswered, OpenStream, SpawnAnswered, DropStream,
       DropAnswered, EndSession, SendDisconnected, DisconnectedAnswered, CallTimeout
<1>3. PeerInv(c)
  BY <1>2 DEF ToldInv, SessionsInv
<1>4. CASE Accept(c) \/ RetainConnection(c) \/ HandshakeFails(c) \/ EndSession(c)
  <2>1. PICK p : /\ phase' = [phase EXCEPT ![c] = p]
                 /\ p \in {"handshake", "gone", "done", "ending"}
                 /\ p = "handshake" => phase[c] = "fresh"
    BY <1>4 DEF Accept, RetainConnection, HandshakeFails, EndSession
  <2>2. UNCHANGED <<supVars, alive, peers, cancelled, fp, call, calls, answer, toSup, toWorker>>
    BY <1>4 DEF Accept, RetainConnection, HandshakeFails, EndSession, mainVars
  <2>3. phase'[c] = p /\ \A d \in Conn \ {c} : phase'[d] = phase[d]
    BY <1>1, <2>1
  <2>4. call[c] # "Authenticated"
    BY <1>3, <1>4 DEF PeerInv, Accept, RetainConnection, HandshakeFails, EndSession
  <2>5. PeerInv(c)'
    BY <1>3, <2>1, <2>2, <2>3, <2>4 DEF PeerInv
  <2>6. Accepted(c)' => Accepted(c)
    BY <2>1, <2>2, <2>3 DEF Accepted
  <2>7. QED
    BY <1>2, <2>1, <2>2, <2>3, <2>5, <2>6, MoveTold
<1>5. ASSUME NEW h \in Host, Register(c, h) PROVE ToldInv'
  <2>1. /\ phase[c] = "handshake" /\ phase' = [phase EXCEPT ![c] = "registered"]
        /\ fp' = [fp EXCEPT ![c] = h] /\ peers' = [peers EXCEPT ![c] = h]
        /\ UNCHANGED <<supVars, alive, cancelled, call, calls, answer, toSup, toWorker>>
    BY <1>5 DEF Register
  <2>2. /\ phase'[c] = "registered" /\ fp'[c] = h /\ peers'[c] = h
        /\ \A d \in Conn \ {c} : phase'[d] = phase[d] /\ fp'[d] = fp[d] /\ peers'[d] = peers[d]
    BY <1>1, <2>1
  <2>3. call[c] # "Authenticated" /\ h # None
    BY <1>3, <2>1, ConstantsAssumption DEF PeerInv
  <2>4. PeerInv(c)'
    BY <1>3, <2>1, <2>2, <2>3 DEF PeerInv
  <2>5. Accepted(c)' => Accepted(c)
    BY <2>1, <2>2, <2>3 DEF Accepted
  <2>6. QED
    BY <1>2, <2>1, <2>2, <2>4, <2>5, MoveTold
<1>6. ASSUME EndCall(c), call[c] # "none",
             UNCHANGED <<supVars, alive, cancelled, fp, calls, toSup, toWorker>>,
             \/ UNCHANGED <<phase, peers>> /\ call[c] # "Authenticated"
             \/ /\ phase' = [phase EXCEPT ![c] = "serving"] /\ UNCHANGED peers
                /\ call[c] = "Authenticated" /\ answer[c] = "ok"
             \/ /\ phase' = [phase EXCEPT ![c] = "done"]
                /\ peers' = peers \/ peers' = [peers EXCEPT ![c] = None]
      PROVE  ToldInv'
  <2>1. /\ call' = [call EXCEPT ![c] = "none"] /\ answer' = [answer EXCEPT ![c] = "none"]
    BY <1>6 DEF EndCall
  <2>2. /\ call'[c] = "none" /\ answer'[c] = "none"
        /\ \A d \in Conn \ {c} :
            /\ call'[d] = call[d] /\ answer'[d] = answer[d]
            /\ phase'[d] = phase[d] /\ peers'[d] = peers[d]
    BY <1>1, <1>6, <2>1
  <2>3. \/ phase'[c] = phase[c] /\ peers'[c] = peers[c] /\ call[c] # "Authenticated"
        \/ /\ phase'[c] = "serving" /\ peers'[c] = peers[c]
           /\ call[c] = "Authenticated" /\ answer[c] = "ok"
        \/ phase'[c] = "done"
    BY <1>1, <1>6
  <2>4. PeerInv(c)'
    BY <1>3, <1>6, <2>2, <2>3 DEF PeerInv
  <2>5. Accepted(c)' => Accepted(c)
    BY <2>2, <2>3 DEF Accepted
  <2>6. /\ phase[c] \notin {"fresh", "handshake"} => phase'[c] \notin {"fresh", "handshake"}
        /\ phase[c] \in {"ending", "done", "gone"} => phase'[c] \in {"ending", "done", "gone"}
    BY <1>3, <2>3 DEF PeerInv
  <2>7. QED
    BY <1>2, <1>6, <2>2, <2>4, <2>5, <2>6, MoveTold
<1>7. CASE AuthenticatedAnswered(c)
  <2>1. CASE answer[c] = "ok"
    BY <1>6, <1>7, <2>1 DEF AuthenticatedAnswered
  <2>2. CASE answer[c] # "ok"
    BY <1>6, <1>7, <2>2 DEF AuthenticatedAnswered
  <2>3. QED
    BY <2>1, <2>2
<1>8. CASE SpawnAnswered(c) \/ DropAnswered(c) \/ DisconnectedAnswered(c)
  BY <1>6, <1>8 DEF SpawnAnswered, DropAnswered, DisconnectedAnswered, mainVars
<1>9. CASE CallTimeout(c)
  <2>1. /\ call[c] # "none" /\ answer[c] = "none" /\ call' = [call EXCEPT ![c] = "none"]
        /\ UNCHANGED <<supVars, alive, cancelled, fp, calls, answer, toSup, toWorker>>
    BY <1>9 DEF CallTimeout
  <2>2. answer' = [answer EXCEPT ![c] = "none"]
    BY <1>1, <2>1
  <2>3. EndCall(c)
    BY <2>1, <2>2 DEF EndCall
  <2>4. CASE call[c] \in {"Authenticated", "Disconnected"}
    BY <1>6, <1>9, <2>1, <2>3, <2>4 DEF CallTimeout
  <2>5. CASE call[c] \notin {"Authenticated", "Disconnected"}
    BY <1>6, <1>9, <2>1, <2>3, <2>5 DEF CallTimeout
  <2>6. QED
    BY <2>4, <2>5
<1>10. CASE SendAuthenticated(c)
  <2>1. PICK r : r = [type |-> "Authenticated", conn |-> c, n |-> calls[c] + 1, host |-> fp[c]]
    OBVIOUS
  <2>2. phase[c] = "registered" /\ call[c] = "none" /\ StartCall(c, r, "Authenticated")
    BY <1>10, <2>1 DEF SendAuthenticated
  <2>3. fp[c] \in Host /\ calls[c] + 1 \in Nat
    BY <1>1, <1>3, <2>2 DEF PeerInv
  <2>4. /\ r \in Request /\ r.conn = c /\ r.n = calls[c] + 1 /\ r.type = "Authenticated"
        /\ r.host = fp[c]
    BY <2>1, <2>3 DEF Request
  <2>5. "Authenticated" \in CallKinds
    BY DEF CallKinds
  <2>6. UNCHANGED <<supVars, alive, cancelled, peers, phase, fp, answer, toWorker>>
    BY <1>10 DEF SendAuthenticated, mainVars
  <2>7. QED
    BY <2>2, <2>4, <2>5, <2>6, CallTold
<1>11. CASE OpenStream(c)
  <2>1. PICK r : r = [type |-> "Spawn", conn |-> c, n |-> calls[c] + 1]
    OBVIOUS
  <2>2. phase[c] = "serving" /\ call[c] = "none" /\ StartCall(c, r, "Spawn")
    BY <1>11, <2>1 DEF OpenStream
  <2>3. calls[c] + 1 \in Nat
    BY <1>1
  <2>4. r \in Request /\ r.conn = c /\ r.n = calls[c] + 1 /\ r.type = "Spawn"
    BY <2>1, <2>3 DEF Request
  <2>5. "Spawn" \in CallKinds
    BY DEF CallKinds
  <2>6. UNCHANGED <<supVars, alive, cancelled, peers, phase, fp, answer, toWorker>>
    BY <1>11 DEF OpenStream, mainVars
  <2>7. QED
    BY <2>2, <2>4, <2>5, <2>6, CallTold
<1>12. ASSUME NEW s \in held[c], DropStream(c, s) PROVE ToldInv'
  <2>1. PICK r : r = [type |-> "CloseService", conn |-> c, n |-> calls[c] + 1, service |-> s]
    OBVIOUS
  <2>2. /\ phase[c] \in {"serving", "ending"} /\ call[c] = "none"
        /\ StartCall(c, r, "CloseService")
    BY <1>12, <2>1 DEF DropStream
  <2>3. calls[c] + 1 \in Nat /\ s \in Service
    BY <1>1 DEF TypeOK
  <2>4. r \in Request /\ r.conn = c /\ r.n = calls[c] + 1 /\ r.type = "CloseService"
    BY <2>1, <2>3 DEF Request
  <2>5. "CloseService" \in CallKinds
    BY DEF CallKinds
  <2>6. UNCHANGED <<supVars, alive, cancelled, peers, phase, fp, answer, toWorker>>
    BY <1>12 DEF DropStream, mainVars
  <2>7. QED
    BY <2>2, <2>4, <2>5, <2>6, CallTold
<1>13. CASE SendDisconnected(c)
  <2>1. PICK r : r = [type |-> "Disconnected", conn |-> c, n |-> calls[c] + 1]
    OBVIOUS
  <2>2. phase[c] = "ending" /\ call[c] = "none" /\ StartCall(c, r, "Disconnected")
    BY <1>13, <2>1 DEF SendDisconnected
  <2>3. calls[c] + 1 \in Nat
    BY <1>1
  <2>4. r \in Request /\ r.conn = c /\ r.n = calls[c] + 1 /\ r.type = "Disconnected"
    BY <2>1, <2>3 DEF Request
  <2>5. "Disconnected" \in CallKinds
    BY DEF CallKinds
  <2>6. /\ UNCHANGED <<supVars, alive, cancelled, phase, fp, answer, toWorker>>
        /\ peers' = [peers EXCEPT ![c] = None]
    BY <1>13 DEF SendDisconnected
  <2>7. QED
    BY <2>2, <2>4, <2>5, <2>6, CallTold
<1>14. QED
  BY <1>4, <1>5, <1>7, <1>8, <1>9, <1>10, <1>11, <1>12, <1>13 DEF Thread

LEMMA ToldStep ==
    ASSUME TypeOK, ToldInv, [Next]_vars
    PROVE  ToldInv'
<1>1. CASE StartWorker \/ StopWorker \/ WorkerDies
  BY <1>1, WorkerTold
<1>2. CASE ~alive /\ ~StartWorker
  BY <1>2, DeadTold
<1>3. CASE Receive
  BY <1>3, ReceiveTold
<1>4. CASE alive /\ HandleRequest
  BY <1>4, HandleTold
<1>5. ASSUME NEW c \in Conn, Accept(c) \/ RetainConnection(c) \/ Thread(c) PROVE ToldInv'
  BY <1>5, ThreadsTold
<1>6. QED
  BY <1>1, <1>2, <1>3, <1>4, <1>5, EditsTold DEF Next

\* No session is forgotten by a revocation, with calls in time or not: one whose transport
\* is gone has been told to stop, or a host list without its host is on the way (worker.rs:
\* the main loop cancels every connection whose peer is not in a list it reads).
THEOREM DropsAreTold == Spec => []DroppedSessionsAreTold
<1>1. Init => ToldInv
  BY DEF Init, ToldInv
<1>2. ToldInv => DroppedSessionsAreTold
  <2>1. ASSUME ToldInv, NEW c \in Conn, phase[c] = "serving", transports[c] # fp[c]
        PROVE  \/ c \in cancelled
               \/ \E i \in DOMAIN toWorker :
                    toWorker[i].type = "Hosts" /\ fp[c] \notin toWorker[i].hosts
    BY <2>1 DEF ToldInv, SessionsInv, Accepted, Covered, Told
  <2>2. QED
    BY <2>1 DEF DroppedSessionsAreTold
<1>3. QED
  BY <1>1, <1>2, ToldStep, TypesCorrect, PTL DEF Spec
=============================================================================
