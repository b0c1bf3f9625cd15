------------------------------- MODULE Access -------------------------------
(***************************************************************************)
(* Who may use the device: the root supervisor (src/unix/daemon.rs) owns   *)
(* the list of paired hosts, the authenticated transports and the service  *)
(* processes; the unprivileged network worker (src/unix/worker.rs) owns    *)
(* the TCP connections, one thread each (src/unix/transport.rs).  The two  *)
(* processes share nothing but a socket pair that carries requests one way *)
(* and replies and host lists the other way, each in order.                *)
(*                                                                         *)
(* The module is about the interleavings of a revocation, an               *)
(* authentication, a service start, a call that times out, and a worker    *)
(* that stops or dies, at any moment.                                      *)
(*                                                                         *)
(* A call of a connection thread is named by the connection and the number *)
(* of the call, standing for the worker-wide call id; the reply carries    *)
(* the same name.  A service is named by the call that started it,         *)
(* standing for its process id.                                            *)
(***************************************************************************)
EXTENDS Naturals, Sequences, FiniteSets

CONSTANTS
    Host,           \* fingerprints of host keys
    Conn,           \* transport ids the worker hands out, each one once
    None,           \* no host
    MaxTransports,  \* config::MAX_TRANSPORTS
    MaxServices,    \* config::MAX_STREAMS + 16, per transport
    Timeouts,       \* TRUE when a call may outlast the broker's ten seconds
    MaxCalls,       \* bound: no stream is opened after that many calls
    MaxEdits        \* bound: revocations and pairings

ASSUME ConstantsAssumption ==
    /\ None \notin Host
    /\ MaxTransports \in Nat \ {0}
    /\ MaxServices \in Nat \ {0}
    /\ Timeouts \in BOOLEAN
    /\ MaxCalls \in Nat
    /\ MaxEdits \in Nat

VARIABLES
    \* the supervisor
    hosts,          \* store.hosts
    transports,     \* transports: connection -> host, None when absent
    services,       \* services: the child processes not yet reaped
    stopped,        \* the services whose process group was told to stop
    closing,        \* the services with a close_at
    worker,         \* worker.is_some()
    edits,          \* edits of the host list so far (bound)
    \* the network worker's main thread
    alive,          \* the worker process exists
    whosts,         \* its copy of the host list
    peers,          \* broker.peers: connection -> host, None when absent
    cancelled,      \* connections told to stop: cancel flag and socket shutdown
    \* its connection threads
    phase,          \* where each connection thread is
    allowed,        \* the host list it was started with
    fp,             \* the host its TLS handshake proved
    call,           \* the kind of call it is blocked in, "none" when it is not
    calls,          \* the calls it has made
    answer,         \* what the worker's main thread handed to its call
    held,           \* the services whose sockets its streams hold
    \* the socket pair
    toSup, toWorker

supVars    == <<hosts, transports, services, stopped, closing, worker, edits>>
mainVars   == <<alive, whosts, peers, cancelled>>
threadVars == <<phase, allowed, fp, call, calls, answer, held>>
vars       == <<supVars, mainVars, threadVars, toSup, toWorker>>

Phases    == {"fresh", "handshake", "registered", "serving", "ending", "done", "gone"}
CallKinds == {"Authenticated", "Spawn", "CloseService", "Disconnected"}
Service   == [conn : Conn, n : Nat]

Request ==
         [type : {"Authenticated"}, conn : Conn, n : Nat, host : Host]
    \cup [type : {"Spawn", "Disconnected"}, conn : Conn, n : Nat]
    \cup [type : {"CloseService"}, conn : Conn, n : Nat, service : Service]

Message ==
         [type : {"Reply"}, conn : Conn, n : Nat, ok : BOOLEAN]
    \cup [type : {"Hosts"}, hosts : SUBSET Host]

\* The variables have the types of the Rust structures they stand for.
TypeOK ==
    /\ hosts \in SUBSET Host
    /\ transports \in [Conn -> Host \cup {None}]
    /\ services \in SUBSET Service
    /\ stopped \in SUBSET services
    /\ closing \in SUBSET services
    /\ worker \in BOOLEAN
    /\ edits \in Nat
    /\ alive \in BOOLEAN
    /\ whosts \in SUBSET Host
    /\ peers \in [Conn -> Host \cup {None}]
    /\ cancelled \in SUBSET Conn
    /\ phase \in [Conn -> Phases]
    /\ allowed \in [Conn -> SUBSET Host]
    /\ fp \in [Conn -> Host \cup {None}]
    /\ call \in [Conn -> CallKinds \cup {"none"}]
    /\ calls \in [Conn -> Nat]
    /\ answer \in [Conn -> {"none", "ok", "refused"}]
    /\ held \in [Conn -> SUBSET Service]
    /\ toSup \in Seq(Request)
    /\ toWorker \in Seq(Message)

-----------------------------------------------------------------------------
(* Helpers *)

NoTransports == [c \in Conn |-> None]

\* The transports the supervisor has registered.
Registered == {c \in Conn : transports[c] # None}

\* The entries of the worker's connection table: not yet retained away.
Connections == {c \in Conn : phase[c] \notin {"fresh", "gone"}}

ServicesOf(S) == {s \in services : s.conn \in S}

\* Every thread of a new, or of no, worker process.
NoThreads ==
    /\ phase' = [c \in Conn |-> "fresh"]
    /\ allowed' = [c \in Conn |-> {}]
    /\ fp' = [c \in Conn |-> None]
    /\ call' = [c \in Conn |-> "none"]
    /\ calls' = [c \in Conn |-> 0]
    /\ answer' = [c \in Conn |-> "none"]
    /\ held' = [c \in Conn |-> {}]
    /\ peers' = NoTransports
    /\ cancelled' = {}

\* A message the supervisor sends is lost when the worker is dead.
SendToWorker(m) ==
    toWorker' = IF alive THEN Append(toWorker, m) ELSE toWorker

\* Fault: the services of a dropped transport are left running.
Disconnect_KeepsServices(S) ==
    /\ transports' = [c \in Conn |-> IF c \in S THEN None ELSE transports[c]]
    /\ UNCHANGED stopped

\* Daemon::disconnect for every transport of a set: forget it, stop its services.
Disconnect(S) ==
    /\ transports' = [c \in Conn |-> IF c \in S THEN None ELSE transports[c]]
    /\ stopped' = stopped \cup ServicesOf(S)

-----------------------------------------------------------------------------
Init ==
    /\ hosts \in SUBSET Host
    /\ transports = NoTransports
    /\ services = {} /\ stopped = {} /\ closing = {}
    /\ worker = FALSE /\ edits = 0
    /\ alive = FALSE
    /\ whosts = {}
    /\ peers = NoTransports
    /\ cancelled = {}
    /\ phase = [c \in Conn |-> "fresh"]
    /\ allowed = [c \in Conn |-> {}]
    /\ fp = [c \in Conn |-> None]
    /\ call = [c \in Conn |-> "none"]
    /\ calls = [c \in Conn |-> 0]
    /\ answer = [c \in Conn |-> "none"]
    /\ held = [c \in Conn |-> {}]
    /\ toSup = <<>> /\ toWorker = <<>>

-----------------------------------------------------------------------------
(* The supervisor *)

\* start_worker: a new process, booted with the current host list.
StartWorker ==
    /\ ~worker
    /\ worker' = TRUE
    /\ alive' = TRUE
    /\ whosts' = hosts
    /\ toSup' = <<>> /\ toWorker' = <<>>
    /\ NoThreads
    /\ UNCHANGED <<hosts, transports, services, stopped, closing, edits>>

\* stop_worker, for whatever reason: a configuration change, a root rotation,
\* a conflict, a network change, or the socket of a dead worker.  The services
\* are stopped, killed and reaped before the transports are forgotten.
StopWorker ==
    /\ worker
    /\ worker' = FALSE
    /\ alive' = FALSE
    /\ whosts' = {}
    /\ services' = {} /\ stopped' = {} /\ closing' = {}
    /\ transports' = NoTransports
    /\ toSup' = <<>> /\ toWorker' = <<>>
    /\ NoThreads
    /\ UNCHANGED <<hosts, edits>>

\* Control::Revoke: the store first, then the sessions, then the worker.
Revoke(h) ==
    /\ edits < MaxEdits
    /\ edits' = edits + 1
    /\ hosts' = hosts \ {h}
    /\ Disconnect({c \in Conn : transports[c] = h})
    /\ IF worker THEN SendToWorker([type |-> "Hosts", hosts |-> hosts'])
                 ELSE UNCHANGED toWorker
    /\ UNCHANGED <<services, closing, worker, toSup, mainVars, threadVars>>

\* The part of a committed PairResult that changes authorization.
PairHost(h) ==
    /\ worker
    /\ edits < MaxEdits
    /\ edits' = edits + 1
    /\ hosts' = hosts \cup {h}
    /\ SendToWorker([type |-> "Hosts", hosts |-> hosts'])
    /\ UNCHANGED <<transports, services, stopped, closing, worker, toSup,
                   mainVars, threadVars>>

\* Takes the oldest request and answers it.
Take(r, ok) ==
    /\ worker
    /\ toSup # <<>>
    /\ r = Head(toSup)
    /\ toSup' = Tail(toSup)
    /\ SendToWorker([type |-> "Reply", conn |-> r.conn, n |-> r.n, ok |-> ok])
    /\ UNCHANGED <<hosts, worker, edits, mainVars, threadVars>>

\* Fault: the store is not asked whether the host is still paired.
Authenticate_Unpaired(r, ok) ==
    /\ r.type = "Authenticated"
    /\ ok => Cardinality(Registered) < MaxTransports /\ transports[r.conn] = None
    /\ transports' = IF ok THEN [transports EXCEPT ![r.conn] = r.host] ELSE transports
    /\ UNCHANGED <<services, stopped, closing>>

\* Request::Authenticated: refused at the limit, for an id already registered,
\* for a host that is not paired, or when the store cannot be written.
Authenticate(r, ok) ==
    /\ r.type = "Authenticated"
    /\ ok => /\ Cardinality(Registered) < MaxTransports
             /\ transports[r.conn] = None
             /\ r.host \in hosts
    /\ transports' = IF ok THEN [transports EXCEPT ![r.conn] = r.host] ELSE transports
    /\ UNCHANGED <<services, stopped, closing>>

\* Request::Spawn: the authorization of the transport is checked every time; a
\* process that cannot be started is refused as well.
SpawnService(r, ok) ==
    /\ r.type = "Spawn"
    /\ ok => /\ transports[r.conn] # None
             /\ Cardinality(ServicesOf({r.conn})) < MaxServices
    /\ services' = IF ok THEN services \cup {[conn |-> r.conn, n |-> r.n]} ELSE services
    /\ UNCHANGED <<transports, stopped, closing>>

\* Request::CloseService: the service is given a second to end.
CloseService(r, ok) ==
    /\ r.type = "CloseService"
    /\ ok
    /\ closing' = closing \cup ({r.service} \cap services)
    /\ UNCHANGED <<transports, services, stopped>>

\* Request::Disconnected.
Disconnected(r, ok) ==
    /\ r.type = "Disconnected"
    /\ ok
    /\ Disconnect({r.conn})
    /\ UNCHANGED <<services, closing>>

Handle(r, ok) ==
    /\ Take(r, ok)
    /\ \/ Authenticate(r, ok)
       \/ SpawnService(r, ok)
       \/ CloseService(r, ok)
       \/ Disconnected(r, ok)

HandleRequest == \E ok \in BOOLEAN : toSup # <<>> /\ Handle(Head(toSup), ok)

\* retain_mut: the grace of a closed service is over.
CloseDue(s) ==
    /\ s \in closing \ stopped
    /\ stopped' = stopped \cup {s}
    /\ UNCHANGED <<hosts, transports, services, closing, worker, edits,
                   mainVars, threadVars, toSup, toWorker>>

\* retain_mut: the process of a service has exited and is reaped.
ReapService(s) ==
    /\ s \in services
    /\ services' = services \ {s}
    /\ stopped' = stopped \ {s}
    /\ closing' = closing \ {s}
    /\ UNCHANGED <<hosts, transports, worker, edits,
                   mainVars, threadVars, toSup, toWorker>>

-----------------------------------------------------------------------------
(* The network worker's main thread *)

\* The main loop accepts a connection while its table has room; the thread
\* keeps the host list of this moment for its handshake.
Accept(c) ==
    /\ alive
    /\ phase[c] = "fresh"
    /\ Cardinality(Connections) < MaxTransports
    /\ phase' = [phase EXCEPT ![c] = "handshake"]
    /\ allowed' = [allowed EXCEPT ![c] = whosts]
    /\ UNCHANGED <<supVars, mainVars, fp, call, calls, answer, held, toSup, toWorker>>

\* Message::Reply: handed to the call that is still pending under that number,
\* dropped when there is none.
ReceiveReply(m) ==
    /\ m.type = "Reply"
    /\ answer' = IF call[m.conn] # "none" /\ calls[m.conn] = m.n
                 THEN [answer EXCEPT ![m.conn] = IF m.ok THEN "ok" ELSE "refused"]
                 ELSE answer
    /\ UNCHANGED <<whosts, cancelled>>

\* Fault: only the connections that serve already are looked at.
ReceiveHosts_ServingOnly(m) ==
    /\ m.type = "Hosts"
    /\ whosts' = m.hosts
    /\ cancelled' = cancelled \cup
           {c \in Connections : phase[c] = "serving" /\ peers[c] \notin m.hosts}
    /\ UNCHANGED answer

\* Message::Hosts: stop every connection of a peer that is no longer listed.
ReceiveHosts(m) ==
    /\ m.type = "Hosts"
    /\ whosts' = m.hosts
    /\ cancelled' = cancelled \cup
           {c \in Connections : peers[c] # None /\ peers[c] \notin m.hosts}
    /\ UNCHANGED answer

Receive ==
    /\ alive
    /\ toWorker # <<>>
    /\ toWorker' = Tail(toWorker)
    /\ \/ ReceiveReply(Head(toWorker))
       \/ ReceiveHosts(Head(toWorker))
    /\ UNCHANGED <<supVars, alive, peers, phase, allowed, fp, call, calls, held, toSup>>

\* connections.retain: the entry of a finished thread is dropped.
RetainConnection(c) ==
    /\ phase[c] = "done"
    /\ phase' = [phase EXCEPT ![c] = "gone"]
    /\ UNCHANGED <<supVars, mainVars, allowed, fp, call, calls, answer, held,
                   toSup, toWorker>>

\* Fault: the sweep looks at the connections that did authenticate.
Sweep_Inverted(c) ==
    /\ c \in Connections \ cancelled
    /\ peers[c] # None
    /\ cancelled' = cancelled \cup {c}
    /\ UNCHANGED <<supVars, alive, whosts, peers, threadVars, toSup, toWorker>>

\* A connection without a peer after ten seconds is stopped.
Sweep(c) ==
    /\ c \in Connections \ cancelled
    /\ peers[c] = None
    /\ cancelled' = cancelled \cup {c}
    /\ UNCHANGED <<supVars, alive, whosts, peers, threadVars, toSup, toWorker>>

\* The worker process ends: an error, a signal, or the supervisor gone.  What it
\* has already sent stays in the socket.
WorkerDies ==
    /\ alive
    /\ alive' = FALSE
    /\ whosts' = {}
    /\ toWorker' = <<>>
    /\ NoThreads
    /\ UNCHANGED <<supVars, toSup>>

-----------------------------------------------------------------------------
(* A connection thread *)

\* Broker::call up to the send: a number, an entry in pending, a request.
StartCall(c, request, kind) ==
    /\ call' = [call EXCEPT ![c] = kind]
    /\ calls' = [calls EXCEPT ![c] = @ + 1]
    /\ toSup' = Append(toSup, request)

\* Broker::call after the answer or the timeout: the entry leaves pending.
EndCall(c) ==
    /\ call' = [call EXCEPT ![c] = "none"]
    /\ answer' = [answer EXCEPT ![c] = "none"]

\* The handshake fails: the peer, the certificate, or the socket shut down.
HandshakeFails(c) ==
    /\ phase[c] = "handshake"
    /\ phase' = [phase EXCEPT ![c] = "done"]
    /\ allowed' = [allowed EXCEPT ![c] = {}]
    /\ UNCHANGED <<supVars, mainVars, fp, call, calls, answer, held, toSup, toWorker>>

\* The client proves the key of an allowed host, and Broker::call registers the
\* peer before anything is sent.
Register(c, h) ==
    /\ phase[c] = "handshake"
    /\ h \in allowed[c]
    /\ phase' = [phase EXCEPT ![c] = "registered"]
    /\ allowed' = [allowed EXCEPT ![c] = {}]
    /\ fp' = [fp EXCEPT ![c] = h]
    /\ peers' = [peers EXCEPT ![c] = h]
    /\ UNCHANGED <<supVars, alive, whosts, cancelled, call, calls, answer, held,
                   toSup, toWorker>>

SendAuthenticated(c) ==
    /\ phase[c] = "registered"
    /\ call[c] = "none"
    /\ StartCall(c, [type |-> "Authenticated", conn |-> c, n |-> calls[c] + 1,
                     host |-> fp[c]], "Authenticated")
    /\ UNCHANGED <<supVars, mainVars, phase, allowed, fp, answer, held, toWorker>>

\* The answer to Authenticated: the session begins, or the thread returns.
AuthenticatedAnswered(c) ==
    /\ call[c] = "Authenticated"
    /\ answer[c] # "none"
    /\ phase' = [phase EXCEPT ![c] = IF answer[c] = "ok" THEN "serving" ELSE "done"]
    /\ peers' = IF answer[c] = "ok" THEN peers ELSE [peers EXCEPT ![c] = None]
    /\ EndCall(c)
    /\ UNCHANGED <<supVars, alive, whosts, cancelled, allowed, fp, calls, held,
                   toSup, toWorker>>

\* OPEN of a service.
OpenStream(c) ==
    /\ phase[c] = "serving"
    /\ call[c] = "none"
    /\ calls[c] < MaxCalls
    /\ StartCall(c, [type |-> "Spawn", conn |-> c, n |-> calls[c] + 1], "Spawn")
    /\ UNCHANGED <<supVars, mainVars, phase, allowed, fp, answer, held, toWorker>>

\* The answer to Spawn: the stream holds the socket of the service.
SpawnAnswered(c) ==
    /\ call[c] = "Spawn"
    /\ answer[c] # "none"
    /\ held' = [held EXCEPT ![c] = IF answer[c] = "ok"
                                   THEN @ \cup {[conn |-> c, n |-> calls[c]]} ELSE @]
    /\ EndCall(c)
    /\ UNCHANGED <<supVars, mainVars, phase, allowed, fp, calls, toSup, toWorker>>

\* A stream ends, or the whole session does: ServiceSocket::drop.
DropStream(c, s) ==
    /\ phase[c] \in {"serving", "ending"}
    /\ call[c] = "none"
    /\ s \in held[c]
    /\ held' = [held EXCEPT ![c] = @ \ {s}]
    /\ StartCall(c, [type |-> "CloseService", conn |-> c, n |-> calls[c] + 1,
                     service |-> s], "CloseService")
    /\ UNCHANGED <<supVars, mainVars, phase, allowed, fp, answer, toWorker>>

DropAnswered(c) ==
    /\ call[c] = "CloseService"
    /\ answer[c] # "none"
    /\ EndCall(c)
    /\ UNCHANGED <<supVars, mainVars, phase, allowed, fp, calls, held, toSup, toWorker>>

\* Fault: an error returns from the thread without the last call.
EndSession_Returns(c) ==
    /\ phase[c] = "serving"
    /\ call[c] = "none"
    /\ phase' = [phase EXCEPT ![c] = "done"]
    /\ UNCHANGED <<supVars, mainVars, allowed, fp, call, calls, answer, held,
                   toSup, toWorker>>

\* The loop of transport::run ends: the client is gone, an error, or cancelled.
EndSession(c) ==
    /\ phase[c] = "serving"
    /\ call[c] = "none"
    /\ phase' = [phase EXCEPT ![c] = "ending"]
    /\ UNCHANGED <<supVars, mainVars, allowed, fp, call, calls, answer, held,
                   toSup, toWorker>>

\* The last call: Broker::call removes the peer, then sends.
SendDisconnected(c) ==
    /\ phase[c] = "ending"
    /\ call[c] = "none"
    /\ held[c] = {}
    /\ peers' = [peers EXCEPT ![c] = None]
    /\ StartCall(c, [type |-> "Disconnected", conn |-> c, n |-> calls[c] + 1],
                 "Disconnected")
    /\ UNCHANGED <<supVars, alive, whosts, cancelled, phase, allowed, fp, answer,
                   held, toWorker>>

DisconnectedAnswered(c) ==
    /\ call[c] = "Disconnected"
    /\ answer[c] # "none"
    /\ phase' = [phase EXCEPT ![c] = "done"]
    /\ EndCall(c)
    /\ UNCHANGED <<supVars, mainVars, allowed, fp, calls, held, toSup, toWorker>>

\* rx.recv_timeout expires: a failed Authenticated ends the thread there and
\* then, a failed Disconnected was the last thing it does, the rest goes on.
CallTimeout(c) ==
    /\ Timeouts
    /\ call[c] # "none"
    /\ answer[c] = "none"
    /\ phase' = IF call[c] \in {"Authenticated", "Disconnected"}
                THEN [phase EXCEPT ![c] = "done"] ELSE phase
    /\ peers' = IF call[c] = "Authenticated" THEN [peers EXCEPT ![c] = None] ELSE peers
    /\ call' = [call EXCEPT ![c] = "none"]
    /\ UNCHANGED <<supVars, alive, whosts, cancelled, allowed, fp, calls, answer, held,
                   toSup, toWorker>>

-----------------------------------------------------------------------------
Thread(c) ==
    \/ HandshakeFails(c)
    \/ \E h \in Host : Register(c, h)
    \/ SendAuthenticated(c)
    \/ AuthenticatedAnswered(c)
    \/ OpenStream(c)
    \/ SpawnAnswered(c)
    \/ \E s \in held[c] : DropStream(c, s)
    \/ DropAnswered(c)
    \/ EndSession(c)
    \/ SendDisconnected(c)
    \/ DisconnectedAnswered(c)
    \/ CallTimeout(c)

Next ==
    \/ StartWorker
    \/ StopWorker
    \/ \E h \in Host : Revoke(h)
    \/ \E h \in Host : PairHost(h)
    \/ HandleRequest
    \/ \E s \in closing : CloseDue(s)
    \/ \E s \in services : ReapService(s)
    \/ Receive
    \/ WorkerDies
    \/ \E c \in Conn : Accept(c) \/ RetainConnection(c) \/ Sweep(c) \/ Thread(c)

Spec == Init /\ [][Next]_vars

\* The two main loops are never blocked for ever, a thread that has its answer
\* or a shut-down socket goes on, the sweep comes round, and a service that was
\* told to stop exits.
Fairness ==
    /\ WF_vars(HandleRequest)
    /\ WF_vars(Receive)
    /\ \A c \in Conn :
        /\ WF_vars(Sweep(c))
        /\ WF_vars(c \in cancelled /\ HandshakeFails(c))
        /\ WF_vars(c \in cancelled /\ EndSession(c))
        /\ WF_vars(SendAuthenticated(c))
        /\ WF_vars(AuthenticatedAnswered(c))
        /\ WF_vars(SpawnAnswered(c))
        /\ WF_vars(phase[c] = "ending" /\ \E s \in held[c] : DropStream(c, s))
        /\ WF_vars(DropAnswered(c))
        /\ WF_vars(SendDisconnected(c))
        /\ WF_vars(DisconnectedAnswered(c))
    /\ WF_vars(\E s \in closing : CloseDue(s))
    /\ WF_vars(\E s \in stopped : ReapService(s))

LiveSpec == Spec /\ Fairness

-----------------------------------------------------------------------------
(* Properties *)

\* Whatever is in flight, a transport the supervisor serves belongs to a host
\* that is paired now: a late Authenticated cannot revive a revoked host, and a
\* revocation leaves none of its transports registered.
TransportsAuthorized ==
    \A c \in Registered : transports[c] \in hosts

\* A service process that has not been told to stop runs for a registered
\* transport, hence for a paired host: a Spawn that was on its way when the host
\* was revoked, or when its connection ended, starts nothing that stays.
ServicesAuthorized ==
    \A s \in services \ stopped : transports[s.conn] \in hosts

\* The supervisor refuses nobody for the connection limit: the worker admits no
\* more connections than that, and each of them takes a place of its own.
AdmissionNeverStarves ==
    toSup # <<>> /\ Head(toSup).type = "Authenticated" =>
        Cardinality(Registered) < MaxTransports

\* No session is forgotten: one that goes on without its transport has been told to
\* stop, or a host list without its host is on the way, whatever crossed it and
\* however late an answer was.
DroppedSessionsAreTold ==
    \A c \in Conn : phase[c] = "serving" /\ transports[c] # fp[c] =>
        \/ c \in cancelled
        \/ \E i \in DOMAIN toWorker :
            toWorker[i].type = "Hosts" /\ fp[c] \notin toWorker[i].hosts

\* A client whose host was revoked loses its session, even in the middle of a call.
DroppedSessionsEnd ==
    \A c \in Conn : (phase[c] = "serving" /\ transports[c] = None)
                        ~> phase[c] # "serving"

\* A connection that does not authenticate does not hold its place for ever.
HandshakesEnd ==
    \A c \in Conn : phase[c] = "handshake" ~> phase[c] # "handshake"

\* No service outlives its connection, whatever call of it timed out.
OrphansEnd ==
    \A c \in Conn, n \in 1..MaxCalls :
        (phase[c] = "gone" /\ [conn |-> c, n |-> n] \in services)
            ~> [conn |-> c, n |-> n] \notin services
=============================================================================
