------------------------------ MODULE Services ------------------------------
(***************************************************************************)
(* The service processes of one connection as the root supervisor keeps    *)
(* them (Daemon::services in src/unix/daemon.rs) and the socket that ties  *)
(* each to its stream in the network worker.  What a process does with its *)
(* end of the socket is in Shell, Push and Reverse; ServiceKinds puts the  *)
(* four together, as services::run does by the name of the service.        *)
(***************************************************************************)
EXTENDS Naturals, Sequences, FiniteSets

CONSTANTS
    Proc,       \* places in the list of services
    Solo        \* the place of a shell or of a file transfer

ASSUME SoloAssumption == Solo \in Proc

VARIABLES
    kind,       \* what services::run was told to run
    registered, \* the connection is in Daemon::transports
    svc         \* the list of services

serviceVars == <<kind, registered, svc>>

\* listed: in the list; stopped, closing, binder: Service::{stopped, close_at,
\* binder} being set; up: the process exists; term: SIGTERM was sent to it;
\* open: the other end of its data socket has not been shut down or closed.
Service == [listed : BOOLEAN, stopped : BOOLEAN, closing : BOOLEAN,
            binder : BOOLEAN, up : BOOLEAN, term : BOOLEAN, open : BOOLEAN]

Absent  == [listed |-> FALSE, stopped |-> FALSE, closing |-> FALSE,
            binder |-> FALSE, up |-> FALSE, term |-> FALSE, open |-> FALSE]
Started == [Absent EXCEPT !.listed = TRUE, !.up = TRUE, !.open = TRUE]

Set(p, s) == svc' = [svc EXCEPT ![p] = s]

\* The process is gone.
Exit(p) == Set(p, [svc[p] EXCEPT !.up = FALSE])

\* Service::stop: once; a binder only loses its descriptor, another process that
\* has not been reaped gets SIGTERM.
Stopped(s) ==
    IF s.stopped THEN s
    ELSE IF s.binder THEN [s EXCEPT !.stopped = TRUE, !.binder = FALSE, !.open = FALSE]
    ELSE [s EXCEPT !.stopped = TRUE, !.term = s.up]

\* A connection that has its shell or its file transfer started, or nothing yet.
ServicesInit(k, s) ==
    /\ kind = k
    /\ registered = TRUE
    /\ svc = [p \in Proc |-> IF p = Solo THEN s ELSE Absent]

-----------------------------------------------------------------------------
\* ServiceSocket::drop shuts the socket down: the stream was closed, the
\* connection has ended, or the worker is gone.
DropSocket ==
    /\ svc[Solo].open
    /\ Set(Solo, [svc[Solo] EXCEPT !.open = FALSE])
    /\ UNCHANGED <<kind, registered>>

\* Fault: the condition on the binder is the wrong way round.
CloseService_Binders(p) ==
    /\ svc[p].listed /\ ~svc[p].open /\ ~svc[p].closing /\ svc[p].binder
    /\ Set(p, [svc[p] EXCEPT !.closing = TRUE])
    /\ UNCHANGED <<kind, registered>>

\* Request::CloseService, which ServiceSocket::drop calls: a second is left.
CloseService(p) ==
    /\ svc[p].listed /\ ~svc[p].open /\ ~svc[p].closing /\ ~svc[p].binder
    /\ Set(p, [svc[p] EXCEPT !.closing = TRUE])
    /\ UNCHANGED <<kind, registered>>

\* The loop of the daemon: a service past its deadline is stopped.
CloseDue(p) ==
    /\ svc[p].listed /\ svc[p].closing /\ ~svc[p].stopped
    /\ Set(p, Stopped(svc[p]))
    /\ UNCHANGED <<kind, registered>>

\* The loop of the daemon: a process that has ended leaves the list.
Reap(p) ==
    /\ svc[p].listed /\ ~svc[p].up
    /\ Set(p, Absent)
    /\ UNCHANGED <<kind, registered>>

\* Daemon::disconnect, for Request::Disconnected or a revocation: every service
\* of the connection is stopped at once.
Disconnect ==
    /\ registered
    /\ registered' = FALSE
    /\ svc' = [p \in Proc |-> IF svc[p].listed THEN Stopped(svc[p]) ELSE svc[p]]
    /\ UNCHANGED kind
=============================================================================
