----------------------------- MODULE Supervisor -----------------------------
(***************************************************************************)
(* The life cycle of the root supervisor (src/unix/daemon.rs): one loop    *)
(* that serves the control socket, the pairing window, a delayed restart   *)
(* after adb root / unroot, the messages of the network worker, and a      *)
(* periodic check of the configuration, of the system's own debugging and  *)
(* of the network.  Each of these is one action; between two of them       *)
(* anything may change, and any of them may stop, start or replace the     *)
(* network worker.                                                         *)
(*                                                                         *)
(* Listeners live in the bundle, so that a worker can be replaced without  *)
(* losing the port.  A session belongs to one worker process and ends with *)
(* it, so that replacing the worker is how permissions change.             *)
(*                                                                         *)
(* Time is abstract: a timer that is armed may fire at any later moment.   *)
(***************************************************************************)
EXTENDS Naturals

CONSTANTS
    Net,            \* the sets of eligible addresses network::discover can find
    Port,           \* the port settings: port_mode with fixed_port
    None,
    MaxFailures,    \* the cap of the back-off exponent, 6 in stop()
    FailingStarts,  \* the places where a worker start may fail
    MaxEvents       \* bound: commands, faults and changes of the surroundings

Places == {"configure", "rotate", "network"}

\* What a bundle of listeners is bound to.
Bundle == [net : Net, port : Port]

ASSUME ConstantsAssumption ==
    /\ None \notin Net \cup Bundle
    /\ MaxFailures \in Nat
    /\ FailingStarts \subseteq Places
    /\ MaxEvents \in Nat

Config == [enabled : BOOLEAN, port : Port, allowRoot : BOOLEAN, allowSu : BOOLEAN]

States == {"starting", "running", "disabled", "paused_native", "waiting_network", "error"}

VARIABLES
    \* the supervisor
    config,         \* store.config
    state,          \* state
    worker,         \* worker: "none", "booting" until its Ready, then "up"
    bundle,         \* bundle: the addresses and port it listens on, or None
    services,       \* services: the permissions of each kind of running service
    window,         \* window.is_some()
    root,           \* root
    rotate,         \* rotate.is_some()
    failures,       \* failures
    backoff,        \* now < retry_at
    quit,           \* the loop was left
    \* its surroundings
    alive,          \* the worker process exists
    native,         \* what native_properties and the monitor report
    net,            \* what network::discover finds, None for no address
    events          \* bounded events so far

daemon == <<config, state, worker, bundle, services, window, root, rotate,
            failures, backoff, quit>>
around == <<native, net>>
vars   == <<daemon, alive, around, events>>

Service == [root : BOOLEAN, su : BOOLEAN]

\* The variables have the types of the Rust fields they stand for.
TypeOK ==
    /\ config \in Config
    /\ state \in States
    /\ worker \in {"none", "booting", "up"}
    /\ bundle \in Bundle \cup {None}
    /\ services \in SUBSET Service
    /\ window \in BOOLEAN
    /\ root \in BOOLEAN
    /\ rotate \in BOOLEAN
    /\ failures \in 0..MaxFailures
    /\ backoff \in BOOLEAN
    /\ quit \in BOOLEAN
    /\ alive \in BOOLEAN
    /\ native \in {"clear", "conflict", "unavailable"}
    /\ net \in Net \cup {None}
    /\ events \in Nat

-----------------------------------------------------------------------------
(* Helpers *)

\* Something the design has to survive, counted to keep the instance finite.
Event == events < MaxEvents /\ events' = events + 1

\* Fault: the services outlive the worker.
EndSessions_KeepsServices == window' = FALSE /\ UNCHANGED services

\* Fault: the pairing window outlives the worker.
EndSessions_KeepsWindow == UNCHANGED window /\ services' = {}

\* What stop_worker takes from the clients.
EndSessions == window' = FALSE /\ services' = {}

\* Daemon::stop_worker.
StopWorker ==
    /\ EndSessions
    /\ worker' = "none"
    /\ alive' = FALSE

\* The back-off that an error arms.
NoteFailure(s) ==
    IF s = "error"
    THEN /\ failures' = IF failures < MaxFailures THEN failures + 1 ELSE failures
         /\ backoff' = TRUE
    ELSE UNCHANGED <<failures, backoff>>

\* Fault: the listeners are kept, and look as if nothing had changed.
Stop_KeepsBundle(s) ==
    /\ NoteFailure(s)
    /\ StopWorker
    /\ UNCHANGED bundle
    /\ root' = FALSE
    /\ rotate' = FALSE
    /\ state' = s

\* Daemon::stop: the worker is stopped only when there is one.
Stop(s) ==
    /\ NoteFailure(s)
    /\ IF worker # "none" THEN StopWorker
                          ELSE UNCHANGED <<window, worker, alive, services>>
    /\ bundle' = None
    /\ root' = FALSE
    /\ rotate' = FALSE
    /\ state' = s

\* Daemon::start_worker after the old worker is gone.
BootWorker ==
    /\ worker' = "booting"
    /\ alive' = TRUE
    /\ state' = "starting"

-----------------------------------------------------------------------------
Init ==
    /\ config \in Config
    /\ state = "starting"
    /\ worker = "none" /\ alive = FALSE
    /\ bundle = None
    /\ services = {}
    /\ window = FALSE
    /\ root = FALSE /\ rotate = FALSE
    /\ failures = 0 /\ backoff = FALSE
    /\ quit = FALSE
    /\ native \in {"clear", "conflict", "unavailable"}
    /\ net \in Net \cup {None}
    /\ events = 0

-----------------------------------------------------------------------------
(* The control socket *)

\* Control::PairStart: any old window goes, a new one opens when the listeners
\* bind and the worker takes the message.
PairStart ==
    /\ ~quit
    /\ state = "running"
    /\ \/ window' = FALSE
       \/ worker # "none" /\ alive /\ window' = TRUE
    /\ UNCHANGED <<config, state, worker, bundle, services, root, rotate,
                   failures, backoff, quit, alive, around, events>>

\* Control::PairStop, the expiry of the window, and a PairResult that ends it.
PairStop ==
    /\ ~quit
    /\ window
    /\ window' = FALSE
    /\ UNCHANGED <<config, state, worker, bundle, services, root, rotate,
                   failures, backoff, quit, alive, around, events>>

\* Control::Configure with another port or another enabled: everything stops,
\* the next check starts what is due.
ConfigureEndpoint(c) ==
    /\ ~quit
    /\ Event
    /\ c.port # config.port \/ c.enabled # config.enabled
    /\ config' = c
    /\ Stop("disabled")
    /\ UNCHANGED <<quit, around>>

\* Fault: a new port alone does not count as a change of the endpoint.
ConfigurePermissions_IgnoresPort(c) ==
    /\ ~quit
    /\ Event
    /\ c # config
    /\ c.enabled = config.enabled
    /\ config' = c
    /\ root' = FALSE
    /\ bundle # None /\ EndSessions /\ BootWorker
    /\ UNCHANGED <<bundle, rotate, failures, backoff, quit, around>>

\* Control::Configure of the permissions only: the worker is replaced, the
\* listeners stay.  When the new worker cannot be started the error goes to the
\* client and nothing else is done.
ConfigurePermissions(c) ==
    /\ ~quit
    /\ Event
    /\ c # config
    /\ c.port = config.port /\ c.enabled = config.enabled
    /\ config' = c
    /\ root' = FALSE
    /\ \/ bundle # None /\ EndSessions /\ BootWorker
       \/ /\ bundle # None => "configure" \in FailingStarts
          /\ StopWorker
          /\ UNCHANGED state
    /\ UNCHANGED <<bundle, rotate, failures, backoff, quit, around>>

\* Control::Stop, and the signals that end the loop.
Quit ==
    /\ ~quit
    /\ Event
    /\ quit' = TRUE
    /\ Stop("disabled")
    /\ UNCHANGED <<config, around>>

-----------------------------------------------------------------------------
(* The worker *)

\* Message::Ready.
Ready ==
    /\ ~quit
    /\ worker = "booting"
    /\ worker' = "up"
    /\ state' = "running"
    /\ UNCHANGED <<config, bundle, services, window, root, rotate, failures,
                   backoff, quit, alive, around, events>>

\* Request::Spawn and Request::BindReverse: the service takes the permissions of
\* this moment.
SpawnService ==
    /\ ~quit
    /\ worker = "up"
    /\ services' = services \cup {[root |-> root, su |-> config.allowSu]}
    /\ UNCHANGED <<config, state, worker, bundle, window, root, rotate, failures,
                   backoff, quit, alive, around, events>>

\* The last service of a kind ends.
ServiceEnds(s) ==
    /\ ~quit
    /\ s \in services
    /\ services' = services \ {s}
    /\ UNCHANGED <<config, state, worker, bundle, window, root, rotate, failures,
                   backoff, quit, alive, around, events>>

\* Fault: the mode changes and the running worker is kept.
RequestRoot_NoRestart(enable) ==
    /\ ~quit
    /\ Event
    /\ worker = "up"
    /\ enable => config.allowRoot
    /\ root # enable
    /\ root' = enable
    /\ UNCHANGED <<config, state, worker, bundle, services, window, rotate,
                   failures, backoff, quit, alive, around>>

\* Request::Root that changes the mode: half a second for the reply, then the
\* worker is replaced.
RequestRoot(enable) ==
    /\ ~quit
    /\ Event
    /\ worker = "up"
    /\ enable => config.allowRoot
    /\ root # enable
    /\ root' = enable
    /\ rotate' = TRUE
    /\ UNCHANGED <<config, state, worker, bundle, services, window, failures,
                   backoff, quit, alive, around>>

\* The half second is over.
Rotate ==
    /\ ~quit
    /\ rotate
    /\ rotate' = FALSE
    /\ \/ /\ bundle # None
          /\ EndSessions
          /\ BootWorker
          /\ UNCHANGED <<bundle, root, failures, backoff, events>>
       \/ /\ bundle # None => "rotate" \in FailingStarts
          /\ Event
          /\ StopWorker
          /\ NoteFailure("error")
          /\ bundle' = None /\ root' = FALSE
          /\ state' = "error"
    /\ UNCHANGED <<config, quit, around>>

\* The socket of the worker is closed, or it sends what no worker sends.
WorkerFailed ==
    /\ ~quit
    /\ worker # "none"
    /\ ~alive
    /\ Stop("error")
    /\ UNCHANGED <<config, quit, around, events>>

-----------------------------------------------------------------------------
(* The periodic check *)

Checking == ~quit /\ UNCHANGED <<config, quit, around>>

CheckDisabled ==
    /\ Checking
    /\ ~config.enabled
    /\ Stop("disabled")
    /\ UNCHANGED events

\* The grace is for a service that runs already.
Grace == native = "unavailable" /\ worker # "none" /\ state = "running"

CheckNative ==
    /\ Checking
    /\ config.enabled
    /\ native # "clear"
    /\ ~Grace
    /\ Stop("paused_native")
    /\ UNCHANGED events

\* The network is looked at only after the back-off.
NetworkDue == Checking /\ config.enabled /\ native = "clear" /\ ~backoff

CheckNoNetwork ==
    /\ NetworkDue
    /\ net = None
    /\ Stop("waiting_network")
    /\ UNCHANGED events

ListensOn(n) == bundle # None /\ bundle.net = n

\* The addresses changed, or nothing listens yet: stop, then start afresh.
CheckNetworkChanged ==
    /\ NetworkDue
    /\ net # None
    /\ ~ListensOn(net)
    /\ \/ /\ IF worker # "none" THEN EndSessions ELSE UNCHANGED <<window, services>>
          /\ BootWorker
          /\ bundle' = [net |-> net, port |-> config.port]
          /\ root' = FALSE /\ rotate' = FALSE
          /\ UNCHANGED <<failures, backoff, events>>
       \/ /\ "network" \in FailingStarts
          /\ Event
          /\ Stop("error")

\* The interfaces cannot be read.
CheckUnreadable ==
    /\ NetworkDue
    /\ "network" \in FailingStarts
    /\ Event
    /\ Stop("error")

Check ==
    \/ CheckDisabled
    \/ CheckNative
    \/ CheckNoNetwork
    \/ CheckNetworkChanged
    \/ CheckUnreadable

\* retry_at passes.
BackoffEnds ==
    /\ backoff
    /\ backoff' = FALSE
    /\ UNCHANGED <<config, state, worker, bundle, services, window, root, rotate,
                   failures, quit, alive, around, events>>

-----------------------------------------------------------------------------
(* The surroundings *)

WorkerDies ==
    /\ alive
    /\ Event
    /\ alive' = FALSE
    /\ UNCHANGED <<daemon, around>>

\* native_properties and NativeMonitor::status change their answer; the
\* unavailable settings are those of NativeState::Grace.
NativeChanges ==
    /\ Event
    /\ native' \in {"clear", "conflict", "unavailable"} \ {native}
    /\ UNCHANGED <<daemon, alive, net>>

\* What network::discover finds changes: the eligible addresses, as one value, or
\* that there are none.
NetChanges ==
    /\ Event
    /\ net' \in (Net \cup {None}) \ {net}
    /\ UNCHANGED <<daemon, alive, native>>

\* The daemon is killed or has quit, and is launched again: only the stored
\* configuration is left, and the old worker has seen its socket close.
Relaunch ==
    /\ Event
    /\ state' = "starting"
    /\ worker' = "none" /\ alive' = FALSE
    /\ bundle' = None
    /\ services' = {}
    /\ window' = FALSE
    /\ root' = FALSE /\ rotate' = FALSE
    /\ failures' = 0 /\ backoff' = FALSE
    /\ quit' = FALSE
    /\ UNCHANGED <<config, around>>

-----------------------------------------------------------------------------
Next ==
    \/ PairStart
    \/ PairStop
    \/ \E c \in Config : ConfigureEndpoint(c) \/ ConfigurePermissions(c)
    \/ Quit
    \/ Ready
    \/ SpawnService
    \/ \E s \in services : ServiceEnds(s)
    \/ \E enable \in BOOLEAN : RequestRoot(enable)
    \/ Rotate
    \/ WorkerFailed
    \/ Check
    \/ BackoffEnds
    \/ WorkerDies
    \/ NativeChanges
    \/ NetChanges
    \/ Relaunch

Spec == Init /\ [][Next]_vars

\* The loop comes round, timers fire, and a worker that lives announces itself.
Fairness ==
    /\ WF_vars(Check)
    /\ WF_vars(alive /\ Ready)
    /\ WF_vars(Rotate)
    /\ WF_vars(WorkerFailed)
    /\ WF_vars(BackoffEnds)

LiveSpec == Spec /\ Fairness

-----------------------------------------------------------------------------
(* Properties *)

\* A running service never has more permissions than the configuration allows
\* now, nor another su policy: no change of the configuration leaves a session
\* behind that was started under the old one.
ServicePolicy ==
    \A s \in services : (s.root => config.allowRoot) /\ s.su = config.allowSu

\* Services of two modes live together only until the restart that adb root or
\* unroot has armed: no order of root, unroot and configuration changes leaves a
\* root service behind, or a root mode that some service does not have.
ModesSettle ==
    \A s \in services : s.root = root \/ rotate

\* What listens has the configured port, and nothing listens when disabled.
ListenersMatchConfig ==
    bundle # None => config.enabled /\ bundle.port = config.port

\* PairStart takes the bundle of a running service without asking (daemon.rs:256).
RunningHasBundle == state = "running" => bundle # None

\* An open window has a worker behind it that can be told to close it.
WindowHasWorker == window => worker = "up" /\ state = "running"

\* What PairStart and PairStop take for granted.
StateIsBacked == RunningHasBundle /\ WindowHasWorker

\* A service that is reported as running has a worker (daemon.rs:250).
RunningHasWorker == state = "running" => worker # "none"

\* When nothing happens any more the supervisor ends where the configuration,
\* the system's debugging and the network want it: it serves on the right
\* addresses, or it has let go of everything, whatever happened before.
Converges ==
    <>[](~quit =>
        /\ ~config.enabled \/ native = "conflict" \/ (native = "clear" /\ net = None)
               => worker = "none" /\ bundle = None
        /\ config.enabled /\ native = "clear" /\ net # None
               => /\ state = "running" /\ worker = "up" /\ alive
                  /\ bundle = [net |-> net, port |-> config.port])
=============================================================================
