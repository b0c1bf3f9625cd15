-------------------------- MODULE SupervisorProofs --------------------------
(***************************************************************************)
(* The safety of Supervisor for any networks, ports, bounds and places     *)
(* where a worker start may fail.                                          *)
(***************************************************************************)
EXTENDS Supervisor, TLAPS

\* What ties sessions, listeners and the root mode to the worker.
WorkerInv ==
    /\ worker = "none" => services = {}
    /\ worker = "booting" => services = {} /\ state = "starting" /\ bundle # None
    /\ root => config.allowRoot

\* The inductive invariant behind the safety properties.
SupervisorInv ==
    /\ TypeOK
    /\ WorkerInv
    /\ ServicePolicy
    /\ ModesSettle
    /\ ListenersMatchConfig
    /\ RunningHasBundle
    /\ WindowHasWorker

\* Stop leaves no session, no listener and no root mode, from whatever state.
LEMMA StopEffect ==
    ASSUME SupervisorInv, NEW s \in States \ {"running", "starting"}, Stop(s)
    PROVE  /\ services' = {} /\ window' = FALSE
           /\ worker' = "none" /\ alive' \in BOOLEAN
           /\ bundle' = None /\ root' = FALSE /\ rotate' = FALSE
           /\ state' = s
<1>1. CASE worker # "none"
  BY <1>1 DEF Stop, StopWorker, EndSessions
<1>2. CASE worker = "none"
  BY <1>2 DEF Stop, SupervisorInv, WorkerInv, WindowHasWorker, TypeOK
<1>3. QED
  BY <1>1, <1>2

\* The back-off keeps its cap.
LEMMA FailureTypes ==
    ASSUME TypeOK, ConstantsAssumption, NEW s, NoteFailure(s)
    PROVE  failures' \in 0..MaxFailures /\ backoff' \in BOOLEAN
<1>1. backoff' \in BOOLEAN
  BY DEF NoteFailure, TypeOK
<1>2. failures' = failures \/ (failures < MaxFailures /\ failures' = failures + 1)
  BY DEF NoteFailure
<1>3. failures' \in 0..MaxFailures
  BY <1>2 DEF TypeOK, ConstantsAssumption
<1>4. QED
  BY <1>1, <1>3

\* A counted event stays a number.
LEMMA EventTypes == ASSUME TypeOK, Event \/ UNCHANGED events PROVE events' \in Nat
BY DEF Event, TypeOK

\* Whatever ends in Stop is safe, whether or not the configuration changed.
LEMMA StopSafe ==
    ASSUME SupervisorInv, ConstantsAssumption,
           NEW s \in States \ {"running", "starting"}, Stop(s),
           config' \in Config, quit' \in BOOLEAN, UNCHANGED around,
           Event \/ UNCHANGED events
    PROVE  SupervisorInv'
<1>1. /\ services' = {} /\ window' = FALSE
      /\ worker' = "none" /\ alive' \in BOOLEAN
      /\ bundle' = None /\ root' = FALSE /\ rotate' = FALSE
      /\ state' = s
  BY StopEffect
<1>2. failures' \in 0..MaxFailures /\ backoff' \in BOOLEAN
  BY FailureTypes DEF Stop, SupervisorInv
<1>3. events' \in Nat
  BY EventTypes DEF SupervisorInv
<1>4. TypeOK'
  BY <1>1, <1>2, <1>3 DEF SupervisorInv, TypeOK, around
<1>5. WorkerInv' /\ ServicePolicy' /\ ModesSettle' /\ ListenersMatchConfig'
      /\ RunningHasBundle' /\ WindowHasWorker'
  BY <1>1 DEF WorkerInv, ServicePolicy, ModesSettle, ListenersMatchConfig,
              RunningHasBundle, WindowHasWorker
<1>6. QED
  BY <1>4, <1>5 DEF SupervisorInv

\* A worker that replaces another, or that starts on new listeners, begins with
\* no session of the old one.
LEMMA BootSafe ==
    ASSUME SupervisorInv, ConstantsAssumption, BootWorker,
           services' = {}, window' = FALSE,
           config' \in Config, bundle' \in Bundle, root' \in BOOLEAN, rotate' \in BOOLEAN,
           ListenersMatchConfig', root' => config'.allowRoot,
           UNCHANGED <<failures, backoff, quit, around>>, Event \/ UNCHANGED events
    PROVE  SupervisorInv'
<1>1. events' \in Nat
  BY EventTypes DEF SupervisorInv
<1>2. TypeOK'
  BY <1>1 DEF SupervisorInv, TypeOK, BootWorker, States, around
<1>3. WorkerInv' /\ ServicePolicy' /\ ModesSettle' /\ RunningHasBundle' /\ WindowHasWorker'
  <2>1. bundle' # None
    BY DEF ConstantsAssumption
  <2>2. QED
    BY <2>1 DEF BootWorker, WorkerInv, ServicePolicy, ModesSettle, RunningHasBundle,
                WindowHasWorker
<1>4. QED
  BY <1>2, <1>3 DEF SupervisorInv

-----------------------------------------------------------------------------
LEMMA InitSafe == ASSUME ConstantsAssumption, Init PROVE SupervisorInv
<1>1. failures \in 0..MaxFailures /\ events \in Nat
  BY DEF Init, ConstantsAssumption
<1>2. TypeOK
  BY <1>1 DEF Init, TypeOK, States
<1>3. WorkerInv /\ ServicePolicy /\ ModesSettle /\ ListenersMatchConfig
      /\ RunningHasBundle /\ WindowHasWorker
  BY DEF Init, WorkerInv, ServicePolicy, ModesSettle, ListenersMatchConfig,
         RunningHasBundle, WindowHasWorker
<1>4. QED
  BY <1>2, <1>3 DEF SupervisorInv

\* The control socket: pairing, configuration, stop.
LEMMA ControlSafe ==
    ASSUME SupervisorInv, ConstantsAssumption,
           \/ PairStart \/ PairStop \/ Quit
           \/ \E c \in Config : ConfigureEndpoint(c) \/ ConfigurePermissions(c)
    PROVE  SupervisorInv'
<1> USE DEF SupervisorInv
<1>1. CASE PairStart \/ PairStop
  <2>1. TypeOK'
    BY <1>1 DEF PairStart, PairStop, TypeOK, around
  <2>2. window' => worker' = "up" /\ state' = "running"
    BY <1>1 DEF PairStart, PairStop, WindowHasWorker, WorkerInv, TypeOK
  <2>3. QED
    BY <1>1, <2>1, <2>2 DEF PairStart, PairStop, WorkerInv, ServicePolicy, ModesSettle,
          ListenersMatchConfig, RunningHasBundle, WindowHasWorker
<1>2. CASE Quit
  <2>1. Stop("disabled") /\ config' \in Config /\ quit' \in BOOLEAN
        /\ UNCHANGED around /\ Event
    BY <1>2 DEF Quit, TypeOK
  <2>2. QED
    BY <2>1, StopSafe DEF States
<1>3. ASSUME NEW c \in Config, ConfigureEndpoint(c) PROVE SupervisorInv'
  <2>1. Stop("disabled") /\ config' \in Config /\ quit' \in BOOLEAN
        /\ UNCHANGED around /\ Event
    BY <1>3 DEF ConfigureEndpoint, TypeOK
  <2>2. QED
    BY <2>1, StopSafe DEF States
<1>4. ASSUME NEW c \in Config, ConfigurePermissions(c) PROVE SupervisorInv'
  <2>1. /\ config' = c /\ c.port = config.port /\ c.enabled = config.enabled
        /\ root' = FALSE /\ Event
        /\ UNCHANGED <<bundle, rotate, failures, backoff, quit, around>>
    BY <1>4 DEF ConfigurePermissions
  <2>2. ListenersMatchConfig'
    BY <2>1 DEF ListenersMatchConfig
  <2>3. CASE bundle # None /\ EndSessions /\ BootWorker
    BY <2>1, <2>2, <2>3, BootSafe DEF EndSessions, TypeOK
  <2>4. CASE StopWorker /\ UNCHANGED state
    <3>1. services' = {} /\ window' = FALSE /\ worker' = "none" /\ alive' = FALSE
      BY <2>4 DEF StopWorker, EndSessions
    <3>2. events' \in Nat
      BY <2>1, EventTypes
    <3>3. TypeOK'
      BY <2>1, <2>4, <3>1, <3>2 DEF TypeOK, around
    <3>4. QED
      BY <2>1, <2>2, <2>4, <3>1, <3>3 DEF WorkerInv, ServicePolicy, ModesSettle,
            RunningHasBundle, WindowHasWorker
  <2>5. QED
    BY <1>4, <2>3, <2>4 DEF ConfigurePermissions
<1>5. QED
  BY <1>1, <1>2, <1>3, <1>4

\* The messages of the worker and the restart after adb root.
LEMMA WorkerSafe ==
    ASSUME SupervisorInv, ConstantsAssumption,
           \/ Ready \/ SpawnService \/ Rotate \/ WorkerFailed
           \/ \E s \in services : ServiceEnds(s)
           \/ \E enable \in BOOLEAN : RequestRoot(enable)
    PROVE  SupervisorInv'
<1> USE DEF SupervisorInv
<1>1. CASE Ready
  BY <1>1 DEF Ready, TypeOK, States, around, WorkerInv, ServicePolicy, ModesSettle,
              ListenersMatchConfig, RunningHasBundle, WindowHasWorker
<1>2. CASE SpawnService
  <2>1. TypeOK'
    BY <1>2 DEF SpawnService, TypeOK, Service, Config, around
  <2>2. QED
    BY <1>2, <2>1 DEF SpawnService, WorkerInv, ServicePolicy, ModesSettle,
          ListenersMatchConfig, RunningHasBundle, WindowHasWorker
<1>3. ASSUME NEW s \in services, ServiceEnds(s) PROVE SupervisorInv'
  BY <1>3 DEF ServiceEnds, TypeOK, around, WorkerInv, ServicePolicy, ModesSettle,
              ListenersMatchConfig, RunningHasBundle, WindowHasWorker
<1>4. ASSUME NEW enable \in BOOLEAN, RequestRoot(enable) PROVE SupervisorInv'
  <2>1. events' \in Nat
    BY <1>4, EventTypes DEF RequestRoot
  <2>2. TypeOK'
    BY <1>4, <2>1 DEF RequestRoot, TypeOK, around
  <2>3. QED
    BY <1>4, <2>2 DEF RequestRoot, WorkerInv, ServicePolicy, ModesSettle,
          ListenersMatchConfig, RunningHasBundle, WindowHasWorker
<1>5. CASE Rotate
  <2>1. CASE bundle # None /\ EndSessions /\ BootWorker
             /\ UNCHANGED <<bundle, root, failures, backoff, events>>
    BY <1>5, <2>1, BootSafe DEF Rotate, EndSessions, TypeOK, WorkerInv,
          ListenersMatchConfig
  <2>2. CASE Event /\ StopWorker /\ NoteFailure("error")
             /\ bundle' = None /\ root' = FALSE /\ state' = "error"
    <3>1. rotate' = FALSE /\ UNCHANGED <<config, quit, around>>
      BY <1>5 DEF Rotate
    <3>2. services' = {} /\ window' = FALSE /\ worker' = "none" /\ alive' = FALSE
      BY <2>2 DEF StopWorker, EndSessions
    <3>3. failures' \in 0..MaxFailures /\ backoff' \in BOOLEAN /\ events' \in Nat
      BY <2>2, FailureTypes, EventTypes
    <3>4. TypeOK'
      BY <2>2, <3>1, <3>2, <3>3 DEF TypeOK, States, around
    <3>5. QED
      BY <2>2, <3>1, <3>2, <3>4 DEF WorkerInv, ServicePolicy, ModesSettle,
            ListenersMatchConfig, RunningHasBundle, WindowHasWorker
  <2>3. QED
    BY <1>5, <2>1, <2>2 DEF Rotate
<1>6. CASE WorkerFailed
  <2>1. Stop("error") /\ config' \in Config /\ quit' \in BOOLEAN
        /\ UNCHANGED <<around, events>>
    BY <1>6 DEF WorkerFailed, TypeOK
  <2>2. QED
    BY <2>1, StopSafe DEF States
<1>7. QED
  BY <1>1, <1>2, <1>3, <1>4, <1>5, <1>6

\* The periodic check.
LEMMA CheckSafe ==
    ASSUME SupervisorInv, ConstantsAssumption, Check
    PROVE  SupervisorInv'
<1> USE DEF SupervisorInv
<1>1. config' = config /\ quit' = quit /\ UNCHANGED around
      /\ config' \in Config /\ quit' \in BOOLEAN
  BY DEF Check, CheckDisabled, CheckNative, CheckNoNetwork, CheckNetworkChanged,
         CheckUnreadable, NetworkDue, Checking, TypeOK
<1>2. ASSUME NEW s \in States \ {"running", "starting"}, Stop(s),
             Event \/ UNCHANGED events
      PROVE  SupervisorInv'
  BY <1>1, <1>2, StopSafe
<1>3. CASE CheckDisabled \/ CheckNative \/ CheckNoNetwork \/ CheckUnreadable
  BY <1>2, <1>3 DEF CheckDisabled, CheckNative, CheckNoNetwork, CheckUnreadable, States
<1>4. CASE CheckNetworkChanged
  <2>1. CASE /\ IF worker # "none" THEN EndSessions ELSE UNCHANGED <<window, services>>
             /\ BootWorker
             /\ bundle' = [net |-> net, port |-> config.port]
             /\ root' = FALSE /\ rotate' = FALSE
             /\ UNCHANGED <<failures, backoff, events>>
    <3>1. services' = {} /\ window' = FALSE
      BY <2>1 DEF EndSessions, WorkerInv, WindowHasWorker, TypeOK
    <3>2. net \in Net /\ config.enabled /\ config.port \in Port
      BY <1>4 DEF CheckNetworkChanged, NetworkDue, TypeOK, Config
    <3>3. bundle' \in Bundle /\ ListenersMatchConfig'
      BY <1>1, <2>1, <3>2 DEF Bundle, ListenersMatchConfig
    <3>4. QED
      BY <1>1, <2>1, <3>1, <3>3, BootSafe
  <2>2. QED
    BY <1>2, <1>4, <2>1 DEF CheckNetworkChanged, States
<1>5. QED
  BY <1>3, <1>4 DEF Check

\* Time, the surroundings, and a new start of the daemon.
LEMMA AroundSafe ==
    ASSUME SupervisorInv, ConstantsAssumption,
           \/ BackoffEnds \/ WorkerDies \/ NativeChanges \/ NetChanges \/ Relaunch
           \/ UNCHANGED vars
    PROVE  SupervisorInv'
<1> USE DEF SupervisorInv
<1>1. CASE UNCHANGED daemon
  <2>1. events' \in Nat /\ alive' \in BOOLEAN
        /\ native' \in {"clear", "conflict", "unavailable"} /\ net' \in Net \cup {None}
    <3>1. events' \in Nat
      BY <1>1, EventTypes DEF BackoffEnds, WorkerDies, NativeChanges, NetChanges,
            Relaunch, vars
    <3>2. QED
      BY <1>1, <3>1 DEF BackoffEnds, WorkerDies, NativeChanges, NetChanges, Relaunch,
            TypeOK, vars, around, daemon
  <2>2. TypeOK'
    BY <1>1, <2>1 DEF TypeOK, daemon
  <2>3. QED
    BY <1>1, <2>2 DEF daemon, WorkerInv, ServicePolicy, ModesSettle,
          ListenersMatchConfig, RunningHasBundle, WindowHasWorker
<1>2. CASE BackoffEnds
  BY <1>2, ZenonT(60) DEF BackoffEnds, TypeOK, around, WorkerInv, ServicePolicy, ModesSettle,
              ListenersMatchConfig, RunningHasBundle, WindowHasWorker
<1>3. CASE Relaunch
  <2>1. failures' \in 0..MaxFailures /\ events' \in Nat
    BY <1>3, EventTypes DEF Relaunch, ConstantsAssumption
  <2>2. TypeOK'
    BY <1>3, <2>1 DEF Relaunch, TypeOK, States, around
  <2>3. QED
    BY <1>3, <2>2 DEF Relaunch, WorkerInv, ServicePolicy, ModesSettle,
          ListenersMatchConfig, RunningHasBundle, WindowHasWorker
<1>4. QED
  BY <1>1, <1>2, <1>3 DEF WorkerDies, NativeChanges, NetChanges, vars

\* Any order of commands, messages, checks and faults keeps permissions, root
\* mode, listeners, reported state and pairing window together, for any networks,
\* ports and bounds (daemon.rs:147, 182, 200, 298, 470, 627).
THEOREM SupervisorSafe == Spec => []SupervisorInv
<1>1. Init => SupervisorInv
  BY InitSafe, ConstantsAssumption
<1>2. SupervisorInv /\ [Next]_vars => SupervisorInv'
  BY ControlSafe, WorkerSafe, CheckSafe, AroundSafe, ConstantsAssumption DEF Next
<1>3. QED
  BY <1>1, <1>2, PTL DEF Spec

\* No session keeps a permission that the configuration withdrew (daemon.rs:298).
THEOREM PolicyHolds == Spec => []ServicePolicy
<1>1. SupervisorInv => ServicePolicy
  BY DEF SupervisorInv
<1>2. QED
  BY <1>1, SupervisorSafe, PTL

\* Services of another root mode live only until the armed restart (daemon.rs:490).
THEOREM ModesAgree == Spec => []ModesSettle
<1>1. SupervisorInv => ModesSettle
  BY DEF SupervisorInv
<1>2. QED
  BY <1>1, SupervisorSafe, PTL

\* What is bound is what the configuration asks for (daemon.rs:289).
THEOREM ListenersAgree == Spec => []ListenersMatchConfig
<1>1. SupervisorInv => ListenersMatchConfig
  BY DEF SupervisorInv
<1>2. QED
  BY <1>1, SupervisorSafe, PTL

\* The unwrap of the bundle in PairStart never fails, and an open pairing window has
\* a worker behind it (daemon.rs:256, 148).
THEOREM StateHasItsParts == Spec => []StateIsBacked
<1>1. SupervisorInv => StateIsBacked
  BY DEF SupervisorInv, StateIsBacked
<1>2. QED
  BY <1>1, SupervisorSafe, PTL

\* Types, for any networks, ports and number of events (daemon.rs:78).
THEOREM SupervisorTypes == Spec => []TypeOK
<1>1. SupervisorInv => TypeOK
  BY DEF SupervisorInv
<1>2. QED
  BY <1>1, SupervisorSafe, PTL
=============================================================================
