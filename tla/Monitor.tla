------------------------------ MODULE Monitor -------------------------------
(***************************************************************************)
(* The watch over the system's own debugging (src/unix/ksu.rs): a thread   *)
(* of the root supervisor reads the processes and the settings, which may  *)
(* take seconds or fail, and publishes what it found; the supervisor's     *)
(* loop (src/unix/daemon.rs) polls that snapshot and stops the service     *)
(* when it tells of a conflict, tells of a failure, or is too old.  While  *)
(* the settings cannot be read a running service lives on for a while on   *)
(* the last check that found nothing.                                      *)
(*                                                                         *)
(* Time is discrete: Tick lets one unit pass, and every instant the code   *)
(* remembers is kept as its age.  Ages stop growing where no comparison    *)
(* tells the difference any more.                                          *)
(***************************************************************************)
EXTENDS Integers

CONSTANTS
    Interval,   \* the pause between two checks, 3 s
    Timeout,    \* the limit of one reading of the settings, 2 s
    Stale,      \* the age at which a snapshot is no longer believed, 6 s
    Grace,      \* SETTINGS_GRACE, 120 s
    Poll,       \* bound: the longest time between two polls of the loop
    Late,       \* bound: how much longer a reading may take to be given up
    MaxChanges, \* bound: changes of the surroundings
    None

States == {"Clear", "Paused", "Grace"}
Snapshot == [age : 0..(Stale + 1), state : States]

ASSUME ConstantsAssumption ==
    /\ {Interval, Timeout, Stale, Grace, Poll} \subseteq Nat \ {0}
    /\ Late \in Nat
    /\ MaxChanges \in Nat
    /\ None \notin Nat \cup Snapshot

VARIABLES
    \* the system
    enabled,    \* debugging is enabled in the settings
    provider,   \* the settings can be read
    adbd,       \* what /proc shows: "none", "adbd", or "unreadable"
    changes,    \* changes so far
    quiet,      \* in this behaviour only the provider changes, and the thread is
                \* never late: chosen at the start
    \* the thread
    phase,      \* "waiting", "asking" for the settings, or "answering"
    timer,      \* time spent in the pause, or since it asked
    sample,     \* the settings it was given: "off", "on" or "error"
    lastClear,  \* last_clear: its age, or None
    \* what both share
    snapshot,   \* snapshot: its age and state, or None
    \* the supervisor
    service,    \* "stopped", "starting", or "running"
    polled,     \* time since its last poll
    \* history
    enabledFor, \* time since the settings were last off
    shownFor,   \* time since they were last off, or could not be read in time
    adbdFor,    \* time since /proc last showed no adbd
    readFor,    \* how long the settings could be read without a break
    blind       \* time since they could last be read for longer than a check needs

system   == <<enabled, provider, adbd, changes, quiet>>
thread   == <<phase, timer, sample, lastClear>>
loop     == <<service, polled>>
history  == <<enabledFor, shownFor, adbdFor, readFor, blind>>
vars == <<system, thread, snapshot, loop, history>>

\* A snapshot is believed until it is older than Stale, its readings were at most
\* Timeout old, and the next poll comes within Poll.
Reaction == Stale + Timeout + Poll

Longest == Grace + Reaction + Late + 1

\* While the settings can be read for so long, a thread that is never late gives up
\* the reading that has failed, waits, and ends the next.
CheckTime == Interval + 2 * Timeout

\* The variables have the types of the Rust values they stand for, where an
\* instant is an age; and a snapshot that does not pause rests on a check that
\* found debugging off, one of Grace on an older one.
TypeOK ==
    /\ enabled \in BOOLEAN
    /\ provider \in BOOLEAN
    /\ adbd \in {"none", "adbd", "unreadable"}
    /\ changes \in 0..MaxChanges
    /\ quiet \in BOOLEAN
    /\ phase \in {"waiting", "asking", "answering"}
    /\ timer \in 0..(Interval + Timeout + Late)
    /\ sample \in {"off", "on", "error"}
    /\ lastClear \in 0..Grace \cup {None}
    /\ snapshot \in Snapshot \cup {None}
    /\ snapshot # None /\ snapshot.state # "Paused" => lastClear # None
    /\ service \in {"stopped", "starting", "running"}
    /\ polled \in 0..Poll
    /\ {enabledFor, shownFor, adbdFor, blind} \subseteq 0..Longest
    /\ readFor \in 0..(CheckTime + 1)

-----------------------------------------------------------------------------
(* Helpers *)

Least(a, b) == IF a <= b THEN a ELSE b

\* The age of something of age a after one more unit of time.
Older(a, limit) == Least(a + 1, limit)

\* Fault: a snapshot is believed however old it is.
Status_NeverStale(running) ==
    IF snapshot = None THEN "pause"
    ELSE CASE snapshot.state = "Clear"  -> "clear"
           [] snapshot.state = "Paused" -> "pause"
           [] snapshot.state = "Grace"  -> IF running THEN "wait" ELSE "pause"

\* Fault: the grace is granted to a service that does not run, too.
Status_GraceForAll(running) ==
    IF snapshot = None \/ snapshot.age > Stale THEN "pause"
    ELSE CASE snapshot.state = "Clear"  -> "clear"
           [] snapshot.state = "Paused" -> "pause"
           [] snapshot.state = "Grace"  -> IF running THEN "wait" ELSE "clear"

\* NativeMonitor::status: whether the service must pause, may go on without being
\* touched, or is free.
Status(running) ==
    IF snapshot = None \/ snapshot.age > Stale THEN "pause"
    ELSE CASE snapshot.state = "Clear"  -> "clear"
           [] snapshot.state = "Paused" -> "pause"
           [] snapshot.state = "Grace"  -> IF running THEN "wait" ELSE "pause"

\* The last check that found nothing is recent enough for a grace.
Usable == lastClear # None /\ lastClear < Grace

\* Fault: a failure counts as a check.
Verdict_Refreshes(processes, settings) ==
    CASE processes # "none" -> <<"Paused", None>>
      [] processes = "none" /\ settings = "off" -> <<"Clear", 0>>
      [] processes = "none" /\ settings = "on" -> <<"Paused", None>>
      [] processes = "none" /\ settings = "error" ->
            IF Usable THEN <<"Grace", 0>> ELSE <<"Paused", None>>

\* Fault: the grace can be used once.
Verdict_GraceOnce(processes, settings) ==
    CASE processes # "none" -> <<"Paused", None>>
      [] processes = "none" /\ settings = "off" -> <<"Clear", 0>>
      [] processes = "none" /\ settings = "on" -> <<"Paused", None>>
      [] processes = "none" /\ settings = "error" ->
            IF Usable THEN <<"Grace", None>> ELSE <<"Paused", None>>

\* native_state: the state, and the new age of last_clear.  Only a failure of
\* the settings may reuse a recent check, and it does not refresh it.
Verdict(processes, settings) ==
    CASE processes # "none" -> <<"Paused", None>>
      [] processes = "none" /\ settings = "off" -> <<"Clear", 0>>
      [] processes = "none" /\ settings = "on" -> <<"Paused", None>>
      [] processes = "none" /\ settings = "error" ->
            IF Usable THEN <<"Grace", lastClear>> ELSE <<"Paused", None>>

\* The thread publishes what a check found, and waits.
Publish(processes, settings) ==
    /\ snapshot' = [age |-> 0, state |-> Verdict(processes, settings)[1]]
    /\ lastClear' = Verdict(processes, settings)[2]
    /\ phase' = "waiting" /\ timer' = 0 /\ sample' = "error"

-----------------------------------------------------------------------------
Init ==
    /\ quiet \in BOOLEAN
    /\ enabled \in BOOLEAN /\ (quiet => ~enabled)
    /\ provider = TRUE
    /\ adbd = "none"
    /\ changes = 0
    /\ phase = "waiting" /\ timer = Interval  \* the first check is at once
    /\ sample = "error"
    /\ lastClear = None
    /\ snapshot = None
    /\ service = "stopped"
    /\ polled = 0
    /\ enabledFor = 0 /\ shownFor = 0 /\ adbdFor = 0
    /\ readFor = 0 /\ blind = 0

-----------------------------------------------------------------------------
(* The system *)

\* The user, the framework, or init changes something.
Change ==
    /\ changes < MaxChanges
    /\ changes' = changes + 1
    /\ \/ /\ ~quiet
          /\ enabled' = ~enabled
          /\ UNCHANGED <<provider, adbd>>
       \/ /\ provider' = ~provider
          /\ UNCHANGED <<enabled, adbd>>
       \/ /\ ~quiet
          /\ adbd' \in {"none", "adbd", "unreadable"} \ {adbd}
          /\ UNCHANGED <<enabled, provider>>
    /\ enabledFor' = IF enabled' THEN enabledFor ELSE 0
    /\ shownFor' = IF enabled' /\ provider' THEN shownFor ELSE 0
    /\ adbdFor' = IF adbd' # "none" THEN adbdFor ELSE 0
    /\ readFor' = IF provider' THEN readFor ELSE 0
    /\ UNCHANGED <<quiet, thread, snapshot, loop, blind>>

\* The thread of a quiet system does what it has to do before time passes.
Due == IF phase = "waiting" THEN timer >= Interval ELSE timer >= Timeout

\* One unit of time passes.
Tick ==
    /\ polled < Poll
    /\ quiet => ~Due
    /\ phase # "waiting" => timer < Timeout + Late
    /\ timer' = Older(timer, Interval + Timeout + Late)
    /\ lastClear' = IF lastClear = None THEN None ELSE Older(lastClear, Grace)
    /\ snapshot' = IF snapshot = None THEN None
                   ELSE [snapshot EXCEPT !.age = Older(@, Stale + 1)]
    /\ polled' = polled + 1
    /\ enabledFor' = IF enabled THEN Older(enabledFor, Longest) ELSE 0
    /\ shownFor' = IF enabled /\ provider THEN Older(shownFor, Longest) ELSE 0
    /\ adbdFor' = IF adbd # "none" THEN Older(adbdFor, Longest) ELSE 0
    /\ readFor' = IF provider THEN Older(readFor, CheckTime + 1) ELSE 0
    /\ blind' = IF readFor' > CheckTime THEN 0 ELSE Older(blind, Longest)
    /\ UNCHANGED <<system, phase, sample, service>>

-----------------------------------------------------------------------------
(* The thread *)

\* A check begins with /proc (native_processes); unless it shows neither an adbd
\* nor an error, the settings are not asked (ksu.rs:433-441).
Check ==
    /\ phase = "waiting" /\ timer >= Interval
    /\ IF adbd = "none"
       THEN /\ phase' = "asking" /\ timer' = 0 /\ sample' = "error"
            /\ UNCHANGED <<snapshot, lastClear>>
       ELSE Publish(adbd, "error")
    /\ UNCHANGED <<system, loop, history>>

\* The settings command reads the settings: native_settings_status will find
\* them on or off, or fail.
Sample ==
    /\ phase = "asking" /\ timer <= Timeout
    /\ phase' = "answering"
    /\ sample' = IF ~provider THEN "error" ELSE IF enabled THEN "on" ELSE "off"
    /\ UNCHANGED <<system, timer, lastClear, snapshot, loop, history>>

\* Its answer arrives in time.
Answer ==
    /\ phase = "answering" /\ timer <= Timeout
    /\ Publish("none", sample)
    /\ UNCHANGED <<system, loop, history>>

\* It does not, and the command is killed.  A provider that can be read answers a
\* thread that is never late.
Expire ==
    /\ phase \in {"asking", "answering"} /\ timer >= Timeout
    /\ quiet => ~provider
    /\ Publish("none", "error")
    /\ shownFor' = 0
    /\ UNCHANGED <<system, loop, enabledFor, adbdFor, readFor, blind>>

-----------------------------------------------------------------------------
(* The supervisor *)

\* The loop asks the monitor, when the properties show no conflict, and stops
\* the service, leaves it alone, or starts it when the rest is in order.
PollMonitor ==
    /\ polled' = 0
    /\ LET status == Status(service = "running") IN
       CASE status = "pause" -> service' = "stopped"
         [] status = "wait"  -> UNCHANGED service
         [] status = "clear" -> service' \in {service} \cup
                (IF service = "stopped" THEN {"starting"} ELSE {})
    /\ UNCHANGED <<system, thread, snapshot, history>>

\* Message::Ready of a new worker.
Ready ==
    /\ service = "starting"
    /\ service' = "running"
    /\ UNCHANGED <<system, thread, snapshot, polled, history>>

\* The worker is replaced, for other permissions.
Rotate ==
    /\ service = "running"
    /\ service' = "starting"
    /\ UNCHANGED <<system, thread, snapshot, polled, history>>

\* The service is stopped for another reason: the properties of the system, the
\* configuration, the network, an error.
Fail ==
    /\ service # "stopped"
    /\ service' = "stopped"
    /\ UNCHANGED <<system, thread, snapshot, polled, history>>

-----------------------------------------------------------------------------
Next ==
    \/ Change
    \/ Tick
    \/ Check
    \/ Sample
    \/ Answer
    \/ Expire
    \/ PollMonitor
    \/ Ready
    \/ Rotate
    \/ Fail

Spec == Init /\ [][Next]_vars

-----------------------------------------------------------------------------
(* Properties *)

\* The service does not outlive a conflict that can be seen, however late the
\* thread is: not a setting that is on and readable, for longer than Reaction,
\* nor an adbd or an unreadable /proc, which the check may have looked at before
\* the reading of the settings that it gave up (ksu.rs:478).
ConflictEndsService ==
    service # "stopped" => shownFor <= Reaction /\ adbdFor <= Reaction + Late

\* The grace ends: the service never runs for longer than Grace and Reaction
\* after debugging was last off, though the settings cannot be read.
GraceIsBounded == service # "stopped" => enabledFor < Grace + Reaction

\* Nothing starts on the grace: debugging was off when the service starts, but
\* for the age of a snapshot that is still believed.
StartsAreConfirmed ==
    [][service = "stopped" /\ service' # "stopped" => enabledFor <= Stale + Timeout]_vars

\* With a thread that is never late a running service is not taken down for a
\* snapshot that is too old, nor for settings that could be read for longer than
\* CheckTime in the last Grace, but for a pause and a reading.
NoNeedlessPause ==
    [][quiet /\ service = "running" /\ Status(TRUE) = "pause" =>
        blind + Interval + Timeout >= Grace]_vars
=============================================================================
