---------------------------- MODULE MonitorProofs ----------------------------
(***************************************************************************)
(* The limits of Monitor for any interval, time-out, age and grace: each   *)
(* age the monitor decides by bounds the time that has really passed, and  *)
(* a pause of the service has its reason in the settings.                  *)
(***************************************************************************)
EXTENDS Monitor, TLAPS

USE DEF Older, Least

\* The verdict of a check.
LEMMA VerdictCases ==
    ASSUME NEW processes, NEW settings \in {"off", "on", "error"}
    PROVE  \/ Verdict(processes, settings) = <<"Paused", None>>
           \/ /\ processes = "none" /\ settings = "off"
              /\ Verdict(processes, settings) = <<"Clear", 0>>
           \/ /\ processes = "none" /\ settings = "error" /\ Usable
              /\ Verdict(processes, settings) = <<"Grace", lastClear>>
BY DEF Verdict

LEMMA PublishTypes ==
    ASSUME TypeOK, NEW processes, NEW settings \in {"off", "on", "error"},
           Publish(processes, settings)
    PROVE  /\ snapshot' \in Snapshot /\ snapshot'.age = 0
           /\ \/ snapshot'.state = "Paused" /\ lastClear' = None
              \/ snapshot'.state = "Clear" /\ lastClear' = 0 /\ processes = "none" /\ settings = "off"
              \/ /\ snapshot'.state = "Grace" /\ lastClear' = lastClear
                 /\ lastClear # None /\ lastClear < Grace
                 /\ processes = "none" /\ settings = "error"
           /\ phase' = "waiting" /\ timer' = 0 /\ sample' = "error"
<1>1. snapshot' = [age |-> 0, state |-> Verdict(processes, settings)[1]]
      /\ lastClear' = Verdict(processes, settings)[2]
  BY DEF Publish
<1>2. 0 \in 0..(Stale + 1)
  BY ConstantsAssumption
<1>3. QED
  BY <1>1, <1>2, VerdictCases DEF Publish, Snapshot, States, Usable

LEMMA InitTypes == Init => TypeOK
BY ConstantsAssumption DEF Init, TypeOK, Longest, Reaction, CheckTime

\* What a check leaves.
LEMMA CheckTypes ==
    ASSUME TypeOK, Check \/ Answer \/ Expire
    PROVE  TypeOK'
<1>1. 0 \in 0..Grace /\ 0 \in 0..(Interval + Timeout + Late) /\ 0 \in 0..Longest
  BY ConstantsAssumption DEF Longest, Reaction
<1>2. ASSUME NEW processes, NEW settings \in {"off", "on", "error"}, Publish(processes, settings),
             UNCHANGED <<system, loop, enabledFor, adbdFor, readFor, blind>>,
             shownFor' \in {shownFor, 0}
      PROVE  TypeOK'
  <2>1. snapshot' \in Snapshot /\ (snapshot'.state # "Paused" => lastClear' # None)
    BY <1>2, PublishTypes, ConstantsAssumption
  <2>2. lastClear' \in 0..Grace \cup {None}
    BY <1>1, <1>2, PublishTypes DEF TypeOK
  <2>3. phase' = "waiting" /\ timer' = 0 /\ sample' = "error"
    BY <1>2, PublishTypes
  <2>4. {enabledFor', shownFor', adbdFor', blind'} \subseteq 0..Longest /\ readFor' \in 0..(CheckTime + 1)
    BY <1>1, <1>2 DEF TypeOK
  <2>5. QED
    BY <1>1, <1>2, <2>1, <2>2, <2>3, <2>4 DEF TypeOK, system, loop
<1>3. CASE Check
  BY <1>1, <1>2, <1>3 DEF Check, TypeOK, system, loop, history
<1>4. CASE Answer
  BY <1>2, <1>4 DEF Answer, TypeOK, history
<1>5. CASE Expire
  BY <1>2, <1>5 DEF Expire
<1>6. QED
  BY <1>3, <1>4, <1>5

LEMMA TickTypes == TypeOK /\ Tick => TypeOK'
<1> SUFFICES ASSUME TypeOK, Tick PROVE TypeOK'
  OBVIOUS
<1>1. snapshot' = None \/ (snapshot # None /\ snapshot' \in Snapshot /\ snapshot'.state = snapshot.state)
  BY ConstantsAssumption DEF Tick, TypeOK, Snapshot
<1>2. timer' \in 0..(Interval + Timeout + Late) /\ polled' \in 0..Poll
  BY ConstantsAssumption DEF Tick, TypeOK
<1>3. /\ lastClear' \in 0..Grace \cup {None} /\ (lastClear' = None => lastClear = None)
  BY ConstantsAssumption DEF Tick, TypeOK
<1>4. {enabledFor', shownFor', adbdFor', blind'} \subseteq 0..Longest
  BY ConstantsAssumption DEF Tick, TypeOK, Longest, Reaction
<1>5. readFor' \in 0..(CheckTime + 1)
  BY ConstantsAssumption DEF Tick, TypeOK, CheckTime
<1>6. QED
  BY <1>1, <1>2, <1>3, <1>4, <1>5 DEF Tick, TypeOK, system

LEMMA StepTypes == TypeOK /\ [Next]_vars => TypeOK'
<1> SUFFICES ASSUME TypeOK, [Next]_vars PROVE TypeOK'
  OBVIOUS
<1>1. CASE Change
  <2>1. 0 \in 0..Longest /\ 0 \in 0..(CheckTime + 1)
    BY ConstantsAssumption DEF Longest, Reaction, CheckTime
  <2>2. {enabledFor', shownFor', adbdFor', blind'} \subseteq 0..Longest /\ readFor' \in 0..(CheckTime + 1)
    BY <1>1, <2>1 DEF Change, TypeOK
  <2>3. changes' \in 0..MaxChanges /\ enabled' \in BOOLEAN /\ provider' \in BOOLEAN
        /\ adbd' \in {"none", "adbd", "unreadable"}
    <3>1. changes' \in 0..MaxChanges
      BY <1>1, ConstantsAssumption DEF Change, TypeOK
    <3>2. enabled' \in BOOLEAN
      BY <1>1 DEF Change, TypeOK
    <3>3. provider' \in BOOLEAN
      BY <1>1 DEF Change, TypeOK
    <3>4. adbd' \in {"none", "adbd", "unreadable"}
      BY <1>1 DEF Change, TypeOK
    <3>5. QED
      BY <3>1, <3>2, <3>3, <3>4
  <2>4. QED
    BY <1>1, <2>2, <2>3 DEF Change, TypeOK, thread, loop
<1>2. CASE Sample
  BY <1>2 DEF Sample, TypeOK, system, loop, history
<1>3. CASE PollMonitor
  <2>1. service' \in {"stopped", "starting", "running"}
    <3>1. Status(service = "running") \in {"pause", "wait", "clear"}
      BY DEF Status, TypeOK, Snapshot, States
    <3>2. QED
      BY <1>3, <3>1 DEF PollMonitor, TypeOK
  <2>2. QED
    BY <1>3, <2>1, ConstantsAssumption DEF PollMonitor, TypeOK, system, thread, history
<1>4. CASE Ready \/ Rotate \/ Fail
  BY <1>4 DEF Ready, Rotate, Fail, TypeOK, system, thread, history
<1>5. CASE UNCHANGED vars
  BY <1>5 DEF vars, TypeOK, system, thread, loop, history
<1>6. QED
  BY <1>1, <1>2, <1>3, <1>4, <1>5, CheckTypes, TickTypes DEF Next

\* Types, for any limits (ksu.rs:366).
THEOREM TypesHold == Spec => []TypeOK
BY InitTypes, StepTypes, PTL DEF Spec

-----------------------------------------------------------------------------
(* What the ages say *)

\* While a check is under way: what it has seen was so no longer ago than it began.
CheckAges ==
    /\ ~(enabled /\ provider) => shownFor = 0
    /\ ~enabled => enabledFor = 0
    /\ adbd = "none" => adbdFor = 0
    /\ phase # "waiting" => timer <= Timeout + Late /\ adbdFor <= timer
    /\ phase = "answering" /\ sample # "on" => shownFor <= timer
    /\ phase = "answering" /\ sample = "off" => enabledFor <= timer

\* The check that a grace rests on.
ClearAge == lastClear # None /\ lastClear < Grace => enabledFor <= lastClear + Timeout

\* A snapshot that does not pause and is still believed.
Believed == snapshot # None /\ snapshot.state # "Paused" /\ snapshot.age <= Stale

SnapshotAges ==
    Believed =>
        /\ shownFor <= snapshot.age + Timeout
        /\ adbdFor <= snapshot.age + Timeout + Late
        /\ enabledFor < snapshot.age + Timeout + Grace
        /\ snapshot.state = "Clear" => enabledFor <= snapshot.age + Timeout

\* A service that runs was believed to be free at the last poll.
ServiceAges ==
    service # "stopped" =>
        /\ shownFor <= Stale + Timeout + polled
        /\ adbdFor <= Stale + Timeout + Late + polled
        /\ enabledFor < Stale + Timeout + Grace + polled

AgesInv == CheckAges /\ ClearAge /\ SnapshotAges /\ ServiceAges

LEMMA AgesInit == Init => AgesInv
BY ConstantsAssumption
   DEF Init, AgesInv, CheckAges, ClearAge, Believed, SnapshotAges, ServiceAges

\* The variables that count, as numbers.
LEMMA Numbers ==
    ASSUME TypeOK
    PROVE  /\ {Interval, Timeout, Stale, Grace, Poll} \subseteq Nat \ {0} /\ Late \in Nat
           /\ {timer, polled, enabledFor, shownFor, adbdFor} \subseteq Nat
           /\ lastClear # None => lastClear \in Nat
           /\ snapshot # None => snapshot.age \in Nat
BY ConstantsAssumption DEF TypeOK, Snapshot, Longest, Reaction

\* A check that ends believes only what it has seen.
LEMMA PublishAges ==
    ASSUME TypeOK, AgesInv, NEW processes, NEW settings \in {"off", "on", "error"},
           Publish(processes, settings), UNCHANGED <<system, loop, enabledFor, adbdFor>>,
           processes = "none" => phase # "waiting",
           processes = "none" /\ settings = "off" => enabledFor <= Timeout,
           processes = "none" /\ settings # "on" => shownFor' <= Timeout,
           shownFor' \in {0, shownFor}
    PROVE  AgesInv'
<1>1. CheckAges'
  BY PublishTypes DEF AgesInv, CheckAges, system
<1>2. ClearAge'
  BY PublishTypes, Numbers DEF AgesInv, ClearAge
<1>3. SnapshotAges'
  <2>1. processes = "none" => adbdFor <= Timeout + Late
    BY Numbers DEF AgesInv, CheckAges
  <2>2. CASE snapshot'.state = "Paused"
    BY <2>2 DEF SnapshotAges, Believed
  <2>3. CASE snapshot'.state = "Clear"
    BY <2>1, <2>3, PublishTypes, Numbers DEF SnapshotAges
  <2>4. CASE snapshot'.state = "Grace"
    BY <2>1, <2>4, PublishTypes, Numbers DEF AgesInv, ClearAge, SnapshotAges
  <2>5. QED
    BY <2>2, <2>3, <2>4, PublishTypes DEF Snapshot, States
<1>4. ServiceAges'
  BY Numbers DEF AgesInv, ServiceAges, loop
<1>5. QED
  BY <1>1, <1>2, <1>3, <1>4 DEF AgesInv

LEMMA CheckSafe ==
    ASSUME TypeOK, AgesInv, Check \/ Sample \/ Answer \/ Expire
    PROVE  AgesInv'
<1>1. CASE Check
  <2>1. CASE adbd # "none"
    BY <1>1, <2>1, PublishAges DEF Check, history
  <2>2. CASE adbd = "none"
    BY <1>1, <2>2, Numbers DEF Check, history, system, loop, AgesInv, CheckAges, ClearAge,
       SnapshotAges, Believed, ServiceAges
  <2>3. QED
    BY <2>1, <2>2
<1>2. CASE Sample
  BY <1>2, Numbers DEF Sample, history, system, loop, AgesInv, CheckAges, ClearAge,
     SnapshotAges, Believed, ServiceAges
<1>3. CASE Answer
  BY <1>3, PublishAges, Numbers DEF Answer, history, AgesInv, CheckAges, TypeOK
<1>4. CASE Expire
  BY <1>4, PublishAges, Numbers DEF Expire, AgesInv
<1>5. QED
  BY <1>1, <1>2, <1>3, <1>4

LEMMA TickSafe == TypeOK /\ AgesInv /\ Tick => AgesInv'
<1> SUFFICES ASSUME TypeOK, AgesInv, Tick PROVE AgesInv'
  OBVIOUS
<1>1. /\ enabledFor' \in Nat /\ shownFor' \in Nat /\ adbdFor' \in Nat
      /\ enabledFor' <= enabledFor + 1 /\ shownFor' <= shownFor + 1 /\ adbdFor' <= adbdFor + 1
      /\ (~enabled => enabledFor' = 0) /\ (~(enabled /\ provider) => shownFor' = 0)
      /\ (adbd = "none" => adbdFor' = 0)
  BY Numbers DEF Tick, Longest, Reaction
<1>2. CheckAges'
  BY <1>1, Numbers DEF Tick, AgesInv, CheckAges, system
<1>3. ClearAge'
  BY <1>1, Numbers DEF Tick, AgesInv, ClearAge
<1>4. SnapshotAges'
  <2>1. CASE snapshot = None
    BY <2>1 DEF Tick, SnapshotAges, Believed
  <2>2. CASE snapshot # None
    <3>1. snapshot'.state = snapshot.state /\ snapshot'.age = Older(snapshot.age, Stale + 1)
      BY <2>2 DEF Tick, TypeOK, Snapshot
    <3>2. QED
      BY <1>1, <2>2, <3>1, Numbers DEF AgesInv, SnapshotAges, Believed
  <2>3. QED
    BY <2>1, <2>2
<1>5. ServiceAges'
  BY <1>1, Numbers DEF Tick, AgesInv, ServiceAges
<1>6. QED
  BY <1>2, <1>3, <1>4, <1>5 DEF AgesInv

\* What the loop is told rests on a snapshot that it believes.
LEMMA StatusCases ==
    ASSUME TypeOK, NEW running \in BOOLEAN
    PROVE  \/ Status(running) = "pause"
           \/ Status(running) = "clear" /\ Believed /\ snapshot.state = "Clear"
           \/ Status(running) = "wait" /\ Believed /\ running
<1>1. CASE snapshot = None \/ snapshot.age > Stale
  BY <1>1 DEF Status
<1>2. CASE snapshot # None /\ ~(snapshot.age > Stale)
  <2>1. snapshot.age <= Stale
    BY <1>2, Numbers
  <2>2. snapshot.state \in States
    BY <1>2 DEF TypeOK, Snapshot
  <2>3. CASE snapshot.state = "Paused"
    BY <1>2, <2>3 DEF Status
  <2>4. CASE snapshot.state = "Clear"
    BY <1>2, <2>1, <2>4 DEF Status, Believed
  <2>5. CASE snapshot.state = "Grace"
    BY <1>2, <2>1, <2>5 DEF Status, Believed
  <2>6. QED
    BY <2>2, <2>3, <2>4, <2>5 DEF States
<1>3. QED
  BY <1>1, <1>2

\* The supervisor's steps.
LEMMA ServiceSafe ==
    ASSUME TypeOK, AgesInv, Change \/ PollMonitor \/ Ready \/ Rotate \/ Fail
    PROVE  AgesInv'
<1>1. CASE Change
  BY <1>1, Numbers DEF Change, thread, loop, AgesInv, CheckAges, ClearAge, SnapshotAges,
     Believed, ServiceAges
<1>2. CASE PollMonitor
  <2>1. service' # "stopped" => Believed
    <3>1. (service = "running") \in BOOLEAN
      OBVIOUS
    <3>2. CASE Status(service = "running") = "pause"
      BY <1>2, <3>2 DEF PollMonitor
    <3>3. CASE Status(service = "running") # "pause"
      BY <3>1, <3>3, StatusCases
    <3>4. QED
      BY <3>2, <3>3
  <2>2. polled' = 0 /\ UNCHANGED <<system, thread, snapshot, history>>
    BY <1>2 DEF PollMonitor
  <2>3. ServiceAges'
    BY <2>1, <2>2, Numbers DEF AgesInv, SnapshotAges, Believed, ServiceAges, history
  <2>4. QED
    BY <2>2, <2>3 DEF AgesInv, CheckAges, ClearAge, SnapshotAges, Believed, system, thread, history
<1>3. CASE Ready \/ Rotate \/ Fail
  BY <1>3 DEF Ready, Rotate, Fail, system, thread, history, AgesInv, CheckAges, ClearAge,
     SnapshotAges, Believed, ServiceAges
<1>4. QED
  BY <1>1, <1>2, <1>3

LEMMA AgesHold == Spec => [](TypeOK /\ AgesInv)
<1>1. TypeOK /\ AgesInv /\ UNCHANGED vars => AgesInv'
  BY DEF vars, system, thread, loop, history, AgesInv, CheckAges, ClearAge, SnapshotAges,
         Believed, ServiceAges
<1>2. TypeOK /\ AgesInv /\ [Next]_vars => AgesInv'
  BY <1>1, CheckSafe, TickSafe, ServiceSafe DEF Next
<1>3. QED
  BY <1>2, InitTypes, StepTypes, AgesInit, PTL DEF Spec

\* However late the thread is, the service does not run beside a conflict for longer
\* than the ages allow (ksu.rs:472, 478).
THEOREM ConflictsEndServices == Spec => []ConflictEndsService
<1>1. TypeOK /\ AgesInv => ConflictEndsService
  BY ConstantsAssumption, Numbers DEF AgesInv, ServiceAges, ConflictEndsService, Reaction, TypeOK
<1>2. QED
  BY <1>1, AgesHold, PTL

\* A grace cannot renew itself: the check it rests on grows old (ksu.rs:400).
THEOREM GraceEnds == Spec => []GraceIsBounded
<1>1. TypeOK /\ AgesInv => GraceIsBounded
  BY ConstantsAssumption, Numbers DEF AgesInv, ServiceAges, GraceIsBounded, Reaction, TypeOK
<1>2. QED
  BY <1>1, AgesHold, PTL

\* A service starts only on a check that found debugging off (daemon.rs:685).
THEOREM StartsRestOnChecks == Spec => StartsAreConfirmed
<1>1. ASSUME TypeOK, AgesInv, [Next]_vars
      PROVE  [service = "stopped" /\ service' # "stopped" => enabledFor <= Stale + Timeout]_vars
  <2>1. ASSUME service = "stopped", service' # "stopped"
        PROVE  Believed /\ snapshot.state = "Clear"
    <3>1. PollMonitor
      BY <1>1, <2>1 DEF Next, vars, loop, Change, Tick, Check, Sample, Answer, Expire, Ready,
         Rotate, Fail
    <3>2. QED
      <4>1. (service = "running") \in BOOLEAN
        OBVIOUS
      <4>2. CASE Status(service = "running") = "pause"
        BY <2>1, <3>1, <4>2 DEF PollMonitor
      <4>3. CASE Status(service = "running") # "pause"
        BY <1>1, <2>1, <4>1, <4>3, StatusCases
      <4>4. QED
        BY <4>2, <4>3
  <2>2. QED
    BY <1>1, <2>1, Numbers DEF AgesInv, SnapshotAges, Believed
<1>2. QED
  BY <1>1, AgesHold, PTL DEF StartsAreConfirmed, Spec

-----------------------------------------------------------------------------
(* No pause without need *)

\* The time until a check ends that may still see settings that can be read from now on.
Rest ==
    IF phase = "waiting" THEN (Interval - timer) + Timeout
    ELSE IF phase = "answering" /\ sample = "error" THEN (Timeout - timer) + Interval + Timeout
    ELSE Timeout - timer

\* The time since the last check.
Since == IF phase = "waiting" THEN timer ELSE Interval + timer

\* A thread that is never late beside settings that stay off.
Prompt ==
    /\ ~enabled /\ adbd = "none" /\ sample # "on"
    /\ timer <= (IF phase = "waiting" THEN Interval ELSE Timeout)
    /\ snapshot # None => snapshot.age <= Since
    /\ service # "stopped" => snapshot # None
    /\ ~provider => readFor = 0

\* The last check was clear, and so is the one under way.
SeesClear ==
    /\ snapshot # None /\ snapshot.state = "Clear"
    /\ ~(phase = "answering" /\ sample = "error")

\* Settings that can be read are seen after CheckTime, and the last check that was clear
\* is no older than the time since then, but for a pause and a reading.
Seen ==
    /\ snapshot # None /\ snapshot.state = "Clear" => lastClear <= Since
    /\ provider => readFor + Rest <= CheckTime \/ SeesClear
    /\ lastClear # None => lastClear <= blind + Interval + Timeout
    /\ service # "stopped" /\ snapshot.state = "Paused" => blind + Interval + Timeout >= Grace

PromptInv == quiet => Prompt /\ Seen

LEMMA MoreNumbers ==
    ASSUME TypeOK
    PROVE  /\ readFor \in Nat /\ blind \in Nat /\ blind <= Longest /\ CheckTime = Interval + 2 * Timeout
           /\ Longest \in Nat /\ Longest > Grace
           /\ lastClear # None => lastClear \in Nat /\ lastClear <= Grace
           /\ snapshot # None => /\ snapshot.age \in Nat /\ snapshot.state \in States
                                 /\ snapshot.state # "Paused" => lastClear # None
BY ConstantsAssumption DEF TypeOK, CheckTime, Longest, Reaction, Snapshot

LEMMA PublishSeen ==
    ASSUME TypeOK, quiet, Prompt, Seen, phase # "waiting",
           NEW settings \in {"off", "error"}, Publish("none", settings),
           provider => (settings = "off" \/ (phase = "answering" /\ sample = "error")),
           UNCHANGED <<system, service, readFor, blind>>
    PROVE  PromptInv'
<1>1. /\ snapshot' \in Snapshot /\ snapshot'.age = 0 /\ snapshot' # None
      /\ phase' = "waiting" /\ timer' = 0 /\ sample' = "error"
  BY PublishTypes, ConstantsAssumption
<1>2. Prompt'
  BY <1>1, Numbers DEF Prompt, system, Since
<1>3. timer <= Timeout /\ timer \in Nat
  BY Numbers DEF Prompt
<1>4. CASE snapshot'.state = "Clear" /\ lastClear' = 0
  <2>1. SeesClear'
    BY <1>1, <1>4 DEF SeesClear
  <2>2. QED
    BY <1>1, <1>2, <1>4, <2>1, Numbers, MoreNumbers DEF PromptInv, Seen, Since
<1>5. ASSUME settings = "error" PROVE provider => readFor + ((Interval - 0) + Timeout) <= CheckTime
  <2>1. ASSUME provider PROVE readFor + ((Timeout - timer) + Interval + Timeout) <= CheckTime
    BY <1>5, <2>1 DEF Seen, Rest, SeesClear
  <2>2. QED
    BY <1>3, <2>1, Numbers, MoreNumbers
<1>6. ASSUME settings = "error" PROVE provider' => readFor' + Rest' <= CheckTime
  BY <1>1, <1>5, <1>6 DEF Rest, system
<1>7. CASE snapshot'.state = "Grace" /\ lastClear' = lastClear /\ settings = "error"
  BY <1>1, <1>2, <1>6, <1>7 DEF PromptInv, Seen
<1>8. CASE snapshot'.state = "Paused" /\ lastClear' = None /\ settings = "error"
  <2>1. ~Usable
    BY <1>8, VerdictCases DEF Publish, Verdict
  <2>2. service # "stopped" => blind + Interval + Timeout >= Grace
    <3>1. CASE lastClear # None
      BY <2>1, <3>1, Numbers, MoreNumbers DEF Usable, Seen
    <3>2. CASE lastClear = None
      <4>1. service # "stopped" => snapshot # None /\ snapshot.state = "Paused"
        BY <3>2, MoreNumbers DEF Prompt
      <4>2. QED
        BY <4>1 DEF Seen
    <3>3. QED
      BY <3>1, <3>2
  <2>3. QED
    BY <1>1, <1>2, <1>6, <1>8, <2>2 DEF PromptInv, Seen
<1>9. QED
  <2>1. settings = "off" => snapshot'.state = "Clear" /\ lastClear' = 0
    BY DEF Publish, Verdict
  <2>2. settings = "error" => \/ snapshot'.state = "Paused" /\ lastClear' = None
                              \/ snapshot'.state = "Grace" /\ lastClear' = lastClear
    BY DEF Publish, Verdict
  <2>3. QED
    BY <1>4, <1>7, <1>8, <2>1, <2>2

LEMMA ThreadSeen ==
    ASSUME TypeOK, quiet, Prompt, Seen, Check \/ Sample \/ Answer \/ Expire
    PROVE  PromptInv'
<1>1. timer \in Nat /\ timer <= (IF phase = "waiting" THEN Interval ELSE Timeout)
  BY Numbers DEF Prompt
<1>2. CASE Check
  <2>1. /\ phase = "waiting" /\ timer = Interval /\ phase' = "asking" /\ timer' = 0
        /\ sample' = "error" /\ UNCHANGED <<system, loop, history, snapshot, lastClear>>
    BY <1>1, <1>2, Numbers DEF Check, Prompt
  <2>2. Prompt'
    BY <2>1, Numbers, MoreNumbers DEF Prompt, Since, system, loop, history
  <2>3. provider' => readFor' + Rest' <= CheckTime \/ SeesClear'
    BY <2>1, Numbers, MoreNumbers DEF Seen, Rest, SeesClear, system, history
  <2>4. snapshot' # None /\ snapshot'.state = "Clear" => lastClear' <= Since'
    BY <2>1, Numbers, MoreNumbers DEF Seen, Since
  <2>5. QED
    BY <2>1, <2>2, <2>3, <2>4 DEF PromptInv, Seen, loop, history
<1>3. CASE Sample
  <2>1. /\ phase = "asking" /\ phase' = "answering" /\ timer' = timer /\ sample' \in {"off", "error"}
        /\ provider => sample' = "off"
        /\ UNCHANGED <<system, loop, history, snapshot, lastClear>>
    BY <1>3 DEF Sample, Prompt
  <2>2. Prompt'
    BY <2>1 DEF Prompt, Since, system, loop, history
  <2>3. provider' => readFor' + Rest' <= CheckTime \/ SeesClear'
    BY <2>1 DEF Seen, Rest, SeesClear, system, history
  <2>4. snapshot' # None /\ snapshot'.state = "Clear" => lastClear' <= Since'
    BY <2>1 DEF Seen, Since
  <2>5. QED
    BY <2>1, <2>2, <2>3, <2>4 DEF PromptInv, Seen, loop, history
<1>4. CASE Answer
  <2>1. /\ phase = "answering" /\ Publish("none", sample) /\ sample \in {"off", "error"}
        /\ UNCHANGED <<system, service, readFor, blind>>
    BY <1>4 DEF Answer, Prompt, TypeOK, loop, history
  <2>2. CASE sample = "off"
    BY <2>1, <2>2, PublishSeen
  <2>3. CASE sample = "error"
    BY <2>1, <2>3, PublishSeen
  <2>4. QED
    BY <2>1, <2>2, <2>3
<1>5. CASE Expire
  <2>1. /\ phase # "waiting" /\ Publish("none", "error") /\ ~provider
        /\ UNCHANGED <<system, service, readFor, blind>>
    BY <1>5 DEF Expire, loop
  <2>2. QED
    BY <2>1, PublishSeen
<1>6. QED
  BY <1>2, <1>3, <1>4, <1>5

LEMMA TickSeen ==
    ASSUME TypeOK, quiet, Prompt, Seen, Tick
    PROVE  PromptInv'
<1>1. timer \in Nat /\ {Interval, Timeout, Late} \subseteq Nat /\ Timeout # 0
  BY Numbers
<1>2. IF phase = "waiting" THEN timer < Interval ELSE timer < Timeout
  BY <1>1, Numbers DEF Tick, Due
<1>3. timer' = timer + 1 /\ phase' = phase /\ sample' = sample
  BY <1>1, <1>2, Numbers DEF Tick
<1>4. /\ Since' = Since + 1 /\ Since' \in Nat /\ Since' <= Interval + Timeout
      /\ Rest' = Rest - 1 /\ Rest \in Nat /\ Rest >= 1
  BY <1>1, <1>2, <1>3 DEF Since, Rest
<1>5. /\ UNCHANGED <<system, service>>
      /\ snapshot = None => snapshot' = None
      /\ snapshot # None => /\ snapshot' # None /\ snapshot'.state = snapshot.state
                            /\ snapshot'.age <= snapshot.age + 1
  <2>1. CASE snapshot = None
    BY <2>1 DEF Tick
  <2>2. CASE snapshot # None
    <3>1. snapshot' = [snapshot EXCEPT !.age = Older(snapshot.age, Stale + 1)] /\ snapshot \in Snapshot
      BY <2>2 DEF Tick, TypeOK
    <3>2. /\ snapshot' \in Snapshot /\ snapshot'.state = snapshot.state
          /\ snapshot'.age <= snapshot.age + 1
      BY <3>1, ConstantsAssumption DEF Snapshot
    <3>3. QED
      BY <2>2, <3>2, ConstantsAssumption DEF Tick
  <2>3. QED
    BY <2>1, <2>2 DEF Tick
<1>6. Prompt'
  <2>1. snapshot' # None => snapshot'.age <= Since'
    <3>1. ASSUME snapshot' # None PROVE snapshot'.age <= Since'
      <4>1. snapshot # None /\ snapshot.age <= Since /\ snapshot'.age <= snapshot.age + 1
        BY <1>5, <3>1 DEF Prompt
      <4>2. Since \in Nat /\ snapshot.age \in Nat /\ snapshot'.age \in Int
        BY <1>1, <4>1, MoreNumbers, ConstantsAssumption DEF Since, Tick, TypeOK, Snapshot
      <4>3. QED
        BY <1>4, <4>1, <4>2
    <3>2. QED
      BY <3>1
  <2>2. QED
    <3>1. timer' <= (IF phase' = "waiting" THEN Interval ELSE Timeout)
      BY <1>1, <1>2, <1>3
    <3>2. ~provider' => readFor' = 0
      BY <1>5 DEF Tick, system
    <3>3. QED
      BY <1>3, <1>5, <2>1, <3>1, <3>2 DEF Prompt, system
<1>7. /\ lastClear = None => lastClear' = None
      /\ lastClear # None => lastClear' # None /\ lastClear' \in Nat /\ lastClear' <= lastClear + 1
                             /\ lastClear' <= Grace
  BY Numbers, MoreNumbers, ConstantsAssumption DEF Tick
<1>8. (~provider /\ readFor' = 0) \/ (provider /\ readFor' \in Nat /\ readFor' <= readFor + 1)
  BY MoreNumbers, Numbers DEF Tick
<1>9. snapshot' # None /\ snapshot'.state = "Clear" => lastClear' <= Since'
  <2>1. ASSUME snapshot # None, snapshot.state = "Clear" PROVE lastClear' <= Since'
    <3>1. lastClear # None /\ lastClear <= Since /\ lastClear \in Nat
      BY <2>1, MoreNumbers DEF Seen
    <3>2. lastClear' \in Nat /\ lastClear' <= lastClear + 1
      BY <1>7, <3>1
    <3>3. Since \in Nat
      BY <1>1, Numbers DEF Since
    <3>4. QED
      BY <1>4, <3>1, <3>2, <3>3
  <2>2. QED
    BY <1>5, <2>1
<1>10. provider' => readFor' + Rest' <= CheckTime \/ SeesClear'
  <2>1. ASSUME provider, readFor + Rest <= CheckTime PROVE readFor' + Rest' <= CheckTime
    BY <1>4, <1>8, <2>1, MoreNumbers, Numbers
  <2>2. SeesClear => SeesClear'
    BY <1>3, <1>5 DEF SeesClear
  <2>3. QED
    BY <1>5, <2>1, <2>2 DEF Seen, system
<1>11. readFor' > CheckTime => SeesClear'
  <2>1. ASSUME readFor' > CheckTime PROVE provider
    BY <2>1, MoreNumbers, Numbers DEF Tick
  <2>2. ASSUME readFor' > CheckTime, readFor' + Rest' <= CheckTime PROVE FALSE
    BY <1>4, <1>8, <2>1, <2>2, MoreNumbers, Numbers
  <2>3. QED
    BY <1>5, <1>10, <2>1, <2>2 DEF system
<1>12. \/ readFor' > CheckTime /\ blind' = 0
       \/ blind' = Older(blind, Longest)
  BY DEF Tick
<1>13. lastClear' # None => lastClear' <= blind' + Interval + Timeout
  <2>1. CASE readFor' > CheckTime /\ blind' = 0
    BY <1>4, <1>9, <1>11, <1>7, <2>1, Numbers DEF SeesClear
  <2>2. CASE blind' = Older(blind, Longest)
    BY <1>1, <1>7, <2>2, Numbers, MoreNumbers DEF Seen
  <2>3. QED
    BY <1>12, <2>1, <2>2
<1>14. service' # "stopped" /\ snapshot'.state = "Paused" => blind' + Interval + Timeout >= Grace
  <2>1. CASE readFor' > CheckTime
    BY <1>11, <2>1 DEF SeesClear
  <2>2. CASE blind' = Older(blind, Longest)
    <3>1. service # "stopped" => snapshot # None
      BY DEF Prompt
    <3>2. service' # "stopped" /\ snapshot'.state = "Paused" => blind + Interval + Timeout >= Grace
      BY <1>5, <3>1 DEF Seen
    <3>3. QED
      BY <1>1, <2>2, <3>2, Numbers, MoreNumbers
  <2>3. QED
    BY <1>12, <2>1, <2>2
<1>15. QED
  BY <1>6, <1>9, <1>10, <1>13, <1>14 DEF PromptInv, Seen

LEMMA LoopSeen ==
    ASSUME TypeOK, quiet, Prompt, Seen, Change \/ PollMonitor \/ Ready \/ Rotate \/ Fail
    PROVE  PromptInv'
<1>1. CASE Change
  <2>1. /\ UNCHANGED <<enabled, adbd, phase, timer, sample, lastClear, snapshot, service, blind>>
        /\ provider' = ~provider
        /\ provider' => readFor' = readFor
        /\ ~provider' => readFor' = 0
    BY <1>1 DEF Change, thread, loop
  <2>2. Prompt'
    BY <2>1 DEF Prompt, Since
  <2>3. ASSUME provider' PROVE readFor' + Rest' <= CheckTime
    <3>1. readFor' = 0 /\ Rest' = Rest
      BY <2>1, <2>3 DEF Prompt, Rest
    <3>2. timer \in Nat /\ timer <= (IF phase = "waiting" THEN Interval ELSE Timeout)
      BY Numbers DEF Prompt
    <3>3. Rest \in Nat /\ Rest <= Interval + 2 * Timeout
      BY <3>2, Numbers DEF Rest
    <3>4. QED
      BY <3>1, <3>3, MoreNumbers
  <2>4. QED
    BY <2>1, <2>2, <2>3 DEF PromptInv, Seen, Since
<1>2. ASSUME UNCHANGED <<system, thread, snapshot, history>>,
             service' # "stopped" => \/ service # "stopped"
                                     \/ snapshot # None /\ snapshot.state # "Paused"
      PROVE  PromptInv'
  <2>1. /\ Since' = Since /\ Rest' = Rest /\ SeesClear' = SeesClear
        /\ UNCHANGED <<snapshot, lastClear, blind, readFor, provider>>
    BY <1>2 DEF Since, Rest, SeesClear, system, thread, history
  <2>2. service' # "stopped" => snapshot # None
    BY <1>2 DEF Prompt
  <2>3. Prompt'
    BY <1>2, <2>1, <2>2 DEF Prompt, system, thread
  <2>4. service' # "stopped" /\ snapshot'.state = "Paused" => blind' + Interval + Timeout >= Grace
    BY <1>2, <2>1 DEF Seen
  <2>5. QED
    BY <2>1, <2>3, <2>4 DEF PromptInv, Seen
<1>3. CASE PollMonitor
  <2>1. service' # "stopped" => service # "stopped" \/ Status(service = "running") = "clear"
    BY <1>3, StatusCases DEF PollMonitor
  <2>2. Status(service = "running") = "clear" => snapshot # None /\ snapshot.state # "Paused"
    BY DEF Status
  <2>3. QED
    BY <1>2, <1>3, <2>1, <2>2 DEF PollMonitor
<1>4. CASE Ready
  BY <1>2, <1>4 DEF Ready
<1>5. CASE Rotate
  BY <1>2, <1>5 DEF Rotate
<1>6. CASE Fail
  BY <1>2, <1>6 DEF Fail
<1>7. QED
  BY <1>1, <1>3, <1>4, <1>5, <1>6

LEMMA PromptStep ==
    ASSUME TypeOK, PromptInv, [Next]_vars
    PROVE  PromptInv'
<1>1. CASE UNCHANGED vars
  BY <1>1 DEF PromptInv, Prompt, Seen, SeesClear, Rest, Since, vars, system, thread, loop, history
<1>2. CASE Next
  <2>1. quiet' = quiet
    BY <1>2 DEF Next, Change, Tick, Check, Sample, Answer, Expire, PollMonitor, Ready, Rotate,
                Fail, system
  <2>2. CASE quiet
    BY <1>2, <2>2, ThreadSeen, TickSeen, LoopSeen DEF Next, PromptInv
  <2>3. CASE ~quiet
    BY <2>1, <2>3 DEF PromptInv
  <2>4. QED
    BY <2>2, <2>3
<1>3. QED
  BY <1>1, <1>2

\* With a thread that is never late a running service is not taken down for a
\* snapshot that is too old, nor for settings that could be read for longer than
\* CheckTime in the last Grace, but for a pause and a reading (NativeMonitor::status,
\* native_state): if a snapshot is believed for as long as a pause and a reading last.
THEOREM PausesAreNeeded ==
    ASSUME Interval + Timeout <= Stale
    PROVE  Spec => NoNeedlessPause
<1>1. Init => PromptInv
  <2>1. ASSUME Init, quiet PROVE Prompt
    BY <2>1, ConstantsAssumption DEF Init, Prompt
  <2>2. ASSUME Init, quiet PROVE Seen
    <3>1. Rest = (Interval - Interval) + Timeout /\ readFor = 0
      BY <2>2 DEF Init, Rest
    <3>2. readFor + Rest <= CheckTime
      BY <3>1, ConstantsAssumption DEF CheckTime
    <3>3. QED
      BY <2>2, <3>2 DEF Init, Seen
  <2>3. QED
    BY <2>1, <2>2 DEF PromptInv
<1>2. ASSUME TypeOK, PromptInv, quiet, service = "running", Status(TRUE) = "pause"
      PROVE  blind + Interval + Timeout >= Grace
  <2>1. Prompt /\ Seen /\ snapshot # None
    BY <1>2 DEF PromptInv, Prompt
  <2>2. Since \in Nat /\ Since <= Interval + Timeout
    BY <1>2, <2>1, Numbers DEF Since, Prompt
  <2>3. snapshot.age \in Nat /\ snapshot.age <= Since
    BY <1>2, <2>1, MoreNumbers DEF Prompt
  <2>4. snapshot.age <= Stale
    BY <1>2, <2>2, <2>3, Numbers
  <2>5. ~(snapshot.age > Stale)
    BY <1>2, <2>3, <2>4, Numbers
  <2>6. snapshot.state = "Paused"
    BY <1>2, <2>1, <2>5, MoreNumbers DEF Status, States
  <2>7. QED
    BY <1>2, <2>1, <2>6 DEF Seen
<1>3. ASSUME TypeOK, PromptInv
      PROVE  quiet /\ service = "running" /\ Status(TRUE) = "pause" =>
                blind + Interval + Timeout >= Grace
  BY <1>2, <1>3
<1>4. QED
  BY <1>1, <1>3, TypesHold, PromptStep, PTL DEF Spec, NoNeedlessPause
=============================================================================
