--------------------------- MODULE ServicesProofs ---------------------------
(***************************************************************************)
(* What the service processes keep, for any commands, sizes of pipes and   *)
(* sockets, addresses and limits.                                          *)
(***************************************************************************)
EXTENDS ServiceKinds, SequenceTheorems, TLAPS

-----------------------------------------------------------------------------
(* Types *)

\* The part of the supervisor that the three kinds share.
SupervisorStep ==
    \/ DropSocket \/ CloseService(Solo) \/ CloseDue(Solo)
    \/ (\E p \in Proc : Reap(p)) \/ Disconnect

\* Stopping a service leaves a service.
LEMMA StoppedTypes ==
    ASSUME NEW s \in Service
    PROVE  /\ Stopped(s) \in Service
           /\ Stopped(s).up = s.up /\ Stopped(s).listed = s.listed
           /\ Stopped(s).open => s.open
BY DEF Stopped, Service

LEMMA SupervisorStepTypes ==
    ASSUME ServiceTypes, SupervisorStep
    PROVE  ServiceTypes'
<1>1. CASE DropSocket
  BY <1>1, SoloAssumption DEF DropSocket, Set, ServiceTypes, Service
<1>2. CASE CloseService(Solo)
  BY <1>2, SoloAssumption DEF CloseService, Set, ServiceTypes, Service
<1>3. CASE CloseDue(Solo)
  BY <1>3, SoloAssumption, StoppedTypes DEF CloseDue, Set, ServiceTypes
<1>4. CASE \E p \in Proc : Reap(p)
  BY <1>4 DEF Reap, Set, Absent, ServiceTypes, Service
<1>5. CASE Disconnect
  BY <1>5, StoppedTypes DEF Disconnect, ServiceTypes
<1>6. QED
  BY <1>1, <1>2, <1>3, <1>4, <1>5 DEF SupervisorStep

LEMMA InitTypes == Init => TypeOK
<1>1. Started \in Service /\ Absent \in Service
  BY DEF Started, Absent, Service
<1>2. ASSUME NEW k \in {"shell", "sync", "reverse"}, NEW s \in Service, ServicesInit(k, s)
      PROVE  ServiceTypes
  BY <1>1, <1>2 DEF ServicesInit, ServiceTypes
<1>3. ASSUME ShellInit
      PROVE  ShellTypes
  <2>1. at \in [Thread -> Places]
    BY <1>3 DEF ShellInit, Places
  <2>2. wire \in [by : Writer \cup {"none"}, part : 1..3, unread : 0..SocketSize, shut : BOOLEAN]
    BY <1>3, SizesAssumption DEF ShellInit
  <2>3. pipe \in [Channel -> 0..PipeSize]
    BY <1>3, SizesAssumption DEF ShellInit
  <2>4. QED
    BY <1>3, <2>1, <2>2, <2>3 DEF ShellInit, ShellTypes
<1>4. PushInit => PushTypes
  BY InboxAssumption DEF PushInit, PushTypes, Stages, Temps, Files, Frames
<1>5. ASSUME ReverseInit
      PROVE  ReverseTypes
  <2>1. command \in Command
    BY <1>5 DEF ReverseInit, Command, Resting
  <2>2. binder \in [Proc -> Binder]
    BY <1>5 DEF ReverseInit, Binder, Unbound
  <2>3. calls \in Seq(Call)
    BY <1>5 DEF ReverseInit
  <2>4. QED
    BY <1>5, <2>1, <2>2, <2>3 DEF ReverseInit, ReverseTypes
<1>6. QED
  BY <1>1, <1>2, <1>3, <1>4, <1>5 DEF Init, Run, TypeOK

-----------------------------------------------------------------------------
(* Types of a shell *)

\* What is killed of the group, and what the end of the process leaves.
LEMMA KillTypes ==
    ASSUME ShellTypes, NEW S
    PROVE  /\ Kill(S) \in [Member -> {"none", "running", "zombie", "gone"}]
           /\ \A m \in Member : Kill(S)[m] = group[m] \/ (Runs(m) /\ Kill(S)[m] # "running")
BY DEF Kill, ShellTypes, Runs

LEMMA QuitTypes ==
    ASSUME ServiceTypes, ShellTypes, NEW place \in Places, Quit(place),
           group' \in [Member -> {"none", "running", "zombie", "gone"}]
    PROVE  ServiceTypes' /\ ShellTypes'
<1>1. ServiceTypes'
  BY SoloAssumption DEF Quit, Exit, Set, ServiceTypes, Service
<1>2. at' \in [Thread -> Places]
  BY DEF Quit, Places
<1>3. pipe' \in [Channel -> 0..PipeSize]
  BY SizesAssumption DEF Quit
<1>4. QED
  BY <1>1, <1>2, <1>3 DEF Quit, ShellTypes

LEMMA MainTypes ==
    ASSUME ServiceTypes, ShellTypes, Main \/ Terminate
    PROVE  ServiceTypes' /\ ShellTypes'
<1>1. CASE SpawnShell
  BY <1>1 DEF SpawnShell, Go, serviceVars, ServiceTypes, ShellTypes, Member, Places
<1>2. CASE StartThreads
  <2>1. at' \in [Thread -> Places]
    BY <1>2 DEF StartThreads, Places
  <2>2. QED
    BY <1>2, <2>1 DEF StartThreads, serviceVars, ServiceTypes, ShellTypes
<1>3. CASE WaitChild
  BY <1>3 DEF WaitChild, Go, serviceVars, ServiceTypes, ShellTypes, Member, Places
<1>4. CASE JoinReaders
  BY <1>4 DEF JoinReaders, Go, serviceVars, ServiceTypes, ShellTypes, Places
<1>5. CASE Shutdown
  BY <1>5 DEF Shutdown, Go, serviceVars, ServiceTypes, ShellTypes, Places
<1>6. CASE Finish
  BY <1>6, KillTypes, QuitTypes DEF Finish, Places
<1>7. CASE Terminate
  BY <1>7, KillTypes, QuitTypes DEF Terminate, Places
<1>8. QED
  BY <1>1, <1>2, <1>3, <1>4, <1>5, <1>6, <1>7 DEF Main

LEMMA WriterTypes ==
    ASSUME ServiceTypes, ShellTypes, NEW t \in Writer,
           Writes(t) \/ (t \in Channel /\ (ReadPipe(t) \/ MemberWrites(t)))
    PROVE  ServiceTypes' /\ ShellTypes'
<1> USE DEF serviceVars
<1>1. t \in Thread /\ After(t) \in Places
  BY DEF Writer, Thread, After, Places
<1>2. CASE Lock(t)
  BY <1>1, <1>2 DEF Lock, Go, ServiceTypes, ShellTypes, Places
<1>3. CASE WritePart(t)
  <2>1. wire' \in [by : Writer \cup {"none"}, part : 1..3, unread : 0..SocketSize, shut : BOOLEAN]
    <3>1. wire.unread + 1 \in 0..SocketSize
      BY <1>3, SizesAssumption DEF WritePart, ShellTypes
    <3>2. wire' = [by |-> t, part |-> part, unread |-> wire.unread + 1, shut |-> wire.shut]
      BY <1>3 DEF WritePart, ShellTypes
    <3>3. QED
      BY <3>1, <3>2 DEF ShellTypes
  <2>2. part' \in 1..3 /\ lock' \in Writer \cup {"none"} /\ at' \in [Thread -> Places]
    BY <1>1, <1>3 DEF WritePart, Go, ShellTypes, Places
  <2>3. QED
    BY <1>3, <2>1, <2>2 DEF WritePart, ServiceTypes, ShellTypes
<1>4. CASE WriteFails(t)
  <2>1. CASE t = "main"
    BY <1>4, <2>1, QuitTypes DEF WriteFails, ShellTypes, Places
  <2>2. CASE t # "main"
    BY <1>1, <1>4, <2>2 DEF WriteFails, Go, ServiceTypes, ShellTypes, Places
  <2>3. QED
    BY <2>1, <2>2
<1>5. CASE t \in Channel /\ ReadPipe(t)
  BY <1>1, <1>5, SizesAssumption DEF ReadPipe, Go, ServiceTypes, ShellTypes, Places
<1>6. CASE t \in Channel /\ MemberWrites(t)
  BY <1>6, SizesAssumption DEF MemberWrites, ServiceTypes, ShellTypes
<1>7. QED
  BY <1>2, <1>3, <1>4, <1>5, <1>6 DEF Writes

LEMMA InputTypes ==
    ASSUME ServiceTypes, ShellTypes,
           (\E f \in {"data", "end", "size", "bad"} : ReadFrame(f)) \/ ReadEnd \/ WriteStdin
    PROVE  ServiceTypes' /\ ShellTypes'
<1> USE DEF serviceVars
<1>1. group' \in [Member -> {"none", "running", "zombie", "gone"}]
  BY KillTypes DEF ReadFrame, ReadEnd, WriteStdin, HangUp, ShellTypes
<1>2. at' \in [Thread -> Places]
  BY DEF ReadFrame, ReadEnd, WriteStdin, Go, ShellTypes, Places
<1>3. QED
  BY <1>1, <1>2 DEF ReadFrame, ReadEnd, WriteStdin, ServiceTypes, ShellTypes

LEMMA OutsideTypes ==
    ASSUME ServiceTypes, ShellTypes,
           Fork \/ (\E m \in Member : MemberExits(m)) \/ ConnectionReads \/ ConnectionEnds
    PROVE  ServiceTypes' /\ ShellTypes'
<1>1. CASE Fork
  BY <1>1 DEF Fork, serviceVars, ServiceTypes, ShellTypes, Member
<1>2. CASE \E m \in Member : MemberExits(m)
  BY <1>2, KillTypes DEF MemberExits, serviceVars, ServiceTypes, ShellTypes
<1>3. CASE ConnectionReads
  <2>1. wire' \in [by : Writer \cup {"none"}, part : 1..3, unread : 0..SocketSize, shut : BOOLEAN]
    BY <1>3, SizesAssumption DEF ConnectionReads, ShellTypes
  <2>2. QED
    BY <1>3, <2>1 DEF ConnectionReads, serviceVars, ServiceTypes, ShellTypes
<1>4. CASE ConnectionEnds
  BY <1>4, SupervisorStepTypes DEF ConnectionEnds, SupervisorStep, shellVars, ShellTypes
<1>5. QED
  BY <1>1, <1>2, <1>3, <1>4

-----------------------------------------------------------------------------
(* Types of a file transfer and of the listeners *)

LEMMA PushStepTypes ==
    ASSUME ServiceTypes, PushTypes, PushNext
    PROVE  ServiceTypes' /\ PushTypes'
<1> USE DEF Stages, Temps, Files, Running, Stays
<1>1. ASSUME NEW f \in Frames, Reads(f)
      PROVE  inbox' \in Seq(Frames) /\ Len(inbox') <= InboxSize
  BY <1>1, InboxAssumption DEF Reads, PushTypes
<1>2. ASSUME Exit(Solo), UNCHANGED <<kind, registered>>
      PROVE  ServiceTypes'
  BY <1>2, SoloAssumption DEF Exit, Set, ServiceTypes, Service
<1>3. \A f \in Files : Older(f) \in Files
  BY DEF Older
<1>4. CASE Request
  <2>1. PICK f \in {"SEND", "LINK"} : Reads(f) /\ stage' = IF f = "SEND" THEN "create" ELSE "link"
    BY <1>4 DEF Request
  <2>2. QED
    BY <1>1, <1>3, <1>4, <2>1 DEF Request, Frames, ServiceTypes, PushTypes
<1>5. CASE Inquire
  BY <1>1, <1>5 DEF Inquire, Frames, ServiceTypes, PushTypes
<1>6. CASE Leaves
  BY <1>1, <1>2, <1>6 DEF Leaves, Ends, ReadsEnd, Frames, PushTypes
<1>7. CASE Reject
  <2>1. PICK f \in {"DATA", "DONE"} : Reads(f)
    BY <1>7 DEF Reject
  <2>2. QED
    BY <1>1, <1>7, <2>1 DEF Reject, Frames, ServiceTypes, PushTypes
<1>8. CASE Create \/ Permissions \/ Sync \/ Times
  BY <1>8, ZenonT(60) DEF Create, Permissions, Sync, Times, Step, ServiceTypes, PushTypes
<1>9. CASE Data \/ Done \/ LinkData \/ LinkDone
  BY <1>1, <1>9, ZenonT(60) DEF Data, Done, LinkData, LinkDone, Step, Frames, ServiceTypes, PushTypes
<1>10. CASE Abort
  <2>1. inbox' \in Seq(Frames) /\ Len(inbox') <= InboxSize
    BY <1>1, <1>10 DEF Abort, ReadsEnd, Frames, PushTypes
  <2>2. QED
    BY <1>10, <2>1 DEF Abort, ServiceTypes, PushTypes
<1>11. CASE Rename
  BY <1>11 DEF Rename, ServiceTypes, PushTypes
<1>12. CASE Okay
  BY <1>12 DEF Okay, ServiceTypes, PushTypes
<1>13. CASE Fail
  BY <1>2, <1>13 DEF Fail, Ends, PushTypes
<1>14. CASE Killed
  BY <1>2, <1>14 DEF Killed, pushVars, PushTypes
<1>15. CASE WriteBack
  BY <1>15 DEF WriteBack, serviceVars, ServiceTypes, PushTypes
<1>16. CASE \E f \in Frames : Deliver(f)
  BY <1>16, InboxAssumption DEF Deliver, serviceVars, ServiceTypes, PushTypes
<1>17. CASE SupervisorStep /\ UNCHANGED pushVars
  BY <1>17, SupervisorStepTypes DEF pushVars, PushTypes
<1>18. QED
  BY <1>4, <1>5, <1>6, <1>7, <1>8, <1>9, <1>10, <1>11, <1>12, <1>13, <1>14, <1>15,
     <1>16, <1>17, SoloAssumption DEF PushNext, Transfer, SupervisorStep

LEMMA AnswerTypes ==
    ASSUME ReverseTypes, calls # <<>>, NEW ok \in BOOLEAN, NEW a, ok => a \in Address,
           Answer(ok, a)
    PROVE  table' \in SUBSET Address /\ command' \in Command /\ calls' \in Seq(Call)
<1>1. calls' \in Seq(Call)
  BY DEF Answer, ReverseTypes
<1>2. table' \in SUBSET Address
  BY DEF Answer, ReverseTypes
<1>3. command' \in Command
  BY DEF Answer, ReverseTypes, Command, Resting
<1>4. QED
  BY <1>1, <1>2, <1>3

LEMMA LateTypes ==
    ASSUME ReverseTypes
    PROVE  Late \in Seq(Call) /\ Len(Late) = Len(calls)
<1>1. ASSUME NEW i \in 1..Len(calls)
      PROVE  [calls[i] EXCEPT !.late = TRUE] \in Call
  <2>1. calls[i] \in Call
    BY DEF ReverseTypes
  <2>2. QED
    BY <2>1 DEF Call
<1>2. Late = [i \in 1..Len(calls) |-> [calls[i] EXCEPT !.late = TRUE]]
  BY DEF Late, ReverseTypes
<1>3. QED
  BY <1>1, <1>2 DEF ReverseTypes

LEMMA CommandTypes ==
    ASSUME ServiceTypes, ReverseTypes,
           \/ \E a \in Address \cup {Any} : Forward(a)
           \/ \E S \in {{a} : a \in table} \cup {table} : KillForward(S)
           \/ Proceed \/ GiveUp \/ Leave
    PROVE  ServiceTypes' /\ ReverseTypes'
<1> USE DEF serviceVars, Command, Resting
<1>1. CASE \E a \in Address \cup {Any} : Forward(a)
  BY <1>1 DEF Forward, ServiceTypes, ReverseTypes
<1>2. CASE \E S \in {{a} : a \in table} \cup {table} : KillForward(S)
  BY <1>2 DEF KillForward, ServiceTypes, ReverseTypes
<1>3. CASE Proceed
  <2>1. ASSUME NEW type \in {"BindReverse", "CloseReverse"}, NEW a \in Address \cup {Any},
               Ask(type, a)
        PROVE  calls' \in Seq(Call) /\ calls' # <<>>
    BY <2>1 DEF Ask, Call, ReverseTypes
  <2>2. CASE command.rest = {}
    BY <1>3, <2>1, <2>2 DEF Proceed, ServiceTypes, ReverseTypes
  <2>3. ASSUME NEW a \in command.rest, table' = table \ {a}, Ask("CloseReverse", a),
               command' = [command EXCEPT !.call = "close", !.rest = @ \ {a}]
        PROVE  /\ table' \in SUBSET Address /\ command' \in Command
               /\ calls' \in Seq(Call) /\ calls' # <<>>
    <3>1. a \in Address
      BY DEF ReverseTypes
    <3>2. calls' \in Seq(Call) /\ calls' # <<>>
      BY <2>1, <2>3, <3>1
    <3>3. QED
      BY <2>3, <3>2 DEF ReverseTypes
  <2>4. QED
    BY <1>3, <2>2, <2>3 DEF Proceed, ServiceTypes, ReverseTypes
<1>4. CASE GiveUp
  BY <1>4, LateTypes DEF GiveUp, ServiceTypes, ReverseTypes
<1>5. CASE Leave
  BY <1>5, LateTypes DEF Leave, ServiceTypes, ReverseTypes
<1>6. QED
  BY <1>1, <1>2, <1>3, <1>4, <1>5

LEMMA BinderTypes ==
    ASSUME ServiceTypes, ReverseTypes,
           \/ CloseReverse \/ BindReverse \/ BinderAnswers \/ BindTimeout
           \/ \E p \in Proc : BinderStarts(p) \/ BinderEnds(p) \/ BinderKilled(p)
    PROVE  ServiceTypes' /\ ReverseTypes'
<1>1. ASSUME NEW p \in Proc, NEW s \in Service, Set(p, s), UNCHANGED <<kind, registered>>
      PROVE  ServiceTypes'
  BY <1>1 DEF Set, ServiceTypes
<1>2. ASSUME NEW p \in Proc
      PROVE  /\ svc[p] \in Service /\ Started \in Service
             /\ [svc[p] EXCEPT !.binder = TRUE] \in Service
             /\ [Stopped(svc[p]) EXCEPT !.open = FALSE] \in Service
             /\ [svc[p] EXCEPT !.up = FALSE] \in Service
             /\ Unbound \in Binder /\ binder[p] \in Binder
  <2>1. svc[p] \in Service /\ Stopped(svc[p]) \in Service /\ binder[p] \in Binder
    BY StoppedTypes DEF ServiceTypes, ReverseTypes
  <2>2. QED
    BY <2>1, ZenonT(60) DEF Service, Started, Absent, Unbound, Binder
<1>3. ASSUME NEW p \in Proc, BinderIsGone(p), files' \in SUBSET Paths
      PROVE  ServiceTypes' /\ ReverseTypes'
  BY <1>1, <1>2, <1>3 DEF BinderIsGone, Exit, ReverseTypes
<1>4. CASE CloseReverse
  <2>1. ServiceTypes'
    BY <1>4, StoppedTypes DEF CloseReverse, ServiceTypes
  <2>2. QED
    BY <1>4, <2>1, AnswerTypes DEF CloseReverse, Serves, ReverseTypes
<1>5. CASE BindReverse
  <2>1. CASE Answer(FALSE, None) /\ UNCHANGED <<svc, awaited, binder>>
    BY <1>5, <2>1, AnswerTypes DEF BindReverse, Serves, ServiceTypes, ReverseTypes
  <2>2. ASSUME NEW p \in Proc, Set(p, Started), awaited' = p,
               binder' = [binder EXCEPT ![p] = [Unbound EXCEPT !.address = Head(calls).address]], svc[p] = Absent,
               UNCHANGED <<table, command, calls>>
        PROVE  ServiceTypes' /\ ReverseTypes'
    <3>1. ServiceTypes'
      BY <1>1, <1>2, <1>5, <2>2 DEF BindReverse
    <3>2. Head(calls) \in Call
      BY <1>5 DEF BindReverse, Serves, ReverseTypes
    <3>3. [Unbound EXCEPT !.address = Head(calls).address] \in Binder
      BY <3>2 DEF Call, Binder, Unbound
    <3>4. QED
      BY <1>5, <2>2, <3>1, <3>3 DEF BindReverse, Serves, ReverseTypes
  <2>3. QED
    BY <1>5, <2>1, <2>2 DEF BindReverse
<1>6. CASE BinderAnswers
  <2>1. PICK p \in Proc : awaited = p
                         /\ \/ /\ binder[p].listens
                               /\ Set(p, [svc[p] EXCEPT !.binder = TRUE])
                               /\ Answer(TRUE, binder[p].address)
                            \/ /\ Set(p, Stopped(svc[p]))
                               /\ Answer(FALSE, None)
    BY <1>6 DEF BinderAnswers
  <2>2. ServiceTypes'
    <3>1. svc[p] \in Service /\ Stopped(svc[p]) \in Service
      BY <1>2, StoppedTypes
    <3>2. QED
      BY <1>1, <1>2, <1>6, <2>1, <3>1 DEF BinderAnswers
  <2>3. calls # <<>> /\ (binder[p].listens => binder[p].address \in Address)
    BY <1>2, <2>1, AddressAssumption DEF ReverseTypes, Binder
  <2>4. table' \in SUBSET Address /\ command' \in Command /\ calls' \in Seq(Call)
    BY <2>1, <2>3, AnswerTypes
  <2>5. QED
    BY <1>6, <2>2, <2>4 DEF BinderAnswers, ReverseTypes
<1>7. CASE BindTimeout
  <2>1. PICK p \in Proc : awaited = p /\ Set(p, [Stopped(svc[p]) EXCEPT !.open = FALSE])
    BY <1>7 DEF BindTimeout
  <2>2. ServiceTypes'
    BY <1>1, <1>2, <1>7, <2>1 DEF BindTimeout
  <2>3. calls # <<>>
    BY <2>1, AddressAssumption DEF ReverseTypes
  <2>4. table' \in SUBSET Address /\ command' \in Command /\ calls' \in Seq(Call)
    BY <1>7, <2>3, AnswerTypes DEF BindTimeout
  <2>5. QED
    BY <1>7, <2>2, <2>4 DEF BindTimeout, ReverseTypes
<1>8. ASSUME NEW p \in Proc, BinderStarts(p)
      PROVE  ServiceTypes' /\ ReverseTypes'
  <2>1. ServiceTypes'
    BY <1>1, <1>2, <1>8 DEF BinderStarts, Exit, ServiceTypes
  <2>2. files' \in SUBSET Paths
    BY <1>8 DEF BinderStarts, ReverseTypes
  <2>3. binder' \in [Proc -> Binder]
    <3>1. ASSUME NEW b \in Address
          PROVE  [address |-> b, listens |-> TRUE] \in Binder
      BY DEF Binder
    <3>2. \/ \E b \in Address : binder' = [binder EXCEPT ![p] = [address |-> b, listens |-> TRUE]]
          \/ binder' = [binder EXCEPT ![p] = Unbound]
      BY <1>8 DEF BinderStarts
    <3>3. QED
      BY <1>2, <3>1, <3>2 DEF ReverseTypes
  <2>4. QED
    BY <1>8, <2>1, <2>2, <2>3 DEF BinderStarts, ReverseTypes
<1>9. QED
  BY <1>3, <1>4, <1>5, <1>6, <1>7, <1>8 DEF BinderEnds, BinderKilled, ReverseTypes

LEMMA ShellStepTypes ==
    ASSUME ServiceTypes, ShellTypes, ShellNext
    PROVE  ServiceTypes' /\ ShellTypes'
<1>1. CASE SupervisorStep /\ UNCHANGED shellVars
  BY <1>1, SupervisorStepTypes DEF shellVars, ShellTypes
<1>2. QED
  BY <1>1, MainTypes, WriterTypes, InputTypes, OutsideTypes, SoloAssumption
     DEF ShellNext, SupervisorStep, Writer

LEMMA ReverseStepTypes ==
    ASSUME ServiceTypes, ReverseTypes, ReverseNext
    PROVE  ServiceTypes' /\ ReverseTypes'
<1>1. CASE SupervisorStep /\ UNCHANGED reverseVars
  BY <1>1, SupervisorStepTypes DEF reverseVars, ReverseTypes
<1>2. QED
  BY <1>1, CommandTypes, BinderTypes DEF ReverseNext, SupervisorStep

LEMMA StepTypes == TypeOK /\ [Next]_vars => TypeOK'
<1>1. ASSUME TypeOK, UNCHANGED vars
      PROVE  TypeOK'
  BY <1>1 DEF vars, serviceVars, shellVars, pushVars, reverseVars,
              TypeOK, ServiceTypes, ShellTypes, PushTypes, ReverseTypes
<1>2. ASSUME TypeOK, ShellNext, UNCHANGED <<pushVars, reverseVars>>
      PROVE  TypeOK'
  BY <1>2, ShellStepTypes DEF pushVars, reverseVars, TypeOK, PushTypes, ReverseTypes
<1>3. ASSUME TypeOK, PushNext, UNCHANGED <<shellVars, reverseVars>>
      PROVE  TypeOK'
  BY <1>3, PushStepTypes DEF shellVars, reverseVars, TypeOK, ShellTypes, ReverseTypes
<1>4. ASSUME TypeOK, ReverseNext, UNCHANGED <<shellVars, pushVars>>
      PROVE  TypeOK'
  BY <1>4, ReverseStepTypes DEF shellVars, pushVars, TypeOK, ShellTypes, PushTypes
<1>5. QED
  BY <1>1, <1>2, <1>3, <1>4 DEF Next

\* Types of the list of services and of what runs in them, for any commands, sizes,
\* addresses and limits (daemon.rs:44, services.rs:37).
THEOREM TypesHold == Spec => []TypeOK
BY InitTypes, StepTypes, PTL DEF Spec

-----------------------------------------------------------------------------
(* File transfers *)

\* The temporary file at each stage: it gets the name when it is synced, and OKAY
\* is sent when it has it.
PushInv ==
    /\ TargetWhole
    /\ stage \in {"request", "create", "link", "okay", "fail", "done"} => temp = "none"
    /\ stage \in {"times", "rename"} => temp = "synced"
    /\ stage = "okay" => target = "new"

LEMMA PushSafe == TypeOK /\ PushInv /\ [Next]_vars => PushInv'
<1> USE DEF PushInv, TargetWhole
<1>1. ASSUME PushInv, UNCHANGED pushVars
      PROVE  PushInv'
  BY <1>1 DEF pushVars
<1>2. ASSUME TypeOK, PushInv, PushNext
      PROVE  PushInv'
  <2> USE DEF Files
  <2>1. \A f \in Files : Older(f) \in Files /\ (Older(f) = "torn" => f = "torn")
    BY DEF Older
  <2>2. CASE Request
    <3>1. possible \subseteq Files /\ target \in Files
      BY <1>2 DEF TypeOK, PushTypes
    <3>2. "torn" \notin possible' \cup {target'} /\ told' = "none" /\ temp' = temp
      BY <1>2, <2>1, <2>2, <3>1 DEF Request
    <3>3. stage' \in {"create", "link"} /\ stage = "request"
      BY <2>2 DEF Request
    <3>4. QED
      BY <1>2, <3>2, <3>3
  <2>3. CASE Inquire \/ Leaves \/ Reject
    BY <1>2, <2>3 DEF Inquire, Leaves, Reject, Ends
  <2>4. CASE Create \/ Data \/ Done \/ Permissions \/ Sync \/ LinkData \/ LinkDone \/ Times
    BY <1>2, <2>4 DEF Create, Data, Done, Permissions, Sync, LinkData, LinkDone, Times, Step
  <2>5. CASE Abort \/ Rename
    BY <1>2, <2>5 DEF Abort, Rename
  <2>6. CASE Okay \/ Fail
    BY <1>2, <2>6 DEF Okay, Fail, Ends
  <2>7. CASE WriteBack
    BY <1>2, <2>7 DEF WriteBack
  <2>8. CASE \E f \in Frames : Deliver(f)
    BY <1>2, <2>8 DEF Deliver
  <2>9. CASE UNCHANGED pushVars
    BY <1>1, <1>2, <2>9
  <2>10. CASE Transfer
    BY <2>2, <2>3, <2>4, <2>5, <2>6, <2>10 DEF Transfer
  <2>11. CASE Killed
    BY <2>9, <2>11 DEF Killed
  <2>12. QED
    BY <1>2, <2>7, <2>8, <2>9, <2>10, <2>11 DEF PushNext
<1>3. QED
  BY <1>1, <1>2 DEF Next, vars

LEMMA PushInvHolds == Spec => []PushInv
<1>1. Init => PushInv
  BY DEF Init, Run, PushInit, PushInv, TargetWhole
<1>2. QED
  BY <1>1, InitTypes, StepTypes, PushSafe, PTL DEF Spec

\* Whatever fails, and whenever the client leaves, the supervisor kills or the power
\* goes, the name holds a whole file, and the new one after OKAY (sync.rs:258, 286).
THEOREM TargetsStayWhole == Spec => []TargetWhole
<1>1. PushInv => TargetWhole
  BY DEF PushInv
<1>2. QED
  BY <1>1, PushInvHolds, PTL

\* However a push ends by itself, its temporary file is gone (sync.rs:290).
THEOREM PushesCleanUp == Spec => []NoLeftovers
<1>1. PushInv => NoLeftovers
  BY DEF PushInv, NoLeftovers
<1>2. QED
  BY <1>1, PushInvHolds, PTL

-----------------------------------------------------------------------------
(* Shells *)

\* The threads: the others start after the shell, the readers have ended before the
\* exit code is sent, and the process after that.
ThreadInv ==
    /\ at["main"] \in {"start", "spawned"} => \A t \in Thread \ {"main"} : at[t] = "off"
    /\ at["main"] \in {"lock", "write", "shutdown", "last"} => \A c \in Channel : at[c] = "done"
    /\ at["main"] \in {"done", "failed", "killed"} => ~Me.up

\* The mutex: who writes holds it, and the socket ends with what the holder wrote,
\* or with a whole frame.
LockInv ==
    /\ \A t \in Writer : at[t] = "write" <=> lock = t
    /\ Me.up /\ Me.open /\ args.v2 =>
          IF lock = "none" \/ part = 1 THEN wire.part = 3
                                      ELSE wire.by = lock /\ wire.part = part - 1

\* The readers: one ends, while the client is there, when nothing is left to read.
OutputInv ==
    /\ \A c \in Channel \ Outputs : pipe[c] = 0
    /\ Me.up /\ Me.open => \A c \in Outputs : at[c] = "done" => pipe[c] = 0 /\ ~HoldsOutput

\* The exit code: nothing was left, and nothing comes.
LastInv ==
    wire.by = "main" =>
        /\ at["main"] \in {"write", "shutdown", "last", "done", "failed", "killed"}
        /\ ~HoldsOutput
        /\ \A c \in Channel : pipe[c] = 0 /\ at[c] \notin {"lock", "write"}

ShellInv == kind = "shell" => ThreadInv /\ LockInv /\ OutputInv /\ LastInv

LEMMA ShellInitSafe == Init => ShellInv
<1>1. ASSUME ShellInit
      PROVE  /\ at["main"] = "start" /\ \A t \in Thread \ {"main"} : at[t] = "off"
             /\ lock = "none" /\ wire.part = 3 /\ wire.by = "none"
             /\ \A c \in Channel : pipe[c] = 0
  BY <1>1 DEF ShellInit, Thread
<1>2. ASSUME ShellInit
      PROVE  ThreadInv /\ LockInv /\ OutputInv /\ LastInv
  BY <1>1, <1>2 DEF ThreadInv, LockInv, OutputInv, LastInv, Thread, Writer, Channel, Outputs
<1>3. QED
  BY <1>2 DEF Init, Run, ShellInv

\* The process has ended: nothing more is written.
LEMMA QuitSafe ==
    ASSUME TypeOK, LastInv, NEW place \in {"done", "failed", "killed"}, Quit(place),
           \A m \in Member : group'[m] = "running" => Runs(m)
    PROVE  ThreadInv' /\ LockInv' /\ OutputInv' /\ LastInv'
<1>1. ~Me'.up /\ lock' = "none" /\ \A c \in Channel : pipe'[c] = 0
  BY SoloAssumption DEF Quit, Exit, Set, Me, TypeOK, ServiceTypes
<1>2. at'["main"] = place /\ \A t \in Thread \ {"main"} : at'[t] = "off"
  BY DEF Quit, Thread
<1>3. wire' = wire /\ args' = args
  BY DEF Quit
<1>4. HoldsOutput' => HoldsOutput
  BY <1>3 DEF HoldsOutput, Runs, Member
<1>5. QED
  BY <1>1, <1>2, <1>3, <1>4
     DEF ThreadInv, LockInv, OutputInv, LastInv, Thread, Writer, Channel

LEMMA MainSafe ==
    ASSUME TypeOK, ThreadInv, LockInv, OutputInv, LastInv, Main \/ Terminate
    PROVE  ThreadInv' /\ LockInv' /\ OutputInv' /\ LastInv'
<1> USE DEF ThreadInv, LockInv, OutputInv, LastInv, TypeOK, ShellTypes, Thread, Writer,
            Channel, Member, Go, Me, serviceVars, HoldsOutput, Runs, Outputs
<1>1. CASE SpawnShell
  BY <1>1 DEF SpawnShell
<1>2. CASE StartThreads
  BY <1>2 DEF StartThreads
<1>3. CASE WaitChild
  BY <1>3 DEF WaitChild
<1>4. CASE JoinReaders
  BY <1>4 DEF JoinReaders
<1>5. CASE Shutdown
  BY <1>5 DEF Shutdown
<1>6. CASE Finish
  BY <1>6, KillTypes, QuitSafe DEF Finish
<1>7. CASE Terminate
  BY <1>7, KillTypes, QuitSafe DEF Terminate
<1>8. QED
  BY <1>1, <1>2, <1>3, <1>4, <1>5, <1>6, <1>7 DEF Main

\* Steps of the writers: they keep the invariant, a part follows the part before it,
\* and the exit code follows everything.
LEMMA WriterSafe ==
    ASSUME TypeOK, ThreadInv, LockInv, OutputInv, LastInv, NEW t \in Writer,
           Writes(t) \/ (t \in Channel /\ (ReadPipe(t) \/ MemberWrites(t)))
    PROVE  ThreadInv' /\ LockInv' /\ OutputInv' /\ LastInv'
<1> USE DEF ThreadInv, LockInv, OutputInv, LastInv, TypeOK, ShellTypes, Thread, Writer,
            Channel, Go, Me, serviceVars, HoldsOutput, Runs, Outputs
<1>1. CASE Lock(t)
  BY <1>1 DEF Lock
<1>2. CASE WritePart(t)
  <2>1. wire' = [by |-> t, part |-> part, unread |-> wire.unread + 1, shut |-> wire.shut]
    BY <1>2 DEF WritePart
  <2>2. CASE part < 3
    BY <1>2, <2>1, <2>2 DEF WritePart
  <2>3. CASE ~(part < 3)
    BY <1>2, <2>1, <2>3 DEF WritePart, After
  <2>4. QED
    BY <2>2, <2>3
<1>3. CASE WriteFails(t)
  <2>1. CASE t = "main"
    BY <1>3, <2>1, QuitSafe DEF WriteFails
  <2>2. CASE t # "main"
    BY <1>3, <2>2 DEF WriteFails
  <2>3. QED
    BY <2>1, <2>2
<1>4. CASE t \in Channel /\ ReadPipe(t)
  BY <1>4 DEF ReadPipe
<1>5. CASE t \in Channel /\ MemberWrites(t)
  BY <1>5 DEF MemberWrites
<1>6. QED
  BY <1>1, <1>2, <1>3, <1>4, <1>5 DEF Writes

LEMMA InputSafe ==
    ASSUME TypeOK, ThreadInv, LockInv, OutputInv, LastInv,
           (\E f \in {"data", "end", "size", "bad"} : ReadFrame(f)) \/ ReadEnd \/ WriteStdin
    PROVE  ThreadInv' /\ LockInv' /\ OutputInv' /\ LastInv'
<1>1. /\ at["input"] \in {"read", "write", "eof"}
      /\ \A t \in Writer : at'[t] = at[t]
      /\ \A t \in Thread \ Writer : at[t] # "off"
  BY DEF ReadFrame, ReadEnd, WriteStdin, Go, TypeOK, ShellTypes, Writer, Thread, Channel
<1>2. HoldsOutput' => HoldsOutput
  BY KillTypes DEF ReadFrame, ReadEnd, WriteStdin, HangUp, HoldsOutput, Runs, Member, TypeOK
<1>3. UNCHANGED <<serviceVars, args, part, lock, wire, pipe>>
  BY DEF ReadFrame, ReadEnd, WriteStdin
<1>4. QED
  BY <1>1, <1>2, <1>3 DEF ThreadInv, LockInv, OutputInv, LastInv, Thread, Writer, Channel,
     Me, serviceVars, Outputs

LEMMA OutsideSafe ==
    ASSUME TypeOK, ThreadInv, LockInv, OutputInv, LastInv,
           Fork \/ (\E m \in Member : MemberExits(m)) \/ ConnectionReads
    PROVE  ThreadInv' /\ LockInv' /\ OutputInv' /\ LastInv'
<1> USE DEF ThreadInv, LockInv, OutputInv, LastInv, Thread, Writer, Channel, Me,
            serviceVars, Outputs
<1>1. CASE Fork
  BY <1>1 DEF Fork, HoldsOutput, Runs
<1>2. CASE \E m \in Member : MemberExits(m)
  <2>1. HoldsOutput' => HoldsOutput
    BY <1>2, KillTypes DEF MemberExits, HoldsOutput, Runs, Member, TypeOK
  <2>2. QED
    BY <1>2, <2>1 DEF MemberExits
<1>3. CASE ConnectionReads
  BY <1>3 DEF ConnectionReads, HoldsOutput, Runs, TypeOK, ShellTypes
<1>4. QED
  BY <1>1, <1>2, <1>3

\* The supervisor and the connection bring no process and no socket back.
LEMMA StoppingSafe ==
    ASSUME TypeOK, ThreadInv, LockInv, OutputInv, LastInv, SupervisorStep, UNCHANGED shellVars
    PROVE  ThreadInv' /\ LockInv' /\ OutputInv' /\ LastInv'
<1>1. (Me'.up => Me.up) /\ (Me'.open => Me.open)
  <2>1. ASSUME NEW s \in Service
        PROVE  Stopped(s).up = s.up /\ (Stopped(s).open => s.open)
    BY <2>1, StoppedTypes
  <2>2. svc[Solo] \in Service /\ svc \in [Proc -> Service] /\ Solo \in Proc
    BY SoloAssumption DEF TypeOK, ServiceTypes
  <2>3. CASE DropSocket \/ CloseService(Solo)
    BY <2>2, <2>3 DEF DropSocket, CloseService, Set, Me, Service
  <2>4. CASE CloseDue(Solo) \/ Disconnect
    BY <2>1, <2>2, <2>4 DEF CloseDue, Disconnect, Set, Me
  <2>5. CASE \E p \in Proc : Reap(p)
    BY <2>2, <2>5 DEF Reap, Set, Absent, Me, Service
  <2>6. QED
    BY <2>3, <2>4, <2>5 DEF SupervisorStep
<1>2. QED
  BY <1>1 DEF shellVars, ThreadInv, LockInv, OutputInv, LastInv, HoldsOutput, Runs, Outputs

\* A process does not become one of another kind.
LEMMA KindStays == [Next]_vars => kind' = kind
<1> USE DEF serviceVars, DropSocket, CloseService, CloseDue, Reap, Disconnect
<1>1. ASSUME PushNext
      PROVE  kind' = kind
  BY <1>1 DEF PushNext, Transfer, Request, Inquire, Leaves, Reject, Create, Data, Done,
     Permissions, Sync, LinkData, LinkDone, Abort, Times, Rename, Okay, Fail, Killed,
     WriteBack, Deliver, Step, Stays, Ends
<1>2. ASSUME ReverseNext
      PROVE  kind' = kind
  BY <1>2 DEF ReverseNext, Forward, KillForward, Proceed, GiveUp, Leave, CloseReverse,
     BindReverse, BinderAnswers, BindTimeout, BinderStarts, BinderEnds, BinderKilled,
     BinderIsGone
<1>3. ASSUME ShellNext
      PROVE  kind' = kind
  BY <1>3 DEF ShellNext, Main, Writes, SpawnShell, StartThreads, WaitChild, JoinReaders,
     Shutdown, Finish, Terminate, Quit, Lock, WritePart, WriteFails, ReadPipe, MemberWrites,
     ReadFrame, ReadEnd, WriteStdin, Fork, MemberExits, ConnectionReads, ConnectionEnds
<1>4. QED
  BY <1>1, <1>2, <1>3 DEF Next, vars

LEMMA ShellSafe == TypeOK /\ ShellInv /\ [Next]_vars => ShellInv'
<1>1. ASSUME TypeOK, ShellInv, kind = "shell", ShellNext
      PROVE  ThreadInv' /\ LockInv' /\ OutputInv' /\ LastInv'
  <2>1. ThreadInv /\ LockInv /\ OutputInv /\ LastInv
    BY <1>1 DEF ShellInv
  <2>2. CASE SupervisorStep /\ UNCHANGED shellVars
    BY <1>1, <2>1, <2>2, StoppingSafe
  <2>3. CASE ConnectionEnds
    BY <1>1, <2>1, <2>3, StoppingSafe DEF ConnectionEnds, SupervisorStep
  <2>4. QED
    BY <1>1, <2>1, <2>2, <2>3, MainSafe, WriterSafe, InputSafe, OutsideSafe, SoloAssumption
       DEF ShellNext, SupervisorStep, Writer
<1>2. ASSUME TypeOK, [Next]_vars, kind # "shell"
      PROVE  kind' # "shell"
  BY <1>2, KindStays
<1>3. ASSUME UNCHANGED vars, ShellInv
      PROVE  ShellInv'
  BY <1>3 DEF vars, serviceVars, shellVars, ShellInv, ThreadInv, LockInv, OutputInv, LastInv,
     HoldsOutput, Runs, Outputs, Me
<1>4. QED
  BY <1>1, <1>2, <1>3 DEF Next, ShellInv

LEMMA ShellInvHolds == Spec => [](TypeOK /\ ShellInv)
BY InitTypes, StepTypes, ShellInitSafe, ShellSafe, PTL DEF Spec

\* What a step of a shell's threads may do to the socket.
LEMMA WireSteps ==
    ASSUME TypeOK, ShellInv, [Next]_vars, wire' # wire
    PROVE  /\ kind = "shell"
           /\ \/ \E t \in Writer : WritePart(t)
              \/ wire'.by = wire.by /\ wire'.unread <= wire.unread
<1>1. kind = "shell" /\ ShellNext
  BY DEF Next, vars, shellVars
<1>2. CASE Shutdown \/ ConnectionReads
  <2>1. wire.unread \in Nat
    BY SizesAssumption DEF TypeOK, ShellTypes
  <2>2. wire'.by = wire.by /\ (wire'.unread = wire.unread \/ wire'.unread = wire.unread - 1)
    BY <1>2 DEF Shutdown, ConnectionReads, TypeOK, ShellTypes
  <2>3. QED
    BY <1>1, <2>1, <2>2
<1>3. CASE Main \/ Terminate
  BY <1>1, <1>2, <1>3 DEF Main, SpawnShell, StartThreads, WaitChild, JoinReaders, Finish, Terminate, Quit
<1>4. CASE \E t \in Writer : Writes(t)
  <2>1. ASSUME NEW t \in Writer, Lock(t) \/ WriteFails(t)
        PROVE  wire' = wire
    BY <2>1 DEF Lock, WriteFails, Quit, serviceVars
  <2>2. \E t \in Writer : WritePart(t)
    BY <1>4, <2>1 DEF Writes
  <2>3. QED
    BY <1>1, <2>2
<1>5. CASE \E c \in Channel : ReadPipe(c) \/ MemberWrites(c)
  BY <1>5 DEF ReadPipe, MemberWrites
<1>6. CASE (\E f \in {"data", "end", "size", "bad"} : ReadFrame(f)) \/ ReadEnd \/ WriteStdin
  BY <1>6 DEF ReadFrame, ReadEnd, WriteStdin
<1>7. CASE Fork \/ \E m \in Member : MemberExits(m)
  BY <1>7 DEF Fork, MemberExits
<1>8. CASE UNCHANGED shellVars
  BY <1>8 DEF shellVars
<1>9. QED
  BY <1>1, <1>2, <1>3, <1>4, <1>5, <1>6, <1>7, <1>8 DEF ShellNext, ConnectionEnds

\* Whatever the order of two readers and the main thread, the client sees whole
\* frames: the mutex covers all parts of one (services.rs:200, protocol.rs:91).
THEOREM FramesStayWhole == Spec => FramesWhole
<1>1. ASSUME TypeOK, ShellInv, [Next]_vars, wire'.unread > wire.unread, args.v2
      PROVE  IF wire'.part = 1 THEN wire.part = 3
                               ELSE wire'.by = wire.by /\ wire'.part = wire.part + 1
  <2>1. wire.unread \in Nat
    BY <1>1, SizesAssumption DEF TypeOK, ShellTypes
  <2>2. PICK t \in Writer : WritePart(t)
    <3>1. wire'.unread \in Nat
      BY <1>1, SizesAssumption, StepTypes DEF TypeOK, ShellTypes
    <3>2. wire' # wire /\ ~(wire'.unread <= wire.unread)
      BY <1>1, <2>1, <3>1
    <3>3. QED
      BY <1>1, <3>2, WireSteps
  <2>3. kind = "shell"
    BY <1>1, <2>1, WireSteps
  <2>4. wire'.by = t /\ wire'.part = part
    BY <1>1, <2>2 DEF WritePart, TypeOK, ShellTypes
  <2>5. QED
    <3>1. lock = t /\ t # "none" /\ part \in 1..3
      BY <1>1, <2>2, <2>3 DEF WritePart, ShellInv, LockInv, Writer, Channel, TypeOK, ShellTypes
    <3>2. IF part = 1 THEN wire.part = 3 ELSE wire.by = t /\ wire.part = part - 1
      BY <1>1, <2>2, <2>3, <3>1 DEF WritePart, ShellInv, LockInv
    <3>3. QED
      BY <2>4, <3>1, <3>2
<1>2. QED
  BY <1>1, ShellInvHolds, PTL DEF FramesWhole, Spec

\* The exit code is the last thing a client is told, and all output comes before it
\* (services.rs:384).
THEOREM ExitCodesComeLast == Spec => ExitCodeLast
<1>1. ASSUME TypeOK, ShellInv, [Next]_vars, wire' # wire
      PROVE  /\ wire.by = "main" => wire'.by = "main"
             /\ wire'.by = "main" =>
                  /\ ~HoldsOutput
                  /\ \A c \in Channel : pipe[c] = 0 /\ at[c] \notin {"lock", "write"}
  <2>1. kind = "shell" /\ ThreadInv /\ OutputInv /\ LastInv
    BY <1>1, WireSteps DEF ShellInv
  <2>2. CASE wire'.by = wire.by
    BY <2>1, <2>2 DEF LastInv
  <2>3. CASE \E t \in Writer : WritePart(t)
    <3>1. PICK t \in Writer : WritePart(t)
      BY <2>3
    <3>2. wire'.by = t /\ at[t] = "write" /\ Me.up /\ Me.open
      BY <1>1, <3>1 DEF WritePart, TypeOK, ShellTypes
    <3>3. CASE t = "main"
      <4>1. \A c \in Channel : at[c] = "done"
        BY <2>1, <3>2, <3>3 DEF ThreadInv
      <4>2. ~HoldsOutput /\ \A c \in Channel : pipe[c] = 0
        BY <2>1, <3>2, <4>1 DEF OutputInv, Outputs, Channel
      <4>3. QED
        BY <3>2, <3>3, <4>1, <4>2
    <3>4. CASE t # "main"
      BY <2>1, <3>2, <3>4 DEF LastInv, Writer
    <3>5. QED
      BY <3>3, <3>4
  <2>4. QED
    BY <1>1, <2>2, <2>3, WireSteps
<1>2. ASSUME TypeOK, ShellInv, [Next]_vars, wire' = wire
      PROVE  wire'.by = "main" /\ kind = "shell" =>
                /\ ~HoldsOutput
                /\ \A c \in Channel : pipe[c] = 0 /\ at[c] \notin {"lock", "write"}
  BY <1>2 DEF ShellInv, LastInv
<1>3. ASSUME TypeOK, ShellInv, [Next]_vars, shellVars' # shellVars
      PROVE  kind = "shell"
  BY <1>3 DEF Next, vars
<1>4. ASSUME TypeOK, ShellInv, [Next]_vars
      PROVE  [/\ wire.by = "main" => wire'.by = "main"
              /\ wire'.by = "main" =>
                   /\ ~HoldsOutput
                   /\ \A c \in Channel : pipe[c] = 0 /\ at[c] \notin {"lock", "write"}]_shellVars
  BY <1>1, <1>2, <1>3, <1>4
<1>5. QED
  BY <1>4, ShellInvHolds, PTL DEF ExitCodeLast, Spec

-----------------------------------------------------------------------------
(* Reverse listeners *)

Serving(p) == svc[p].up /\ svc[p].open /\ ~svc[p].stopped /\ ~svc[p].term

\* An entry has a binder that nothing will end.
TableInv == registered => \A a \in table : \E p \in Proc : Listens(p, a) /\ Serving(p)

\* The calls: an address whose binder is still to be stopped has no entry, and the
\* one call the thread waits for is its last.
CallsInv ==
    /\ \A i \in DOMAIN calls : calls[i].type = "CloseReverse" => calls[i].address \notin table
    /\ \A i \in DOMAIN calls : ~calls[i].late => i = Len(calls) /\ command.call \in {"bind", "close"}

\* The binders: one that listens lives, and one that is waited for is left alone.
BindersInv ==
    /\ \A p \in Proc : binder[p].listens => svc[p].up
    /\ \A p \in Proc : awaited = p => svc[p].open /\ ~svc[p].stopped /\ ~svc[p].term

ListenersInv ==
    IF kind = "reverse" THEN TableInv /\ CallsInv /\ BindersInv ELSE table = {}

LEMMA ListenersInit == Init => ListenersInv
<1>1. ASSUME ReverseInit
      PROVE  table = {} /\ calls = <<>> /\ awaited = None /\ \A p \in Proc : ~binder[p].listens
  BY <1>1 DEF ReverseInit, Unbound
<1>2. ASSUME ReverseInit
      PROVE  TableInv /\ CallsInv /\ BindersInv
  BY <1>1, <1>2, AddressAssumption DEF TableInv, CallsInv, BindersInv
<1>3. QED
  BY <1>1, <1>2 DEF Init, Run, ListenersInv

\* What the connection thread does.
LEMMA CommandSafe ==
    ASSUME TypeOK, TableInv, CallsInv, BindersInv,
           \/ \E a \in Address \cup {Any} : Forward(a)
           \/ \E S \in {{a} : a \in table} \cup {table} : KillForward(S)
           \/ Proceed \/ GiveUp \/ Leave
    PROVE  TableInv' /\ CallsInv' /\ BindersInv'
<1>1. UNCHANGED <<serviceVars, awaited, binder>> /\ table' \subseteq table
  BY DEF Forward, KillForward, Proceed, GiveUp, Leave
<1>2. TableInv' /\ BindersInv'
  BY <1>1 DEF TableInv, BindersInv, Listens, Serving, serviceVars
<1>3. ASSUME (\E a \in Address \cup {Any} : Forward(a))
             \/ \E S \in {{a} : a \in table} \cup {table} : KillForward(S)
      PROVE  CallsInv'
  BY <1>3 DEF Forward, KillForward, CallsInv
<1>4. ASSUME Proceed
      PROVE  CallsInv'
  <2>1. \A i \in DOMAIN calls : calls[i].late
    BY <1>4 DEF Proceed, CallsInv
  <2>2. calls \in Seq(Call)
    BY DEF TypeOK, ReverseTypes
  <2>3. ASSUME NEW type, NEW a, Ask(type, a), command'.call \in {"bind", "close"},
               type = "CloseReverse" => a \notin table'
        PROVE  CallsInv'
    BY <1>1, <2>1, <2>2, <2>3 DEF Ask, CallsInv
  <2>4. CASE UNCHANGED calls
    BY <1>1, <2>1, <2>4 DEF CallsInv
  <2>5. command \in Command /\ command.rest \subseteq Address
    BY DEF TypeOK, ReverseTypes, Command
  <2>6. ASSUME NEW a \in command.rest, table' = table \ {a}, Ask("CloseReverse", a),
               command' = [command EXCEPT !.call = "close", !.rest = @ \ {a}]
        PROVE  CallsInv'
    <3>1. command'.call = "close"
      BY <2>5, <2>6 DEF Command
    <3>2. QED
      BY <2>3, <2>6, <3>1
  <2>7. ASSUME Ask("BindReverse", command.bind), command' = [Resting EXCEPT !.call = "bind"]
        PROVE  CallsInv'
    BY <2>3, <2>7 DEF Resting
  <2>8. QED
    BY <1>4, <2>4, <2>6, <2>7 DEF Proceed
<1>5. ASSUME GiveUp \/ Leave
      PROVE  CallsInv'
  <2>1. calls' = Late
    BY <1>5 DEF GiveUp, Leave
  <2>2. DOMAIN Late = DOMAIN calls
    BY DEF Late
  <2>3. ASSUME NEW i \in DOMAIN calls
        PROVE  Late[i].late /\ Late[i].type = calls[i].type /\ Late[i].address = calls[i].address
    <3>1. calls[i] \in Call
      BY DEF TypeOK, ReverseTypes
    <3>2. QED
      BY <3>1 DEF Late, Call
  <2>4. QED
    BY <1>1, <2>1, <2>2, <2>3 DEF CallsInv
<1>6. QED
  BY <1>2, <1>3, <1>4, <1>5

\* An answer makes an entry only when it is the answer to the last call.
LEMMA AnswerSafe ==
    ASSUME TypeOK, CallsInv, calls # <<>>, NEW bound \in BOOLEAN, NEW a, Answer(bound, a)
    PROVE  /\ CallsInv'
           /\ table' \subseteq table \cup {a} /\ (~bound => table' \subseteq table)
<1>1. calls \in Seq(Call) /\ Head(calls) = calls[1] /\ calls' = Tail(calls)
  BY DEF TypeOK, ReverseTypes, Answer
<1>2. CASE Head(calls).late
  <2>1. table' = table /\ command' = command
    BY <1>2 DEF Answer
  <2>2. Len(Tail(calls)) = Len(calls) - 1
        /\ \A i \in DOMAIN Tail(calls) : i + 1 \in DOMAIN calls /\ Tail(calls)[i] = calls[i + 1]
    BY <1>1
  <2>3. QED
    BY <1>1, <2>1, <2>2 DEF CallsInv
<1>3. CASE ~Head(calls).late
  <2>1. Len(calls) = 1
    <3>1. 1 \in DOMAIN calls /\ ~calls[1].late
      BY <1>1, <1>3
    <3>2. QED
      BY <3>1 DEF CallsInv
  <2>2. Tail(calls) = <<>>
    BY <1>1, <2>1
  <2>3. QED
    BY <1>1, <2>2 DEF CallsInv, Answer
<1>4. QED
  BY <1>2, <1>3 DEF Answer

\* What the supervisor does with the calls and with the binder it waits for.
LEMMA ServingSafe ==
    ASSUME TypeOK, TableInv, CallsInv, BindersInv,
           CloseReverse \/ BindReverse \/ BinderAnswers \/ BindTimeout
    PROVE  TableInv' /\ CallsInv' /\ BindersInv'
<1> USE DEF Listens, Serving
<1>1. /\ svc \in [Proc -> Service] /\ binder \in [Proc -> Binder] /\ awaited \in Proc \cup {None}
      /\ \A s \in Service : /\ Stopped(s).up = s.up /\ (Stopped(s).open => s.open)
                            /\ Stopped(s) \in Service
  BY StoppedTypes DEF TypeOK, ServiceTypes, ReverseTypes
<1>2. CASE CloseReverse
  <2>1. CallsInv' /\ table' \subseteq table /\ Head(calls).address \notin table
    <3>1. calls # <<>> /\ Answer(FALSE, None) /\ Head(calls).type = "CloseReverse"
      BY <1>2 DEF CloseReverse, Serves
    <3>2. Head(calls).address \notin table
      BY <3>1 DEF CallsInv, TypeOK, ReverseTypes
    <3>3. QED
      BY <3>1, <3>2, AnswerSafe
  <2>2. TableInv'
    BY <1>1, <1>2, <2>1 DEF CloseReverse, TableInv
  <2>3. BindersInv'
    BY <1>1, <1>2, AddressAssumption DEF CloseReverse, Serves, BindersInv
  <2>4. QED
    BY <2>1, <2>2, <2>3
<1>3. CASE BindReverse
  <2>1. CASE Answer(FALSE, None) /\ UNCHANGED <<svc, awaited, binder>>
    BY <1>3, <2>1, AnswerSafe DEF BindReverse, Serves, TableInv, BindersInv
  <2>2. ASSUME NEW p \in Proc, svc[p] = Absent, svc' = [svc EXCEPT ![p] = Started],
               awaited' = p, awaited = None,
               binder' = [binder EXCEPT ![p] = [Unbound EXCEPT !.address = Head(calls).address]],
               UNCHANGED <<registered, table, command, calls>>
        PROVE  TableInv' /\ CallsInv' /\ BindersInv'
    <3>1. ~binder[p].listens /\ ~binder'[p].listens /\ svc'[p] = Started
      BY <1>1, <2>2 DEF BindersInv, Absent, Unbound
    <3>2. \A q \in Proc \ {p} : svc'[q] = svc[q] /\ binder'[q] = binder[q]
      BY <1>1, <2>2
    <3>3. ~svc[p].up /\ Started.open /\ Started.up /\ ~Started.stopped /\ ~Started.term
      BY <2>2 DEF Started, Absent
    <3>4. TableInv'
      BY <2>2, <3>1, <3>2, <3>3 DEF TableInv
    <3>5. CallsInv' /\ BindersInv'
      BY <2>2, <3>1, <3>2, <3>3 DEF CallsInv, BindersInv
    <3>6. QED
      BY <3>4, <3>5
  <2>3. QED
    BY <1>3, <2>1, <2>2 DEF BindReverse, Serves, Set
<1>4. CASE BinderAnswers
  <2>1. PICK p \in Proc : /\ awaited = p
                         /\ \/ /\ binder[p].listens
                               /\ svc' = [svc EXCEPT ![p] = [svc[p] EXCEPT !.binder = TRUE]]
                               /\ Answer(TRUE, binder[p].address)
                            \/ /\ ~svc[p].up
                               /\ svc' = [svc EXCEPT ![p] = Stopped(svc[p])]
                               /\ Answer(FALSE, None)
                         /\ awaited' = None /\ UNCHANGED <<kind, registered, binder>>
    BY <1>4 DEF BinderAnswers, Set
  <2>2. calls # <<>>
    BY <2>1, AddressAssumption DEF TypeOK, ReverseTypes
  <2>3. CallsInv'
    BY <2>1, <2>2, AnswerSafe
  <2>4. CASE ~svc[p].up /\ svc' = [svc EXCEPT ![p] = Stopped(svc[p])] /\ Answer(FALSE, None)
    <3>1. table' \subseteq table
      BY <2>2, <2>4, AnswerSafe
    <3>2. QED
      BY <1>1, <2>1, <2>3, <2>4, <3>1, AddressAssumption DEF TableInv, BindersInv
  <2>5. CASE binder[p].listens /\ svc' = [svc EXCEPT ![p] = [svc[p] EXCEPT !.binder = TRUE]]
             /\ Answer(TRUE, binder[p].address)
    <3>1. table' \subseteq table \cup {binder[p].address}
      BY <2>2, <2>5, AnswerSafe
    <3>2. Serving(p) /\ Listens(p, binder[p].address)
      BY <2>1, <2>5 DEF BindersInv
    <3>3. \A q \in Proc : Serving(q)' = Serving(q) /\ svc'[q].up = svc[q].up
      BY <1>1, <2>5 DEF Service
    <3>4. QED
      BY <2>1, <2>3, <3>1, <3>2, <3>3, AddressAssumption DEF TableInv, BindersInv
  <2>6. QED
    BY <2>1, <2>4, <2>5
<1>5. CASE BindTimeout
  <2>1. PICK p \in Proc : awaited = p /\ ~binder[p].listens
                         /\ svc' = [svc EXCEPT ![p] = [Stopped(svc[p]) EXCEPT !.open = FALSE]]
    BY <1>5 DEF BindTimeout, Set
  <2>2. calls # <<>>
    BY <2>1, AddressAssumption DEF TypeOK, ReverseTypes
  <2>3. CallsInv' /\ table' \subseteq table
    BY <1>5, <2>2, AnswerSafe DEF BindTimeout
  <2>4. QED
    BY <1>1, <1>5, <2>1, <2>3, AddressAssumption DEF BindTimeout, TableInv, BindersInv
<1>6. QED
  BY <1>2, <1>3, <1>4, <1>5

\* What the binders do.
LEMMA BinderSafe ==
    ASSUME TypeOK, TableInv, CallsInv, BindersInv, NEW p \in Proc,
           BinderStarts(p) \/ BinderEnds(p) \/ BinderKilled(p)
    PROVE  TableInv' /\ CallsInv' /\ BindersInv'
<1> USE DEF Listens, Serving
<1>1. svc \in [Proc -> Service] /\ binder \in [Proc -> Binder]
  BY DEF TypeOK, ServiceTypes, ReverseTypes
<1>2. UNCHANGED <<registered, table, command, calls, awaited>>
  BY DEF BinderStarts, BinderEnds, BinderKilled, BinderIsGone
<1>3. CASE svc' = svc
  BY <1>1, <1>2, <1>3, SMTT(30) DEF BinderStarts, BinderEnds, BinderKilled, BinderIsGone, Exit, Set,
     Service, TableInv, CallsInv, BindersInv
<1>4. CASE /\ ~Serving(p) \/ ~binder[p].listens
           /\ svc' = [svc EXCEPT ![p] = [svc[p] EXCEPT !.up = FALSE]]
           /\ binder' = [binder EXCEPT ![p] = Unbound]
  BY <1>1, <1>2, <1>4 DEF TableInv, CallsInv, BindersInv, Service, Unbound
<1>5. QED
  BY <1>3, <1>4 DEF BinderStarts, BinderEnds, BinderKilled, BinderIsGone, Exit, Set

LEMMA ReverseSafe == TypeOK /\ ListenersInv /\ [Next]_vars => ListenersInv'
<1>1. ASSUME TypeOK, TableInv, CallsInv, BindersInv, UNCHANGED reverseVars,
             awaited = None, Disconnect \/ \E p \in Proc : Reap(p)
      PROVE  TableInv' /\ CallsInv' /\ BindersInv'
  <2> USE DEF reverseVars, Listens, Serving
  <2>1. svc \in [Proc -> Service] /\ \A s \in Service : Stopped(s).up = s.up
    BY <1>1, StoppedTypes DEF TypeOK, ServiceTypes
  <2>2. CASE Disconnect
    BY <1>1, <2>1, <2>2, AddressAssumption DEF Disconnect, TableInv, CallsInv, BindersInv
  <2>3. CASE \E p \in Proc : Reap(p)
    BY <1>1, <2>1, <2>3, AddressAssumption DEF Reap, Set, Absent, TableInv, CallsInv, BindersInv
  <2>4. QED
    BY <1>1, <2>2, <2>3
<1>2. ASSUME TypeOK, TableInv, CallsInv, BindersInv, ReverseNext
      PROVE  TableInv' /\ CallsInv' /\ BindersInv'
  BY <1>1, <1>2, CommandSafe, ServingSafe, BinderSafe DEF ReverseNext
<1>3. ASSUME ListenersInv, UNCHANGED vars
      PROVE  ListenersInv'
  BY <1>3 DEF vars, serviceVars, reverseVars, ListenersInv, TableInv, CallsInv, BindersInv,
     Listens, Serving
<1>4. ASSUME ListenersInv, kind # "reverse", kind' = kind, UNCHANGED reverseVars
      PROVE  ListenersInv'
  BY <1>4 DEF reverseVars, ListenersInv
<1>5. QED
  BY <1>2, <1>3, <1>4, KindStays DEF Next, ListenersInv

\* Nothing that the client, a call that is given up, a bind that is killed or the
\* supervisor does leaves an entry without its listener (transport.rs:505).
THEOREM EntriesAreServed == Spec => []EntriesServed
<1>1. TypeOK /\ ListenersInv => EntriesServed
  BY DEF TypeOK, ListenersInv, TableInv, EntriesServed, Serving
<1>2. QED
  BY <1>1, InitTypes, StepTypes, ListenersInit, ReverseSafe, PTL DEF Spec

-----------------------------------------------------------------------------
(* Binders that nothing lists *)

\* While nothing is overdue: a binder in the supervisor's list listens and was not told to end,
\* and a process that runs is listed, told to end, or waited for.
OwnedInv ==
    /\ \A p \in Proc :
        svc[p].binder => svc[p].up /\ svc[p].open /\ ~svc[p].stopped /\ binder[p].listens
    /\ \A p \in Proc : svc[p].up =>
        ~svc[p].term /\ (svc[p].binder \/ svc[p].stopped \/ awaited = p)

\* The one call of a thread that has not ended is the one it waits for.
AwaitedInv ==
    /\ awaited # None => Head(calls).type = "BindReverse"
    /\ command.call # "ended" => \A i \in DOMAIN calls :
        ~calls[i].late /\ (calls[i].type = "BindReverse" <=> command.call = "bind")

\* A listed binder has its entry, or the call that stops it is under way.
CoveredInv ==
    \A p \in Proc : svc[p].binder /\ command.call # "ended" =>
        \/ binder[p].address \in table
        \/ \E i \in DOMAIN calls :
            calls[i].type = "CloseReverse" /\ calls[i].address = binder[p].address

PathsInv == \A a \in files : \E p \in Proc : Listens(p, a)

StraysInv ==
    IF kind = "reverse"
    THEN ~overdue => OwnedInv /\ AwaitedInv /\ CoveredInv /\ PathsInv
    ELSE files = {} /\ \A p \in Proc : ~svc[p].binder

LEMMA StraysInit == Init => StraysInv
<1>1. ASSUME NEW s \in {Started, Absent}, ServicesInit(kind, s)
      PROVE  \A p \in Proc : ~svc[p].binder
  <2>1. ~Started.binder /\ ~Absent.binder
    BY DEF Started, Absent
  <2>2. QED
    BY <1>1, <2>1 DEF ServicesInit
<1>2. ASSUME ServicesInit("reverse", Absent)
      PROVE  \A p \in Proc : ~svc[p].binder /\ ~svc[p].up
  BY <1>2 DEF ServicesInit, Absent
<1>3. ASSUME ReverseInit
      PROVE  files = {} /\ calls = <<>> /\ awaited = None
  BY <1>3 DEF ReverseInit
<1>4. ASSUME Run("reverse", Absent) PROVE StraysInv
  <2>1. OwnedInv /\ CoveredInv
    BY <1>2, <1>4 DEF Run, OwnedInv, CoveredInv
  <2>2. AwaitedInv /\ PathsInv
    BY <1>3, <1>4 DEF Run, AwaitedInv, PathsInv
  <2>3. QED
    BY <2>1, <2>2, <1>4 DEF Run, ServicesInit, StraysInv
<1>5. ASSUME Run("shell", Started) \/ Run("sync", Started) PROVE StraysInv
  <2>1. kind # "reverse" /\ files = {} /\ ServicesInit(kind, Started)
    BY <1>3, <1>5 DEF Run, ServicesInit
  <2>2. QED
    BY <1>1, <2>1 DEF StraysInv
<1>6. QED
  BY <1>4, <1>5 DEF Init

\* A shell and a file transfer are no binders.
LEMMA OthersListNone ==
    ASSUME TypeOK, \A p \in Proc : ~svc[p].binder, ShellNext \/ PushNext
    PROVE  \A p \in Proc : ~svc'[p].binder
<1>1. svc \in [Proc -> Service] /\ Solo \in Proc
  BY SoloAssumption DEF TypeOK, ServiceTypes
<1>2. \/ svc' = svc \/ Exit(Solo) \/ DropSocket \/ CloseService(Solo) \/ CloseDue(Solo)
      \/ Reap(Solo) \/ Disconnect
  <2>1. CASE PushNext
    BY <2>1 DEF PushNext, Transfer, Request, Inquire, Leaves, Reject, Create, Data, Done,
       Permissions, Sync, LinkData, LinkDone, Abort, Times, Rename, Okay, Fail, Killed,
       WriteBack, Deliver, Step, Stays, Ends, serviceVars
  <2>2. CASE ShellNext
    BY <2>2 DEF ShellNext, Main, Writes, SpawnShell, StartThreads, WaitChild, JoinReaders,
       Shutdown, Finish, Terminate, Quit, Lock, WritePart, WriteFails, ReadPipe, MemberWrites,
       ReadFrame, ReadEnd, WriteStdin, Fork, MemberExits, ConnectionReads, ConnectionEnds,
       serviceVars
  <2>3. QED
    BY <2>1, <2>2
<1>3. ASSUME NEW s \in Service, ~s.binder PROVE ~Stopped(s).binder
  BY <1>3 DEF Stopped, Service
<1>4. CASE svc' = svc
  BY <1>4
<1>5. ASSUME NEW s \in Service, ~s.binder, svc' = [svc EXCEPT ![Solo] = s]
      PROVE  \A p \in Proc : ~svc'[p].binder
  BY <1>1, <1>5
<1>6. CASE Exit(Solo) \/ DropSocket \/ CloseService(Solo) \/ CloseDue(Solo) \/ Reap(Solo)
  <2>1. PICK s : s = svc[Solo] /\ s \in Service /\ ~s.binder
    BY <1>1
  <2>2. /\ [s EXCEPT !.up = FALSE] \in Service /\ ~[s EXCEPT !.up = FALSE].binder
        /\ [s EXCEPT !.open = FALSE] \in Service /\ ~[s EXCEPT !.open = FALSE].binder
        /\ [s EXCEPT !.closing = TRUE] \in Service /\ ~[s EXCEPT !.closing = TRUE].binder
        /\ Absent \in Service /\ ~Absent.binder
        /\ Stopped(s) \in Service /\ ~Stopped(s).binder
    BY <1>3, <2>1, StoppedTypes DEF Service, Absent
  <2>3. \/ svc' = [svc EXCEPT ![Solo] = [s EXCEPT !.up = FALSE]]
        \/ svc' = [svc EXCEPT ![Solo] = [s EXCEPT !.open = FALSE]]
        \/ svc' = [svc EXCEPT ![Solo] = [s EXCEPT !.closing = TRUE]]
        \/ svc' = [svc EXCEPT ![Solo] = Absent]
        \/ svc' = [svc EXCEPT ![Solo] = Stopped(s)]
    BY <1>6, <2>1 DEF Exit, DropSocket, CloseService, CloseDue, Reap, Set
  <2>4. QED
    BY <1>5, <2>2, <2>3
<1>7. CASE Disconnect
  BY <1>1, <1>3, <1>7 DEF Disconnect
<1>8. QED
  BY <1>2, <1>4, <1>6, <1>7

LEMMA CommandCovers ==
    ASSUME TypeOK, CallsInv, OwnedInv, AwaitedInv, CoveredInv, PathsInv,
           \/ \E a \in Address \cup {Any} : Forward(a)
           \/ \E S \in {{a} : a \in table} \cup {table} : KillForward(S)
           \/ Proceed \/ Leave
    PROVE  OwnedInv' /\ AwaitedInv' /\ CoveredInv' /\ PathsInv'
<1>1. UNCHANGED <<serviceVars, awaited, binder, files>>
  BY DEF Forward, KillForward, Proceed, Leave
<1>2. OwnedInv' /\ PathsInv'
  BY <1>1 DEF OwnedInv, PathsInv, Listens, serviceVars
<1>3. calls \in Seq(Call) /\ command \in Command
  BY DEF TypeOK, ReverseTypes
<1>4. ASSUME command.call \in {"none", "next"}
      PROVE  calls = <<>> /\ awaited = None
  <2>1. DOMAIN calls = {}
    BY <1>4 DEF AwaitedInv, CallsInv
  <2>2. calls = <<>>
    BY <1>3, <2>1
  <2>3. QED
    BY <2>2 DEF TypeOK, ReverseTypes
<1>5. ASSUME NEW a, NEW t \in {"BindReverse", "CloseReverse"}, calls = <<>>, Ask(t, a)
      PROVE  calls' = <<[type |-> t, address |-> a, late |-> FALSE]>>
  BY <1>5 DEF Ask
<1>6. CASE \/ \E a \in Address \cup {Any} : Forward(a)
           \/ \E S \in {{a} : a \in table} \cup {table} : KillForward(S)
  <2>1. /\ command.call = "none" /\ command'.call = "next"
        /\ table' = table /\ calls' = calls
    BY <1>6 DEF Forward, KillForward
  <2>2. calls = <<>> /\ awaited = None
    BY <1>4, <2>1
  <2>3. AwaitedInv'
    BY <1>1, <2>1, <2>2 DEF AwaitedInv
  <2>4. CoveredInv'
    BY <1>1, <2>1 DEF CoveredInv, serviceVars
  <2>5. QED
    BY <1>2, <2>3, <2>4
<1>7. CASE Proceed
  <2>1. command.call = "next" /\ calls = <<>> /\ awaited = None
    BY <1>4, <1>7 DEF Proceed
  <2>2. \A p \in Proc : svc[p].binder => binder[p].address \in table
    BY <2>1 DEF CoveredInv
  <2>3. ASSUME NEW a \in command.rest, table' = table \ {a}, Ask("CloseReverse", a),
               command' = [command EXCEPT !.call = "close", !.rest = @ \ {a}]
        PROVE  AwaitedInv' /\ CoveredInv'
    <3>1. calls' = <<[type |-> "CloseReverse", address |-> a, late |-> FALSE]>>
      BY <1>5, <2>1, <2>3
    <3>2. /\ DOMAIN calls' = {1} /\ calls'[1].type = "CloseReverse"
          /\ calls'[1].address = a /\ ~calls'[1].late
      BY <3>1
    <3>3. command'.call = "close"
      BY <1>3, <2>3 DEF Command
    <3>4. AwaitedInv'
      BY <1>1, <2>1, <3>2, <3>3 DEF AwaitedInv
    <3>5. CoveredInv'
      BY <1>1, <2>2, <2>3, <3>2 DEF CoveredInv, serviceVars
    <3>6. QED
      BY <3>4, <3>5
  <2>4. CASE /\ table' = table /\ Ask("BindReverse", command.bind)
             /\ command' = [Resting EXCEPT !.call = "bind"]
    <3>1. calls' = <<[type |-> "BindReverse", address |-> command.bind, late |-> FALSE]>>
      BY <1>5, <2>1, <2>4
    <3>2. DOMAIN calls' = {1} /\ calls'[1].type = "BindReverse" /\ ~calls'[1].late
      BY <3>1
    <3>3. command'.call = "bind"
      BY <2>4 DEF Resting
    <3>4. AwaitedInv'
      BY <1>1, <2>1, <3>2, <3>3 DEF AwaitedInv
    <3>5. CoveredInv'
      BY <1>1, <2>2, <2>4 DEF CoveredInv, serviceVars
    <3>6. QED
      BY <1>2, <3>4, <3>5
  <2>5. CASE table' = table /\ command' = Resting /\ UNCHANGED calls
    <3>1. AwaitedInv'
      BY <1>1, <2>1, <2>5 DEF AwaitedInv
    <3>2. CoveredInv'
      BY <1>1, <2>2, <2>5 DEF CoveredInv, serviceVars
    <3>3. QED
      BY <1>2, <3>1, <3>2
  <2>6. QED
    BY <1>2, <1>7, <2>3, <2>4, <2>5 DEF Proceed
<1>8. CASE Leave
  <2>1. command'.call = "ended" /\ calls' = Late
    BY <1>8 DEF Leave, Resting
  <2>2. CoveredInv'
    BY <2>1 DEF CoveredInv
  <2>3. awaited # None => Head(calls').type = "BindReverse"
    <3>1. ASSUME awaited # None PROVE Head(Late).type = "BindReverse"
      <4>1. calls # <<>> /\ Head(calls).type = "BindReverse"
        BY <3>1 DEF AwaitedInv, TypeOK, ReverseTypes
      <4>2. 1 \in DOMAIN calls /\ Head(calls) = calls[1] /\ calls[1] \in Call
        BY <1>3, <4>1
      <4>3. Late[1].type = "BindReverse"
        BY <4>1, <4>2 DEF Late, Call
      <4>4. Head(Late) = Late[1]
        BY DEF Late
      <4>5. QED
        BY <4>3, <4>4
    <3>2. QED
      BY <2>1, <3>1
  <2>4. AwaitedInv'
    BY <1>1, <2>1, <2>3 DEF AwaitedInv
  <2>5. QED
    BY <1>2, <2>2, <2>4
<1>9. QED
  BY <1>6, <1>7, <1>8

\* An answer leaves no call of a thread that has not ended.
LEMMA AnswerCovers ==
    ASSUME TypeOK, CallsInv, AwaitedInv, calls # <<>>, NEW bound \in BOOLEAN, NEW a,
           Answer(bound, a), command'.call # "ended"
    PROVE  /\ command.call # "ended" /\ DOMAIN calls = {1} /\ Head(calls) = calls[1]
           /\ calls' = <<>>
           /\ table' = IF bound /\ Head(calls).type = "BindReverse" THEN table \cup {a} ELSE table
<1>1. calls \in Seq(Call) /\ Head(calls) = calls[1] /\ 1 \in DOMAIN calls
  BY DEF TypeOK, ReverseTypes
<1>2. calls' = Tail(calls)
  BY DEF Answer
<1>3. command.call # "ended"
  <2>1. CASE command.call = "ended"
    <3>1. Head(calls).late
      BY <1>1, <2>1 DEF CallsInv
    <3>2. QED
      BY <2>1, <3>1 DEF Answer
  <2>2. QED
    BY <2>1
<1>4. ~calls[1].late
  BY <1>1, <1>3 DEF AwaitedInv
<1>5. DOMAIN calls = {1} /\ Tail(calls) = <<>>
  <2>1. \A i \in DOMAIN calls : ~calls[i].late => i = Len(calls)
    BY DEF CallsInv
  <2>2. 1 = Len(calls)
    BY <1>1, <1>4, <2>1
  <2>3. DOMAIN calls = 1 .. Len(calls)
    BY <1>1
  <2>4. DOMAIN calls = {1}
    BY <2>2, <2>3
  <2>5. Tail(calls) \in Seq(Call) /\ Len(Tail(calls)) = 0
    BY <1>1, <2>2
  <2>6. Tail(calls) = <<>>
    BY <2>5, EmptySeq
  <2>7. QED
    BY <2>4, <2>6
<1>6. table' = IF bound /\ command.call = "bind" THEN table \cup {a} ELSE table
  BY <1>1, <1>4 DEF Answer
<1>7. Head(calls).type = "BindReverse" <=> command.call = "bind"
  BY <1>1, <1>3 DEF AwaitedInv
<1>8. QED
  BY <1>1, <1>2, <1>3, <1>5, <1>6, <1>7

\* What the supervisor does with the calls and with the binder it waits for.
LEMMA ServingCovers ==
    ASSUME TypeOK, CallsInv, BindersInv, OwnedInv, AwaitedInv, CoveredInv, PathsInv,
           CloseReverse \/ BindReverse \/ BinderAnswers
    PROVE  OwnedInv' /\ AwaitedInv' /\ CoveredInv' /\ PathsInv'
<1>1. /\ svc \in [Proc -> Service] /\ binder \in [Proc -> Binder] /\ awaited \in Proc \cup {None}
      /\ None \notin Proc
  BY AddressAssumption DEF TypeOK, ServiceTypes, ReverseTypes
<1>2. CASE CloseReverse
  <2>1. PICK a : a = Head(calls).address
    OBVIOUS
  <2>2. /\ awaited = None /\ awaited' = None /\ calls # <<>> /\ Answer(FALSE, None)
        /\ Head(calls).type = "CloseReverse"
        /\ svc' = [p \in Proc |-> IF svc[p].binder /\ binder[p].address = a
                                  THEN Stopped(svc[p]) ELSE svc[p]]
        /\ UNCHANGED <<binder, files>>
    BY <1>2, <2>1 DEF CloseReverse, Serves
  <2>3. PathsInv'
    BY <2>2 DEF PathsInv, Listens
  <2>4. ASSUME NEW p \in Proc
        PROVE  /\ svc'[p].binder => /\ svc'[p].up /\ svc'[p].open /\ ~svc'[p].stopped
                                    /\ binder[p].listens /\ svc[p].binder
                                    /\ binder[p].address # a
               /\ svc'[p].up => ~svc'[p].term /\ (svc'[p].binder \/ svc'[p].stopped)
    <3>1. svc[p] \in Service
      BY <1>1
    <3>2. CASE svc[p].binder /\ binder[p].address = a
      <4>1. svc'[p] = Stopped(svc[p])
        BY <2>2, <3>2
      <4>2. ~svc[p].stopped /\ ~svc[p].term
        BY <3>2 DEF OwnedInv
      <4>3. svc'[p].stopped /\ ~svc'[p].binder /\ ~svc'[p].term
        BY <3>1, <3>2, <4>1, <4>2 DEF Stopped, Service
      <4>4. QED
        BY <4>3
    <3>3. CASE ~(svc[p].binder /\ binder[p].address = a)
      <4>1. svc'[p] = svc[p]
        BY <2>2, <3>3
      <4>2. QED
        BY <1>1, <2>2, <3>3, <4>1 DEF OwnedInv
    <3>4. QED
      BY <3>2, <3>3
  <2>5. OwnedInv'
    BY <2>2, <2>4 DEF OwnedInv
  <2>6. AwaitedInv' /\ CoveredInv'
    <3>1. CASE command'.call = "ended"
      BY <2>2, <3>1 DEF AwaitedInv, CoveredInv
    <3>2. CASE command'.call # "ended"
      <4>1. /\ command.call # "ended" /\ DOMAIN calls = {1} /\ calls[1].address = a
            /\ calls' = <<>> /\ table' = table
        BY <2>1, <2>2, <3>2, AnswerCovers
      <4>2. AwaitedInv'
        BY <2>2, <4>1 DEF AwaitedInv
      <4>3. CoveredInv'
        BY <2>2, <2>4, <4>1 DEF CoveredInv
      <4>4. QED
        BY <4>2, <4>3
    <3>3. QED
      BY <3>1, <3>2
  <2>7. QED
    BY <2>3, <2>5, <2>6
<1>3. ASSUME Answer(FALSE, None), Serves("BindReverse"), UNCHANGED <<svc, awaited, binder, files>>
      PROVE  OwnedInv' /\ AwaitedInv' /\ CoveredInv' /\ PathsInv'
  <2>1. OwnedInv' /\ PathsInv'
    BY <1>3 DEF OwnedInv, PathsInv, Listens
  <2>2. CASE command'.call = "ended"
    BY <1>3, <2>1, <2>2 DEF AwaitedInv, CoveredInv, Serves
  <2>3. CASE command'.call # "ended"
    <3>1. calls # <<>> /\ Head(calls).type = "BindReverse"
      BY <1>3 DEF Serves
    <3>2. /\ command.call # "ended" /\ DOMAIN calls = {1} /\ Head(calls) = calls[1]
          /\ calls' = <<>> /\ table' = table
      BY <1>3, <2>3, <3>1, AnswerCovers
    <3>3. AwaitedInv'
      BY <1>3, <3>2 DEF AwaitedInv, Serves
    <3>4. CoveredInv'
      BY <1>3, <3>1, <3>2 DEF CoveredInv
    <3>5. QED
      BY <2>1, <3>3, <3>4
  <2>4. QED
    BY <2>2, <2>3
<1>4. ASSUME NEW p \in Proc, svc[p] = Absent, svc' = [svc EXCEPT ![p] = Started],
             Serves("BindReverse"), awaited' = p,
             binder' = [binder EXCEPT ![p] = [Unbound EXCEPT !.address = Head(calls).address]],
             UNCHANGED <<table, command, calls, files>>
      PROVE  OwnedInv' /\ AwaitedInv' /\ CoveredInv' /\ PathsInv'
  <2>1. /\ ~svc[p].up /\ ~svc[p].binder /\ ~Started.binder /\ Started.up /\ ~Started.term
    BY <1>4 DEF Absent, Started
  <2>2. /\ svc'[p] = Started
        /\ \A j \in Proc : j # p => svc'[j] = svc[j] /\ binder'[j] = binder[j]
    BY <1>1, <1>4
  <2>3. ~binder[p].listens
    BY <2>1 DEF BindersInv
  <2>4. OwnedInv'
    BY <1>1, <1>4, <2>1, <2>2 DEF OwnedInv, Serves
  <2>5. AwaitedInv'
    BY <1>4 DEF AwaitedInv, Serves
  <2>6. CoveredInv'
    BY <1>4, <2>1, <2>2 DEF CoveredInv
  <2>7. PathsInv'
    BY <1>4, <2>2, <2>3 DEF PathsInv, Listens
  <2>8. QED
    BY <2>4, <2>5, <2>6, <2>7
<1>5. CASE BindReverse
  BY <1>3, <1>4, <1>5 DEF BindReverse, Set
<1>6. ASSUME NEW p \in Proc, awaited = p, awaited' = None, UNCHANGED <<binder, files>>,
             NEW s, svc' = [svc EXCEPT ![p] = s], NEW ok \in BOOLEAN, NEW a, Answer(ok, a),
             s.binder => s.up /\ s.open /\ ~s.stopped /\ binder[p].listens /\ ok /\ a = binder[p].address,
             s.up => ~s.term /\ s.binder
      PROVE  OwnedInv' /\ AwaitedInv' /\ CoveredInv' /\ PathsInv'
  <2>1. calls # <<>> /\ Head(calls).type = "BindReverse"
    BY <1>1, <1>6 DEF AwaitedInv, TypeOK, ReverseTypes
  <2>2. svc'[p] = s /\ \A j \in Proc : j # p => svc'[j] = svc[j]
    BY <1>1, <1>6
  <2>3. OwnedInv'
    BY <1>1, <1>6, <2>2 DEF OwnedInv
  <2>4. PathsInv'
    BY <1>6 DEF PathsInv, Listens
  <2>5. CASE command'.call = "ended"
    BY <1>6, <2>3, <2>4, <2>5 DEF AwaitedInv, CoveredInv
  <2>6. CASE command'.call # "ended"
    <3>1. /\ command.call # "ended" /\ DOMAIN calls = {1} /\ calls[1].type = "BindReverse"
          /\ calls' = <<>> /\ table' = IF ok THEN table \cup {a} ELSE table
      BY <1>6, <2>1, <2>6, AnswerCovers
    <3>2. AwaitedInv'
      BY <1>6, <3>1 DEF AwaitedInv
    <3>3. \A j \in Proc : svc[j].binder => binder[j].address \in table
      BY <3>1 DEF CoveredInv
    <3>4. \A j \in Proc : svc'[j].binder => binder[j].address \in table'
      BY <1>6, <2>2, <3>1, <3>3
    <3>5. CoveredInv'
      BY <1>6, <3>4 DEF CoveredInv
    <3>6. QED
      BY <2>3, <2>4, <3>2, <3>5
  <2>7. QED
    BY <2>5, <2>6
<1>7. CASE BinderAnswers
  <2>1. PICK p \in Proc : /\ awaited = p
                         /\ \/ /\ binder[p].listens
                               /\ svc' = [svc EXCEPT ![p] = [svc[p] EXCEPT !.binder = TRUE]]
                               /\ Answer(TRUE, binder[p].address)
                            \/ /\ ~svc[p].up
                               /\ svc' = [svc EXCEPT ![p] = Stopped(svc[p])]
                               /\ Answer(FALSE, None)
                         /\ awaited' = None /\ UNCHANGED <<binder, files>>
    BY <1>7 DEF BinderAnswers, Set
  <2>2. svc[p] \in Service
    BY <1>1
  <2>3. CASE /\ binder[p].listens
             /\ svc' = [svc EXCEPT ![p] = [svc[p] EXCEPT !.binder = TRUE]]
             /\ Answer(TRUE, binder[p].address)
    <3>1. svc[p].up /\ svc[p].open /\ ~svc[p].term /\ ~svc[p].stopped
      BY <2>1, <2>3 DEF BindersInv
    <3>2. PICK s : s = [svc[p] EXCEPT !.binder = TRUE]
      OBVIOUS
    <3>3. s.up /\ s.open /\ ~s.term /\ ~s.stopped /\ s.binder
      BY <2>2, <3>1, <3>2 DEF Service
    <3>4. QED
      BY <1>6, <2>1, <2>3, <3>2, <3>3
  <2>4. CASE ~svc[p].up /\ svc' = [svc EXCEPT ![p] = Stopped(svc[p])] /\ Answer(FALSE, None)
    <3>1. ~svc[p].binder
      BY <2>4 DEF OwnedInv
    <3>2. ~Stopped(svc[p]).up /\ ~Stopped(svc[p]).binder
      BY <2>2, <2>4, <3>1 DEF Stopped, Service
    <3>3. QED
      BY <1>6, <2>1, <2>4, <3>2
  <2>5. QED
    BY <2>1, <2>3, <2>4
<1>8. QED
  BY <1>2, <1>5, <1>7

\* What the binders do.
LEMMA BinderCovers ==
    ASSUME TypeOK, BindersInv, OwnedInv, AwaitedInv, CoveredInv, PathsInv, NEW p \in Proc,
           BinderStarts(p) \/ BinderEnds(p) \/ BinderKilled(p)
    PROVE  OwnedInv' /\ AwaitedInv' /\ CoveredInv' /\ PathsInv'
<1>1. svc \in [Proc -> Service] /\ binder \in [Proc -> Binder] /\ svc[p] \in Service
  BY DEF TypeOK, ServiceTypes, ReverseTypes
<1>2. UNCHANGED <<table, command, calls, awaited>>
  BY DEF BinderStarts, BinderEnds, BinderKilled, BinderIsGone
<1>3. AwaitedInv'
  BY <1>2 DEF AwaitedInv
<1>4. ~BinderKilled(p)
  BY DEF BinderKilled, OwnedInv
<1>5. ~svc[p].binder
  BY <1>4 DEF BinderStarts, BinderEnds, OwnedInv
<1>6. ASSUME NEW b \in Address, svc' = svc, ~binder[p].listens,
             binder' = [binder EXCEPT ![p] = [address |-> b, listens |-> TRUE]],
             files' = files \cup (Paths \cap {b})
      PROVE  OwnedInv' /\ CoveredInv' /\ PathsInv'
  <2>1. /\ binder'[p] = [address |-> b, listens |-> TRUE]
        /\ \A j \in Proc : j # p => binder'[j] = binder[j]
    BY <1>1, <1>6
  <2>2. OwnedInv' /\ CoveredInv'
    BY <1>2, <1>5, <1>6, <2>1 DEF OwnedInv, CoveredInv
  <2>3. PathsInv'
    BY <1>6, <2>1 DEF PathsInv, Listens
  <2>4. QED
    BY <2>2, <2>3
<1>7. ASSUME svc' = [svc EXCEPT ![p] = [svc[p] EXCEPT !.up = FALSE]],
             binder' = [binder EXCEPT ![p] = Unbound],
             \/ ~binder[p].listens /\ files' = files
             \/ files' = files \ {binder[p].address}
      PROVE  OwnedInv' /\ CoveredInv' /\ PathsInv'
  <2>1. /\ ~svc'[p].up /\ ~svc'[p].binder
        /\ \A j \in Proc : j # p => svc'[j] = svc[j] /\ binder'[j] = binder[j]
    BY <1>1, <1>5, <1>7 DEF Service
  <2>2. OwnedInv' /\ CoveredInv'
    BY <1>2, <2>1 DEF OwnedInv, CoveredInv
  <2>3. PathsInv'
    BY <1>7, <2>1 DEF PathsInv, Listens
  <2>4. QED
    BY <2>2, <2>3
<1>8. QED
  BY <1>3, <1>4, <1>6, <1>7 DEF BinderStarts, BinderEnds, BinderIsGone, Exit, Set

LEMMA StraysStep == TypeOK /\ ListenersInv /\ StraysInv /\ [Next]_vars => StraysInv'
<1>1. ASSUME TypeOK, OwnedInv, AwaitedInv, CoveredInv, PathsInv, UNCHANGED reverseVars,
             awaited = None, Disconnect \/ \E p \in Proc : Reap(p)
      PROVE  OwnedInv' /\ AwaitedInv' /\ CoveredInv' /\ PathsInv'
  <2>1. svc \in [Proc -> Service]
    BY <1>1 DEF TypeOK, ServiceTypes
  <2>2. None \notin Proc
    BY AddressAssumption
  <2>3. AwaitedInv' /\ PathsInv'
    BY <1>1 DEF reverseVars, AwaitedInv, PathsInv, Listens
  <2>4. ASSUME NEW p \in Proc
        PROVE  /\ svc'[p].binder => svc'[p] = svc[p]
               /\ svc'[p].up => /\ svc[p].up /\ ~svc'[p].term
                                /\ svc'[p].binder \/ svc'[p].stopped
    <3>1. svc[p] \in Service /\ (svc[p].up => ~svc[p].term /\ (svc[p].binder \/ svc[p].stopped))
      BY <1>1, <2>1, <2>2 DEF OwnedInv
    <3>2. CASE svc'[p] = svc[p]
      BY <3>1, <3>2
    <3>3. CASE svc'[p] = Stopped(svc[p])
      BY <1>1, <3>1, <3>3 DEF Stopped, Service, OwnedInv
    <3>4. CASE svc'[p] = Absent
      BY <3>4 DEF Absent
    <3>5. QED
      BY <1>1, <2>1, <3>2, <3>3, <3>4 DEF Disconnect, Reap, Set
  <2>5. OwnedInv'
    BY <1>1, <2>4 DEF OwnedInv, reverseVars
  <2>6. CoveredInv'
    BY <1>1, <2>4 DEF CoveredInv, reverseVars
  <2>7. QED
    BY <2>3, <2>5, <2>6
<1>2. ASSUME TypeOK, TableInv, CallsInv, BindersInv, ReverseNext, ~overdue',
             ~overdue => OwnedInv /\ AwaitedInv /\ CoveredInv /\ PathsInv
      PROVE  OwnedInv' /\ AwaitedInv' /\ CoveredInv' /\ PathsInv'
  <2>1. ~GiveUp /\ ~BindTimeout
    <3>1. GiveUp => overdue'
      BY DEF GiveUp
    <3>2. BindTimeout => overdue'
      BY DEF BindTimeout
    <3>3. QED
      BY <1>2, <3>1, <3>2
  <2>2. ~overdue
    <3>1. (Proceed \/ Leave) => overdue' = overdue
      BY DEF Proceed, Leave
    <3>2. ASSUME NEW a, Forward(a) PROVE overdue' = overdue
      BY <3>2 DEF Forward
    <3>3. ASSUME NEW S, KillForward(S) PROVE overdue' = overdue
      BY <3>3 DEF KillForward
    <3>4. (CloseReverse \/ BindReverse \/ BinderAnswers) => overdue' = overdue
      BY DEF CloseReverse, BindReverse, BinderAnswers
    <3>5. ASSUME NEW p, BinderStarts(p) \/ BinderEnds(p) \/ BinderKilled(p)
          PROVE  overdue' = overdue
      BY <3>5 DEF BinderStarts, BinderEnds, BinderKilled, BinderIsGone
    <3>6. UNCHANGED reverseVars => overdue' = overdue
      BY DEF reverseVars
    <3>7. overdue' = overdue
      BY <1>2, <2>1, <3>1, <3>2, <3>3, <3>4, <3>5, <3>6 DEF ReverseNext
    <3>8. QED
      BY <1>2, <3>7
  <2>3. OwnedInv /\ AwaitedInv /\ CoveredInv /\ PathsInv
    BY <1>2, <2>2
  <2>4. QED
    BY <1>1, <1>2, <2>1, <2>3, CommandCovers, ServingCovers, BinderCovers DEF ReverseNext
<1>3. ASSUME StraysInv, UNCHANGED vars
      PROVE  StraysInv'
  BY <1>3 DEF vars, serviceVars, reverseVars, StraysInv, OwnedInv, AwaitedInv, CoveredInv,
     PathsInv, Listens
<1>4. ASSUME TypeOK, StraysInv, kind # "reverse", ShellNext \/ PushNext, UNCHANGED reverseVars,
             kind' = kind
      PROVE  StraysInv'
  BY <1>4, OthersListNone DEF StraysInv, reverseVars
<1>5. QED
  BY <1>2, <1>3, <1>4, KindStays DEF Next, ListenersInv, StraysInv

\* While no call and no bind outlasts its time, the supervisor keeps no binder that the
\* connection's table does not know or is about to learn of, and a path in the file
\* system has its listener (transport.rs:505, services.rs:51).
THEOREM NothingStrays == Spec => []NoStrays
<1>1. StraysInv => NoStrays
  BY DEF StraysInv, OwnedInv, CoveredInv, PathsInv, NoStrays
<1>2. QED
  BY <1>1, InitTypes, StepTypes, ListenersInit, ReverseSafe, StraysInit, StraysStep, PTL DEF Spec
=============================================================================
