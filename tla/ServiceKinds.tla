---------------------------- MODULE ServiceKinds ----------------------------
(* The services of a connection: one of the three kinds of process that      *)
(* services::run runs, under the supervisor's list of services.              *)
EXTENDS Shell, Push, Reverse

vars == <<serviceVars, shellVars, pushVars, reverseVars>>

Run(k, s) == ServicesInit(k, s) /\ ShellInit /\ PushInit /\ ReverseInit

NoCommand == args = CHOOSE c \in Commands : TRUE

\* services::run, by the name of the service.
Init ==
    \/ Run("shell", Started)
    \/ Run("sync", Started) /\ NoCommand
    \/ Run("reverse", Absent) /\ NoCommand

Next ==
    \/ kind = "shell" /\ ShellNext /\ UNCHANGED <<pushVars, reverseVars>>
    \/ kind = "sync" /\ PushNext /\ UNCHANGED <<shellVars, reverseVars>>
    \/ kind = "reverse" /\ ReverseNext /\ UNCHANGED <<shellVars, pushVars>>

Spec == Init /\ [][Next]_vars

ServiceTypes ==
    /\ kind \in {"shell", "sync", "reverse"}
    /\ registered \in BOOLEAN
    /\ svc \in [Proc -> Service]

ShellTypes ==
    /\ args \in Commands
    /\ at \in [Thread -> Places]
    /\ part \in 1..3
    /\ lock \in Writer \cup {"none"}
    /\ wire \in [by : Writer \cup {"none"}, part : 1..3, unread : 0..SocketSize, shut : BOOLEAN]
    /\ pipe \in [Channel -> 0..PipeSize]
    /\ group \in [Member -> {"none", "running", "zombie", "gone"}]

PushTypes ==
    /\ inbox \in Seq(Frames) /\ Len(inbox) <= InboxSize
    /\ stage \in Stages /\ temp \in Temps /\ target \in Files
    /\ possible \in SUBSET Files
    /\ told \in {"none", "answer", "okay", "fail"}

ReverseTypes ==
    /\ table \in SUBSET Address
    /\ command \in Command
    /\ calls \in Seq(Call)
    /\ awaited \in Proc \cup {None} /\ (awaited # None => calls # <<>>)
    /\ binder \in [Proc -> Binder]
    /\ files \in SUBSET Paths
    /\ overdue \in BOOLEAN

TypeOK == ServiceTypes /\ ShellTypes /\ PushTypes /\ ReverseTypes

Shells(A)   == kind = "shell" /\ A /\ UNCHANGED <<pushVars, reverseVars>>
Pushes(A)   == kind = "sync" /\ A /\ UNCHANGED <<shellVars, reverseVars>>
Reverses(A) == kind = "reverse" /\ A /\ UNCHANGED <<shellVars, pushVars>>

\* The worker tells the supervisor of a stream that is gone; the supervisor's loop
\* comes round; SIGTERM and the end of a descriptor take effect; a connection whose
\* thread has ended, or that was dropped, loses its sockets.
Fairness ==
    /\ WF_vars((CloseService(Solo) \/ CloseDue(Solo) \/ (~registered /\ DropSocket))
               /\ UNCHANGED <<shellVars, pushVars, reverseVars>>)
    /\ WF_vars(Shells(Terminate)) /\ WF_vars(Pushes(Killed))
    /\ \A p \in Proc : WF_vars(Reverses(BinderEnds(p) \/ BinderKilled(p)))

\* The threads of a shell run, and the connection reads.
Reading ==
    /\ WF_vars(Shells(Main))
    /\ \A t \in Writer : WF_vars(Shells(Writes(t)))
    /\ \A c \in Channel : WF_vars(Shells(ReadPipe(c)))
    /\ WF_vars(Shells(ConnectionReads \/ ConnectionEnds))

LiveSpec == Spec /\ Fairness /\ Reading

-----------------------------------------------------------------------------
(* Properties *)

\* A service that has lost its stream or its connection ends, whatever it does and
\* whatever its shell or its client do (daemon.rs:333, 451, 667).
ServicesEnd ==
    \A p \in Proc : svc[p].up /\ (~svc[p].open \/ ~registered) ~> ~svc[p].up

\* A shell that is over, with nobody left to write its output, ends the service,
\* even when input for it is still waiting (services.rs:384).
OverShellsEnd ==
    svc[Solo].up /\ at["main"] = "wait" /\ ~HoldsOutput ~> ~svc[Solo].up
=============================================================================
