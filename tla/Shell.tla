-------------------------------- MODULE Shell --------------------------------
(***************************************************************************)
(* A shell service (src/unix/services.rs): the main thread waits for the   *)
(* shell, one thread per output pipe forwards what the shell and its       *)
(* descendants write, one thread forwards what the client types.  The      *)
(* threads share the socket; a mutex keeps their frames apart.             *)
(*                                                                         *)
(* The shell and one descendant of it make up the process group.  A chunk  *)
(* of output or input counts one.  A frame of the shell protocol is        *)
(* written in three parts: channel, length, data.                          *)
(***************************************************************************)
EXTENDS Services

CONSTANTS
    Commands,   \* the commands that are run
    PipeSize,   \* chunks a pipe holds
    SocketSize  \* parts the socket holds on the way to the client

ASSUME SizesAssumption ==
    /\ PipeSize \in Nat \ {0}
    /\ SocketSize \in Nat \ {0}
    /\ Commands \subseteq [v2 : BOOLEAN, pty : BOOLEAN, deaf : SUBSET {"shell", "job"},
                            quiet : BOOLEAN]

VARIABLES
    args,   \* ShellArgs, and how the command behaves: deaf is who ignores SIGHUP,
            \* quiet a descendant without output pipes
    at,     \* where each thread is
    part,   \* the next part of the frame that is being written
    lock,   \* the thread that has locked the writer, or "none"
    wire,   \* the last part written to the socket, the parts unread in it, and
            \* whether the service has shut it down
    pipe,   \* chunks unread in each output pipe
    group   \* the processes of the group

shellVars == <<args, at, part, lock, wire, pipe, group>>

Channel == {"stdout", "stderr"}
Member  == {"shell", "job"}
Thread  == Channel \cup {"main", "input"}
Places  == {"start", "spawned", "off", "wait", "join", "lock", "write", "shutdown",
            "last", "read", "eof", "done", "failed", "killed"}

ShellInit ==
    /\ args \in Commands
    /\ at = [t \in Thread |-> IF t = "main" THEN "start" ELSE "off"]
    /\ part = 1
    /\ lock = "none"
    /\ wire = [by |-> "none", part |-> 3, unread |-> 0, shut |-> FALSE]
    /\ pipe = [c \in Channel |-> 0]
    /\ group = [m \in Member |-> "none"]

Me == svc[Solo]
Go(t, place) == at' = [at EXCEPT ![t] = place]
Runs(m) == group[m] = "running"

\* With a terminal both outputs are one.
Outputs == IF args.pty THEN {"stdout"} ELSE Channel

\* Someone may still write to an output pipe, or read from the other one.  A
\* terminal is hung up with the shell, its session leader.
HoldsOutput == Runs("shell") \/ (Runs("job") /\ ~args.quiet /\ ~args.pty)
HoldsInput  == Runs("shell") \/ (Runs("job") /\ ~args.pty)

\* The group after the processes S have ended: a session leader takes along who
\* does not ignore SIGHUP; a shell stays a zombie until it is waited for.
Kill(S) ==
    LET dead == IF "shell" \in S /\ Runs("shell") /\ args.pty
                THEN S \cup (Member \ args.deaf) ELSE S
    IN [m \in Member |-> IF ~(m \in dead /\ Runs(m)) THEN group[m]
                         ELSE IF m = "shell" THEN "zombie" ELSE "gone"]

\* kill(-pid, SIGHUP)
HangUp == group' = Kill(Member \ args.deaf)

\* The process ends as its main thread is at `place`, with its threads and pipes.
Quit(place) ==
    /\ Exit(Solo)
    /\ at' = [t \in Thread |-> IF t = "main" THEN place ELSE "off"]
    /\ lock' = "none"
    /\ pipe' = [c \in Channel |-> 0]
    /\ UNCHANGED <<kind, registered, args, part, wire>>

-----------------------------------------------------------------------------
(* The main thread *)

SpawnShell ==
    /\ Me.up /\ at["main"] = "start"
    /\ group' = [group EXCEPT !["shell"] = "running"]
    /\ Go("main", "spawned")
    /\ UNCHANGED <<serviceVars, args, part, lock, wire, pipe>>

\* CHILD is set, then the threads are started.
StartThreads ==
    /\ Me.up /\ at["main"] = "spawned"
    /\ at' = [t \in Thread |-> IF t = "main" THEN "wait"
                               ELSE IF t = "input" \/ t \in Outputs THEN "read"
                               ELSE "done"]
    /\ UNCHANGED <<serviceVars, args, part, lock, wire, pipe, group>>

WaitChild ==
    /\ Me.up /\ at["main"] = "wait"
    /\ group["shell"] = "zombie"
    /\ group' = [group EXCEPT !["shell"] = "gone"]
    /\ Go("main", "join")
    /\ UNCHANGED <<serviceVars, args, part, lock, wire, pipe>>

\* Fault: the exit code does not wait for the readers.
JoinReaders_Skipped ==
    /\ Me.up /\ at["main"] = "join"
    /\ Go("main", IF args.v2 THEN "lock" ELSE "shutdown")
    /\ UNCHANGED <<serviceVars, args, part, lock, wire, pipe, group>>

\* All readers are joined; only the shell protocol has an exit code to send.
JoinReaders ==
    /\ Me.up /\ at["main"] = "join"
    /\ \A c \in Channel : at[c] = "done"
    /\ Go("main", IF args.v2 THEN "lock" ELSE "shutdown")
    /\ UNCHANGED <<serviceVars, args, part, lock, wire, pipe, group>>

\* Fault: the socket is left to the exit of the process.
Shutdown_Skipped ==
    /\ Me.up /\ at["main"] = "shutdown"
    /\ Go("main", "last")
    /\ UNCHANGED <<serviceVars, args, part, lock, wire, pipe, group>>

Shutdown ==
    /\ Me.up /\ at["main"] = "shutdown"
    /\ wire' = [wire EXCEPT !.shut = TRUE]
    /\ Go("main", "last")
    /\ UNCHANGED <<serviceVars, args, part, lock, pipe, group>>

\* The input thread is joined, the rest of the group killed, the process exits.
Finish ==
    /\ Me.up /\ at["main"] = "last"
    /\ at["input"] = "done"
    /\ group' = Kill(Member)
    /\ Quit("done")

\* terminate: SIGTERM takes the group along, wherever the threads are, once CHILD
\* is set; before, only the shell ends with its parent (PR_SET_PDEATHSIG).
Terminate ==
    /\ Me.up /\ Me.term
    /\ Quit("killed")
    /\ group' = Kill(IF at["main"] = "spawned" THEN {"shell"} ELSE Member)

-----------------------------------------------------------------------------
(* Writing to the socket: the readers, and the main thread for the exit code *)

Writer == Channel \cup {"main"}

\* How a writer goes on after its frame.
After(t) == IF t = "main" THEN "shutdown" ELSE "read"

\* output: a chunk is read, or the end of the pipe.
ReadPipe(c) ==
    /\ Me.up /\ at[c] = "read"
    /\ \/ pipe[c] > 0 /\ pipe' = [pipe EXCEPT ![c] = @ - 1] /\ Go(c, "lock")
       \/ pipe[c] = 0 /\ ~HoldsOutput /\ Go(c, "done") /\ UNCHANGED pipe
    /\ UNCHANGED <<serviceVars, args, part, lock, wire, group>>

\* Fault: every writer goes ahead.
Lock_Ignored(t) ==
    /\ Me.up /\ at[t] = "lock"
    /\ lock' = t
    /\ part' = IF args.v2 THEN 1 ELSE 3
    /\ Go(t, "write")
    /\ UNCHANGED <<serviceVars, args, wire, pipe, group>>

Lock(t) ==
    /\ Me.up /\ at[t] = "lock"
    /\ lock = "none"
    /\ lock' = t
    /\ part' = IF args.v2 THEN 1 ELSE 3
    /\ Go(t, "write")
    /\ UNCHANGED <<serviceVars, args, wire, pipe, group>>

\* shell_frame and write_all: part by part as the socket has room; the guard of
\* the mutex is dropped with the last part.
WritePart(t) ==
    /\ Me.up /\ at[t] = "write"
    /\ Me.open
    /\ wire.unread < SocketSize
    /\ wire' = [wire EXCEPT !.by = t, !.part = part, !.unread = @ + 1]
    /\ IF part < 3
       THEN part' = part + 1 /\ UNCHANGED <<at, lock>>
       ELSE Go(t, After(t)) /\ lock' = "none" /\ UNCHANGED part
    /\ UNCHANGED <<serviceVars, args, pipe, group>>

\* The socket was shut down: a reader gives up; an exit code that cannot be sent
\* ends the process there and then.
WriteFails(t) ==
    /\ Me.up /\ at[t] = "write"
    /\ ~Me.open
    /\ IF t = "main"
       THEN Quit("failed")
       ELSE Go(t, "done") /\ lock' = "none" /\ UNCHANGED <<serviceVars, args, part, wire, pipe>>
    /\ UNCHANGED group

-----------------------------------------------------------------------------
(* The input thread *)

\* input: a frame of input, of the end of input, of the size of the terminal, or one
\* that is not allowed; plain input is nothing but data.
ReadFrame(f) ==
    /\ Me.up /\ at["input"] = "read"
    /\ f = "data" \/ args.v2
    /\ Go("input", CASE f = "data" -> "write"
                     [] f = "size" -> "read"
                     [] f = "end"  -> IF args.pty THEN "eof" ELSE "done"
                     [] f = "bad"  -> "done")
    /\ IF f = "bad" THEN HangUp ELSE UNCHANGED group
    /\ UNCHANGED <<serviceVars, args, part, lock, wire, pipe>>

\* The end of the socket: an error of the shell protocol, else the end of the input.
ReadEnd ==
    /\ Me.up /\ at["input"] = "read"
    /\ ~Me.open \/ wire.shut
    /\ Go("input", "done")
    /\ IF args.v2 THEN HangUp ELSE UNCHANGED group
    /\ UNCHANGED <<serviceVars, args, part, lock, wire, pipe>>

\* write_all to the shell: it blocks while nobody reads the full pipe, and fails when
\* nobody holds it.  At the end of a terminal's input, its end-of-file character.
WriteStdin ==
    /\ Me.up /\ at["input"] \in {"write", "eof"}
    /\ IF HoldsInput
       THEN Go("input", IF at["input"] = "eof" THEN "done" ELSE "read") /\ UNCHANGED group
       ELSE Go("input", "done") /\ HangUp
    /\ UNCHANGED <<serviceVars, args, part, lock, wire, pipe>>

-----------------------------------------------------------------------------
(* The command, and the connection that reads *)

Fork ==
    /\ Runs("shell") /\ group["job"] = "none"
    /\ group' = [group EXCEPT !["job"] = "running"]
    /\ UNCHANGED <<serviceVars, args, at, part, lock, wire, pipe>>

MemberExits(m) ==
    /\ Runs(m)
    /\ group' = Kill({m})
    /\ UNCHANGED <<serviceVars, args, at, part, lock, wire, pipe>>

\* Output to a pipe whose reader has ended goes nowhere.
MemberWrites(c) ==
    /\ Me.up /\ HoldsOutput /\ c \in Outputs /\ at[c] # "done"
    /\ pipe[c] < PipeSize
    /\ pipe' = [pipe EXCEPT ![c] = @ + 1]
    /\ UNCHANGED <<serviceVars, args, at, part, lock, wire, group>>

ConnectionReads ==
    /\ Me.open
    /\ wire.unread > 0
    /\ wire' = [wire EXCEPT !.unread = @ - 1]
    /\ UNCHANGED <<serviceVars, args, at, part, lock, pipe, group>>

\* The connection reads the end of the output and closes the stream.
ConnectionEnds ==
    /\ wire.shut \/ ~Me.up
    /\ wire.unread = 0
    /\ DropSocket
    /\ UNCHANGED shellVars

-----------------------------------------------------------------------------
(* Properties *)

\* Parts of a frame follow one another: no writer puts a part of its own between
\* those of another (services.rs:200, protocol.rs:91).
FramesWhole ==
    [][wire'.unread > wire.unread /\ args.v2 =>
        IF wire'.part = 1 THEN wire.part = 3
                          ELSE wire'.by = wire.by /\ wire'.part = wire.part + 1]_shellVars

\* The exit code is sent when no output is left unread or unsent and none can
\* come any more, and nothing is sent after it (services.rs:384).
ExitCodeLast ==
    [][/\ wire.by = "main" => wire'.by = "main"
       /\ wire'.by = "main" =>
            /\ ~HoldsOutput
            /\ \A c \in Channel : pipe[c] = 0 /\ at[c] \notin {"lock", "write"}]_shellVars

\* A service that has ended by itself has left no process of its group behind
\* (services.rs:398).
GroupCleaned == at["main"] \in {"done", "failed"} => ~Runs("job")

-----------------------------------------------------------------------------
Main == SpawnShell \/ StartThreads \/ WaitChild \/ JoinReaders \/ Shutdown \/ Finish
Writes(t) == Lock(t) \/ WritePart(t) \/ WriteFails(t)

ShellNext ==
    \/ Main \/ Terminate
    \/ \E t \in Writer : Writes(t)
    \/ \E c \in Channel : ReadPipe(c) \/ MemberWrites(c)
    \/ \E f \in {"data", "end", "size", "bad"} : ReadFrame(f)
    \/ ReadEnd \/ WriteStdin
    \/ Fork
    \/ \E m \in Member : MemberExits(m)
    \/ ConnectionReads \/ ConnectionEnds
    \/ (DropSocket \/ CloseService(Solo) \/ CloseDue(Solo) \/ Reap(Solo) \/ Disconnect)
        /\ UNCHANGED shellVars
=============================================================================
