-------------------------------- MODULE Push ---------------------------------
(***************************************************************************)
(* The file transfer service (src/unix/services/sync.rs): requests of one  *)
(* client one after the other, and in detail the one that replaces a file: *)
(* a temporary file beside it is filled from DATA frames, synced, and gets *)
(* the name.  A system call may fail, SIGTERM has its default action, and  *)
(* the power may fail at any moment.                                       *)
(***************************************************************************)
EXTENDS Services

CONSTANT InboxSize  \* frames the socket holds on the way to the service

ASSUME InboxAssumption == InboxSize \in Nat \ {0}

VARIABLES
    inbox,      \* the frames in the socket
    stage,      \* where serve is
    temp,       \* the temporary file
    target,     \* what the name holds: the file of this request or an older one
    possible,   \* what the name may hold after a power failure
    told        \* the answer the client got to its last request

pushVars == <<inbox, stage, temp, target, possible, told>>

Stages == {"request", "create", "data", "link", "permissions", "sync", "times",
           "rename", "okay", "fail", "done"}
Temps  == {"none", "partial", "whole", "synced"}
Files  == {"old", "new", "torn"}
Frames == {"SEND", "LINK", "STAT", "DATA", "DONE", "QUIT"}

PushInit ==
    /\ inbox = <<>>
    /\ stage = "request"
    /\ temp = "none"
    /\ target = "old"
    /\ possible = {"old"}
    /\ told = "none"

Running == svc[Solo].up

\* A file of the last request is an older one for the next.
Older(f) == IF f = "new" THEN "old" ELSE f

\* The next frame of the client is read; without one the end of the socket may be.
Reads(f)  == Running /\ inbox # <<>> /\ Head(inbox) = f /\ inbox' = Tail(inbox)
ReadsEnd  == Running /\ inbox = <<>> /\ ~svc[Solo].open /\ UNCHANGED inbox

\* The process ends.
Ends ==
    /\ stage' = "done"
    /\ Exit(Solo)
    /\ UNCHANGED <<kind, registered>>

Stays == UNCHANGED <<kind, registered, svc>>

-----------------------------------------------------------------------------
(* serve and handle *)

\* SEND and SND2: another file, or a symbolic link, whose target is collected
\* before anything is created.
Request ==
    /\ stage = "request"
    /\ \E f \in {"SEND", "LINK"} :
        /\ Reads(f)
        /\ stage' = IF f = "SEND" THEN "create" ELSE "link"
    /\ target' = Older(target)
    /\ possible' = {Older(f) : f \in possible}
    /\ told' = "none"
    /\ Stays
    /\ UNCHANGED temp

\* STAT, LIST and RECV with their kin change nothing; those that fail are
\* answered with FAIL, which ends the service.
Inquire ==
    /\ stage = "request"
    /\ Reads("STAT")
    /\ \/ stage' = "request" /\ told' = "answer"
       \/ stage' = "fail" /\ told' = "none"
    /\ Stays
    /\ UNCHANGED <<temp, target, possible>>

\* QUIT, and the end of the socket.
Leaves ==
    /\ stage = "request"
    /\ Reads("QUIT") \/ ReadsEnd
    /\ Ends
    /\ UNCHANGED <<temp, target, possible, told>>

\* Anything else is answered with FAIL.
Reject ==
    /\ stage = "request"
    /\ \E f \in {"DATA", "DONE"} : Reads(f)
    /\ stage' = "fail"
    /\ Stays
    /\ UNCHANGED <<temp, target, possible, told>>

-----------------------------------------------------------------------------
(* send_file *)

\* A step of send_file that may fail: the temporary file is removed then.
Step(from, to, file) ==
    /\ Running /\ stage = from
    /\ \/ stage' = to /\ temp' = file
       \/ stage' = "fail" /\ temp' = "none"
    /\ Stays
    /\ UNCHANGED <<target, possible, told>>

Create == Step("create", "data", "partial") /\ UNCHANGED inbox

\* DATA and DONE; another frame, or the end of the socket, is an error.
Data == Reads("DATA") /\ Step("data", "data", temp)
Done == Reads("DONE") /\ Step("data", "permissions", "whole")

\* Fault: the permissions are the last thing done to the file.
Permissions_Last == Step("permissions", "times", temp) /\ UNCHANGED inbox

Permissions == Step("permissions", "sync", temp) /\ UNCHANGED inbox
Sync == Step("sync", "times", "synced") /\ UNCHANGED inbox

\* A link is made when its target is complete; it has no data to be torn.
LinkData == Reads("DATA") /\ Step("link", "link", temp)
LinkDone == Reads("DONE") /\ Step("link", "times", "synced")

\* Fault: the temporary file stays.
Abort_Keeps ==
    /\ stage \in {"data", "link"}
    /\ ReadsEnd \/ \E f \in {"SEND", "LINK", "STAT", "QUIT"} : Reads(f)
    /\ stage' = "fail"
    /\ Stays
    /\ UNCHANGED <<temp, target, possible, told>>

Abort ==
    /\ stage \in {"data", "link"}
    /\ ReadsEnd \/ \E f \in {"SEND", "LINK", "STAT", "QUIT"} : Reads(f)
    /\ stage' = "fail"
    /\ temp' = "none"
    /\ Stays
    /\ UNCHANGED <<target, possible, told>>

Times == Step("times", "rename", temp) /\ UNCHANGED inbox

\* rename: the name holds the file at once; after a power failure it may hold any
\* file it has held since, the new one torn unless its data was synced.
Rename ==
    /\ Running /\ stage = "rename"
    /\ \/ /\ stage' = "okay"
          /\ temp' = "none"
          /\ target' = IF temp = "partial" THEN "torn" ELSE "new"
          /\ possible' = possible \cup {IF temp = "synced" THEN "new" ELSE "torn"}
       \/ stage' = "fail" /\ temp' = "none" /\ UNCHANGED <<target, possible>>
    /\ Stays
    /\ UNCHANGED <<inbox, told>>

\* OKAY; when the socket was shut down it cannot be sent, and the service ends.
Okay ==
    /\ Running /\ stage = "okay"
    /\ IF svc[Solo].open THEN stage' = "request" /\ told' = "okay"
                         ELSE stage' = "fail" /\ UNCHANGED told
    /\ Stays
    /\ UNCHANGED <<inbox, temp, target, possible>>

\* serve: FAIL is the last answer, if it can be sent.
Fail ==
    /\ Running /\ stage = "fail"
    /\ told' = IF svc[Solo].open THEN "fail" ELSE told
    /\ Ends
    /\ UNCHANGED <<inbox, temp, target, possible>>

-----------------------------------------------------------------------------
\* SIGTERM ends the process wherever it is.
Killed ==
    /\ Running /\ svc[Solo].term
    /\ Exit(Solo)
    /\ UNCHANGED <<kind, registered, pushVars>>

\* The disk catches up with the directory.
WriteBack ==
    /\ target \in possible
    /\ possible' = {target}
    /\ UNCHANGED <<serviceVars, inbox, stage, temp, target, told>>

\* Connection::flush_pending hands a frame of the client to the service.
Deliver(f) ==
    /\ Running /\ svc[Solo].open
    /\ Len(inbox) < InboxSize
    /\ inbox' = Append(inbox, f)
    /\ UNCHANGED <<serviceVars, stage, temp, target, possible, told>>

Transfer ==
    \/ Request \/ Inquire \/ Leaves \/ Reject
    \/ Create \/ Data \/ Done \/ Permissions \/ Sync \/ LinkData \/ LinkDone \/ Abort
    \/ Times \/ Rename \/ Okay \/ Fail

PushNext ==
    \/ Transfer
    \/ Killed
    \/ WriteBack
    \/ \E f \in Frames : Deliver(f)
    \/ (DropSocket \/ CloseService(Solo) \/ CloseDue(Solo) \/ Reap(Solo) \/ Disconnect)
        /\ UNCHANGED pushVars

-----------------------------------------------------------------------------
(* Properties *)

\* The name holds a whole file at every moment, before and after a power failure:
\* the one it held or the one that was sent, which is there once the client has
\* its OKAY (sync.rs:259, 286, 287).
TargetWhole ==
    /\ "torn" \notin possible \cup {target}
    /\ told = "okay" => target = "new"

\* A service that ends by itself leaves no temporary file (sync.rs:290); one that
\* is killed may.
NoLeftovers == stage = "done" => temp = "none"
=============================================================================
