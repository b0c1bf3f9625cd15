------------------------------- MODULE Reverse -------------------------------
(***************************************************************************)
(* Reverse forwarding: the connection thread keeps a table of listeners    *)
(* (Connection::reverse in src/unix/transport.rs); each is bound by a      *)
(* service process of its own, the binder (src/unix/services.rs), which    *)
(* the supervisor starts and waits for (src/unix/daemon.rs) and which      *)
(* holds the address until it is told to end.                              *)
(*                                                                         *)
(* The supervisor does nothing else while it waits for a binder.  Calls of *)
(* the connection thread are served in the order they were made; one that  *)
(* is given up after ten seconds is served all the same.                   *)
(***************************************************************************)
EXTENDS Services

CONSTANTS
    Address,        \* addresses to listen on
    Paths,          \* those that are paths of the file system
    Any,            \* tcp:0, an address of the kernel's choice
    None,           \* no address, no process
    ReverseLimit,   \* entries a table may have, 16
    MaxLate         \* bound: calls given up and not served yet

ASSUME AddressAssumption ==
    /\ Paths \subseteq Address
    /\ Any \notin Address
    /\ None \notin Address \cup {Any} \cup Proc
    /\ {ReverseLimit, MaxLate} \subseteq Nat

VARIABLES
    table,      \* reverse: the addresses that have an entry
    command,    \* what the connection thread does
    calls,      \* its requests that the supervisor has not answered
    awaited,    \* the binder the supervisor waits for, or None
    binder,     \* what each process is to bind, and whether it has
    files,      \* the paths that exist
    overdue     \* a call or a bind has outlasted its time

reverseVars == <<table, command, calls, awaited, binder, files, overdue>>

\* call: what the thread waits for or does; rest: entries it has still to remove;
\* bind: what it will bind then.
Command == [call : {"none", "next", "bind", "close", "ended"},
            rest : SUBSET Address, bind : Address \cup {Any, None}]

Call    == [type : {"BindReverse", "CloseReverse"}, address : Address \cup {Any}, late : BOOLEAN]
Binder  == {b \in [address : Address \cup {Any, None}, listens : BOOLEAN] :
                b.listens => b.address \in Address}

Unbound == [address |-> None, listens |-> FALSE]
Resting == [call |-> "none", rest |-> {}, bind |-> None]

ReverseInit ==
    /\ table = {}
    /\ command = Resting
    /\ calls = <<>>
    /\ awaited = None
    /\ binder = [p \in Proc |-> Unbound]
    /\ files = {}
    /\ overdue = FALSE

Listens(p, a) == binder[p].listens /\ binder[p].address = a

\* bind(2) would fail: a listener that lives, or the path of one that is gone.
InUse(a) == a \in files \/ \E p \in Proc : Listens(p, a)

Ask(type, a) == calls' = Append(calls, [type |-> type, address |-> a, late |-> FALSE])

-----------------------------------------------------------------------------
(* Connection::reverse_command *)

\* forward: an entry of the same name is removed first; with norebind it is an
\* error that changes nothing.
Forward(a) ==
    /\ command.call = "none"
    /\ command' = [call |-> "next", rest |-> table \cap {a}, bind |-> a]
    /\ UNCHANGED <<serviceVars, table, calls, awaited, binder, files, overdue>>

\* killforward and killforward-all
KillForward(S) ==
    /\ command.call = "none"
    /\ S # {} /\ S \subseteq table
    /\ command' = [call |-> "next", rest |-> S, bind |-> None]
    /\ UNCHANGED <<serviceVars, table, calls, awaited, binder, files, overdue>>

\* remove_reverse for the first of the rest: the entry goes, with its descriptor,
\* then its binder is told.  Without rest, the binder of the new entry is asked
\* for, within the limit.
Proceed ==
    /\ command.call = "next"
    /\ \/ \E a \in command.rest :
            /\ table' = table \ {a}
            /\ Ask("CloseReverse", a)
            /\ command' = [command EXCEPT !.call = "close", !.rest = @ \ {a}]
       \/ /\ command.rest = {}
          /\ IF command.bind # None /\ Cardinality(table) < ReverseLimit
             THEN /\ Ask("BindReverse", command.bind)
                  /\ command' = [Resting EXCEPT !.call = "bind"]
             ELSE command' = Resting /\ UNCHANGED calls
          /\ UNCHANGED table
    /\ UNCHANGED <<serviceVars, awaited, binder, files, overdue>>

\* The answer, for a thread that still waits for it: a bind that succeeded has the
\* entry made under the address that was bound.
Answer(bound, a) ==
    /\ calls' = Tail(calls)
    /\ table' = IF bound /\ ~Head(calls).late /\ command.call = "bind" THEN table \cup {a} ELSE table
    /\ command' = IF Head(calls).late THEN command
                  ELSE IF command.call = "bind" THEN Resting
                  ELSE [command EXCEPT !.call = "next"]

\* What nobody waits for any more.
Late == [i \in DOMAIN calls |-> [calls[i] EXCEPT !.late = TRUE]]

\* A call gives up after ten seconds: the command fails where it is, the request
\* is served all the same.
GiveUp ==
    /\ command.call \in {"bind", "close"}
    /\ Len(calls) <= MaxLate
    /\ command' = Resting
    /\ calls' = Late
    /\ overdue' = TRUE
    /\ UNCHANGED <<serviceVars, table, awaited, binder, files>>

\* The thread ends, and its descriptors are closed.
Leave ==
    /\ command.call # "ended"
    /\ command' = [Resting EXCEPT !.call = "ended"]
    /\ table' = {}
    /\ calls' = Late
    /\ UNCHANGED <<serviceVars, awaited, binder, files, overdue>>

-----------------------------------------------------------------------------
(* The supervisor *)

Serves(type) == awaited = None /\ calls # <<>> /\ Head(calls).type = type

\* Fault: every binder of the connection is stopped.
CloseReverse_StopsAll ==
    /\ Serves("CloseReverse")
    /\ svc' = [p \in Proc |-> IF svc[p].binder THEN Stopped(svc[p]) ELSE svc[p]]
    /\ Answer(FALSE, None)
    /\ UNCHANGED <<kind, registered, awaited, binder, files, overdue>>

\* Request::CloseReverse: the binder of that address is stopped; that it has ended
\* is not waited for.
CloseReverse ==
    /\ Serves("CloseReverse")
    /\ svc' = [p \in Proc |-> IF svc[p].binder /\ binder[p].address = Head(calls).address
                              THEN Stopped(svc[p]) ELSE svc[p]]
    /\ Answer(FALSE, None)
    /\ UNCHANGED <<kind, registered, awaited, binder, files, overdue>>

\* Request::BindReverse, Daemon::spawn_service: refused, or a binder is started and
\* waited for.
BindReverse ==
    /\ Serves("BindReverse")
    /\ \/ /\ ~registered \/ \A p \in Proc : svc[p] # Absent
          /\ Answer(FALSE, None)
          /\ UNCHANGED <<svc, awaited, binder>>
       \/ \E p \in Proc :
            /\ registered /\ svc[p] = Absent
            /\ Set(p, Started)
            /\ awaited' = p
            /\ binder' = [binder EXCEPT ![p] = [Unbound EXCEPT !.address = Head(calls).address]]
            /\ UNCHANGED <<table, command, calls>>
    /\ UNCHANGED <<kind, registered, files, overdue>>

\* The binder has answered, or has ended without.
BinderAnswers ==
    \E p \in Proc :
        /\ awaited = p
        /\ \/ /\ binder[p].listens
              /\ Set(p, [svc[p] EXCEPT !.binder = TRUE])
              /\ Answer(TRUE, binder[p].address)
           \/ /\ ~svc[p].up
              /\ Set(p, Stopped(svc[p]))
              /\ Answer(FALSE, None)
        /\ awaited' = None
        /\ UNCHANGED <<kind, registered, binder, files, overdue>>

\* Three seconds without an answer: the binder is killed, which may come too late.
BindTimeout ==
    \E p \in Proc :
        /\ awaited = p
        /\ svc[p].up /\ ~binder[p].listens
        /\ Set(p, [Stopped(svc[p]) EXCEPT !.open = FALSE])
        /\ Answer(FALSE, None)
        /\ awaited' = None
        /\ overdue' = TRUE
        /\ UNCHANGED <<kind, registered, binder, files>>

-----------------------------------------------------------------------------
(* The binders *)

\* network::reverse_listener; a binder that fails ends.
BinderStarts(p) ==
    /\ svc[p].up /\ ~binder[p].listens
    /\ LET a == binder[p].address
           free == {b \in Address : (b = a \/ (a = Any /\ b \notin Paths)) /\ ~InUse(b)}
       IN \/ \E b \in free :
                /\ binder' = [binder EXCEPT ![p] = [address |-> b, listens |-> TRUE]]
                /\ files' = files \cup (Paths \cap {b})
                /\ UNCHANGED svc
          \/ /\ free = {}
             /\ Exit(p)
             /\ binder' = [binder EXCEPT ![p] = Unbound]
             /\ UNCHANGED files
    /\ UNCHANGED <<kind, registered, table, command, calls, awaited, overdue>>

BinderIsGone(p) ==
    /\ Exit(p)
    /\ binder' = [binder EXCEPT ![p] = Unbound]
    /\ UNCHANGED <<kind, registered, table, command, calls, awaited, overdue>>

\* Fault: the path stays.
BinderEnds_KeepsPath(p) ==
    /\ svc[p].up /\ binder[p].listens /\ ~svc[p].open
    /\ BinderIsGone(p) /\ UNCHANGED files

\* The descriptor that the supervisor kept is closed: the path is removed.
BinderEnds(p) ==
    /\ svc[p].up /\ binder[p].listens /\ ~svc[p].open
    /\ files' = files \ {binder[p].address}
    /\ BinderIsGone(p)

\* SIGTERM leaves the path.
BinderKilled(p) ==
    /\ svc[p].up /\ svc[p].term
    /\ BinderIsGone(p) /\ UNCHANGED files

-----------------------------------------------------------------------------
ReverseNext ==
    \/ \E a \in Address \cup {Any} : Forward(a)
    \/ \E S \in {{a} : a \in table} \cup {table} : KillForward(S)
    \/ Proceed \/ GiveUp \/ Leave
    \/ CloseReverse \/ BindReverse \/ BinderAnswers \/ BindTimeout
    \/ \E p \in Proc : BinderStarts(p) \/ BinderEnds(p) \/ BinderKilled(p)
    \/ awaited = None /\ (Disconnect \/ \E p \in Proc : Reap(p)) /\ UNCHANGED reverseVars

-----------------------------------------------------------------------------
(* Properties *)

\* An address in the table is served by a binder that nobody has told to end, until
\* the supervisor drops the connection (transport.rs:517).
EntriesServed ==
    registered => \A a \in table : \E p \in Proc :
        Listens(p, a) /\ svc[p].up /\ ~svc[p].stopped

\* While no call was overdue, a binder that was not told to end is in the table,
\* is just being entered, or is about to be told, as long as its connection lives;
\* and a path exists only with its binder (transport.rs:505, services.rs:51).
NoStrays ==
    ~overdue =>
        /\ \A p \in Proc :
            svc[p].binder /\ command.call # "ended" =>
                \/ binder[p].address \in table
                \/ \E i \in DOMAIN calls : calls[i].address = binder[p].address
        /\ \A a \in files : \E p \in Proc : Listens(p, a)
=============================================================================
