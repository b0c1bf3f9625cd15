------------------------------ MODULE Pairing -------------------------------
(***************************************************************************)
(* The pairing window: opened, counted and closed by the root supervisor   *)
(* (src/unix/daemon.rs), served by the network worker (src/unix/worker.rs) *)
(* one attempt at a time, each in a thread of its own (src/pairing.rs).    *)
(* The two sides hear of each other through the socket pair only, so the   *)
(* supervisor may have closed a window that the worker still serves, and a *)
(* thread of an old window may report long after.                          *)
(*                                                                         *)
(* Attempts are numbered in the order the worker accepts them.  Of the     *)
(* key exchange only its outcome is kept: a client may know the code of    *)
(* the window and prove it, and any client may fail.                       *)
(***************************************************************************)
EXTENDS Naturals, Sequences, FiniteSets

CONSTANTS
    Host,           \* host keys
    None,           \* no window
    MaxHosts,       \* config::MAX_HOSTS
    MaxFailures,    \* config::MAX_PAIR_FAILURES
    MaxEpochs,      \* bound: windows
    MaxAttempts,    \* bound: attempts
    MaxFaults       \* bound: revocations, failed starts of a window, deaths and
                    \* replacements of the worker

\* expired: now >= expires.  noticed: a result was handled since, so that the next
\* pass of the loop closes the window before it reads another.
Window == [epoch : Nat, failures : Nat, expired : BOOLEAN, noticed : BOOLEAN]

ASSUME ConstantsAssumption ==
    /\ None \notin Host \cup Window
    /\ {MaxHosts, MaxFailures, MaxEpochs, MaxAttempts, MaxFaults} \subseteq Nat
    /\ MaxFailures # 0

Attempt == 1..MaxAttempts
Epoch   == 1..MaxEpochs

VARIABLES
    \* the supervisor
    hosts,      \* store.hosts
    window,     \* window, or None
    epoch,      \* epoch of the last window
    \* the network worker's main thread
    alive,      \* the worker process exists
    served,     \* pair: the epoch of its window, 0 for no window
    listening,  \* the window has listeners
    active,     \* the attempt in progress, 0 for none
    \* its pairing threads
    accepted,   \* the number of attempts so far
    of,         \* the window each was accepted in
    phase,      \* where it is
    answer,     \* what the main thread handed to its call
    cut,        \* its socket was shut down
    \* the socket pair
    toSup, toWorker,
    \* history
    committed,  \* the attempts whose key was saved
    told,       \* the attempts whose client was told that it is paired
    late,       \* a call outlasted its ten seconds, or a window its five minutes
    faults      \* bounded events so far

supVars    == <<hosts, window, epoch>>
mainVars   == <<alive, served, listening, active>>
threadVars == <<accepted, of, phase, answer, cut>>
history    == <<committed, told, late>>
vars == <<supVars, mainVars, threadVars, toSup, toWorker, history, faults>>

Phases == {"none", "talking", "committing", "telling", "failing", "done"}

Result  == [attempt : Attempt, epoch : Epoch, key : Host \cup {None}]
Message == [type : {"PairStart"}, epoch : Epoch]
      \cup [type : {"PairStop", "PairCommitted"}]
      \cup [type : {"Reply"}, attempt : Attempt, commit : BOOLEAN, ok : BOOLEAN]

\* The variables have the types of the Rust structures they stand for, and the
\* failures of an open window stay below the limit.
TypeOK ==
    /\ hosts \in SUBSET Host
    /\ window \in Window \cup {None}
    /\ window # None => window.epoch = epoch /\ window.failures < MaxFailures
    /\ epoch \in 0..MaxEpochs
    /\ alive \in BOOLEAN
    /\ served \in 0..epoch
    /\ listening \in BOOLEAN
    /\ active \in 0..accepted
    /\ accepted \in 0..MaxAttempts
    /\ of \in [Attempt -> 0..epoch]
    /\ phase \in [Attempt -> Phases]
    /\ answer \in [Attempt -> {"none", "ok", "refused"}]
    /\ cut \in SUBSET Attempt
    /\ toSup \in Seq(Result)
    /\ toWorker \in Seq(Message)
    /\ committed \in SUBSET Attempt
    /\ told \in SUBSET Attempt
    /\ late \in BOOLEAN
    /\ faults \in Nat

-----------------------------------------------------------------------------
(* Helpers *)

Fault == faults < MaxFaults /\ faults' = faults + 1

\* The threads that still run.
Running == {a \in Attempt : phase[a] \notin {"none", "done"}}

\* What the supervisor sends is lost when the worker is dead.
Sent(messages) == toWorker' = IF alive THEN toWorker \o messages ELSE toWorker

PairStop == [type |-> "PairStop"]
Reply(r, ok) ==
    [type |-> "Reply", attempt |-> r.attempt, commit |-> r.key # None, ok |-> ok]

\* No worker process: its threads are gone with it.
NoWorker ==
    /\ served' = 0 /\ listening' = FALSE /\ active' = 0
    /\ phase' = [a \in Attempt |-> IF phase[a] = "none" THEN "none" ELSE "done"]
    /\ answer' = [a \in Attempt |-> "none"]
    /\ cut' = {}
    /\ toWorker' = <<>>
    /\ UNCHANGED <<accepted, of>>

-----------------------------------------------------------------------------
Init ==
    /\ hosts \in SUBSET Host /\ Cardinality(hosts) <= MaxHosts
    /\ window = None /\ epoch = 0
    /\ alive = TRUE
    /\ served = 0 /\ listening = FALSE /\ active = 0
    /\ accepted = 0
    /\ of = [a \in Attempt |-> 0]
    /\ phase = [a \in Attempt |-> "none"]
    /\ answer = [a \in Attempt |-> "none"]
    /\ cut = {}
    /\ toSup = <<>> /\ toWorker = <<>>
    /\ committed = {} /\ told = {} /\ late = FALSE
    /\ faults = 0

-----------------------------------------------------------------------------
(* The supervisor *)

\* Control::PairStart: the old window goes first; a new one is there only when
\* its listeners were bound and the worker got the message.
OpenWindow ==
    /\ Cardinality(hosts) < MaxHosts
    /\ \/ /\ Fault
          /\ window' = None
          /\ Sent(<<PairStop>>)
          /\ UNCHANGED epoch
       \/ /\ alive /\ epoch < MaxEpochs
          /\ epoch' = epoch + 1
          /\ window' = [epoch |-> epoch + 1, failures |-> 0, expired |-> FALSE,
                         noticed |-> FALSE]
          /\ UNCHANGED faults
          /\ Sent(<<PairStop, [type |-> "PairStart", epoch |-> epoch + 1]>>)
    /\ UNCHANGED <<hosts, mainVars, threadVars, toSup, history>>

\* Five minutes have passed.
ExpireWindow ==
    /\ window # None
    /\ window' = [window EXCEPT !.expired = TRUE]
    /\ late' = TRUE
    /\ UNCHANGED <<hosts, epoch, mainVars, threadVars, toSup, toWorker,
                   committed, told, faults>>

\* Fault: the window of the supervisor goes without a word to the worker.
CloseWindow_Silently ==
    /\ window # None
    /\ window' = None
    /\ UNCHANGED <<hosts, epoch, mainVars, threadVars, toSup, toWorker,
                   history, faults>>

\* Control::PairStop, and the check of the window's age: Daemon::pair_stop.
CloseWindow ==
    /\ window # None
    /\ window' = None
    /\ Sent(<<PairStop>>)
    /\ UNCHANGED <<hosts, epoch, mainVars, threadVars, toSup, history, faults>>

\* Fault: any open window will do.
Accepts_AnyWindow(r) ==
    window # None /\ ~window.expired /\ window.failures < MaxFailures

\* The window a result belongs to is still open.
Accepts(r) ==
    /\ window # None
    /\ window.epoch = r.epoch /\ ~window.expired /\ window.failures < MaxFailures

\* A result whose window is over, or whose key cannot be saved.
RefuseResult(r) ==
    /\ Accepts(r) => r.key # None
    /\ window' = IF window # None /\ window.expired
                 THEN [window EXCEPT !.noticed = TRUE]
                 ELSE window
    /\ Sent(<<Reply(r, FALSE)>>)
    /\ UNCHANGED <<hosts, committed>>

\* A key: saved if there is room, and the window is over, before the thread hears
\* of it.
CommitResult(r) ==
    /\ Accepts(r) /\ r.key # None
    /\ r.key \in hosts \/ Cardinality(hosts) < MaxHosts
    /\ hosts' = hosts \cup {r.key}
    /\ committed' = committed \cup {r.attempt}
    /\ window' = None
    /\ Sent(<<[type |-> "PairCommitted"], Reply(r, TRUE)>>)

\* Fault: a failure is answered and not counted.
CountResult_Uncounted(r) ==
    /\ Accepts(r) /\ r.key = None
    /\ Sent(<<Reply(r, TRUE)>>)
    /\ UNCHANGED <<hosts, window, committed>>

\* A failure: counted, and the last one closes the window.
CountResult(r) ==
    /\ Accepts(r) /\ r.key = None
    /\ IF window.failures + 1 >= MaxFailures
       THEN window' = None /\ Sent(<<PairStop, Reply(r, TRUE)>>)
       ELSE /\ window' = [window EXCEPT !.failures = @ + 1]
            /\ Sent(<<Reply(r, TRUE)>>)
    /\ UNCHANGED <<hosts, committed>>

\* Request::PairResult, one in each pass of the loop.
HandleResult ==
    /\ toSup # <<>>
    /\ window # None => ~window.noticed
    /\ toSup' = Tail(toSup)
    /\ \/ RefuseResult(Head(toSup))
       \/ CommitResult(Head(toSup))
       \/ CountResult(Head(toSup))
    /\ UNCHANGED <<epoch, mainVars, threadVars, told, late, faults>>

\* Control::Revoke.
Revoke(h) ==
    /\ Fault
    /\ h \in hosts
    /\ hosts' = hosts \ {h}
    /\ UNCHANGED <<window, epoch, mainVars, threadVars, toSup, toWorker, history>>

\* stop_worker and the start of another: for a configuration change, a rotation,
\* or the closed socket of a dead worker.  The window goes with the worker.
ReplaceWorker ==
    /\ Fault \/ (~alive /\ UNCHANGED faults)
    /\ window' = None
    /\ alive' = TRUE
    /\ NoWorker
    /\ toSup' = <<>>
    /\ UNCHANGED <<hosts, epoch, history>>

-----------------------------------------------------------------------------
(* The network worker's main thread *)

\* The worker dies; what it has sent stays in the socket.
WorkerDies ==
    /\ Fault
    /\ alive
    /\ alive' = FALSE
    /\ NoWorker
    /\ UNCHANGED <<supVars, toSup, history>>

\* Fault: a dropped window leaves its attempt alone.
DropWindow_LeavesAttempt == UNCHANGED cut

\* PairWindow::drop, when the window is replaced or removed.
DropWindow == cut' = cut \cup ({active} \cap Running)

ReceiveStart(m) ==
    /\ m.type = "PairStart"
    /\ DropWindow
    /\ served' = m.epoch /\ listening' = TRUE /\ active' = 0
    /\ UNCHANGED answer

ReceiveStop(m) ==
    /\ m.type = "PairStop"
    /\ DropWindow
    /\ served' = 0 /\ listening' = FALSE /\ active' = 0
    /\ UNCHANGED answer

\* Fault: the listeners stay until the supervisor closes the window.
ReceiveCommitted_KeepsListening(m) ==
    /\ m.type = "PairCommitted"
    /\ UNCHANGED <<served, listening, active, cut, answer>>

\* PairCommitted: the listeners and the code go, the thread may finish.
ReceiveCommitted(m) ==
    /\ m.type = "PairCommitted"
    /\ listening' = FALSE
    /\ UNCHANGED <<served, active, cut, answer>>

\* Reply: for the call it answers, if that still waits.
ReceiveReply(m) ==
    /\ m.type = "Reply"
    /\ answer' = IF phase[m.attempt] = (IF m.commit THEN "committing" ELSE "failing")
                 THEN [answer EXCEPT ![m.attempt] = IF m.ok THEN "ok" ELSE "refused"]
                 ELSE answer
    /\ UNCHANGED <<served, listening, active, cut>>

Receive ==
    /\ toWorker # <<>>
    /\ toWorker' = Tail(toWorker)
    /\ \/ ReceiveStart(Head(toWorker))
       \/ ReceiveStop(Head(toWorker))
       \/ ReceiveCommitted(Head(toWorker))
       \/ ReceiveReply(Head(toWorker))
    /\ UNCHANGED <<supVars, alive, accepted, of, phase, toSup, history, faults>>

\* One attempt at a time.
AcceptAttempt ==
    /\ listening /\ active = 0
    /\ accepted < MaxAttempts
    /\ accepted' = accepted + 1
    /\ active' = accepted'
    /\ of' = [of EXCEPT ![accepted'] = served]
    /\ phase' = [phase EXCEPT ![accepted'] = "talking"]
    /\ UNCHANGED <<supVars, alive, served, listening, answer, cut, toSup,
                   toWorker, history, faults>>

\* The thread of the attempt is finished.
ReapAttempt ==
    /\ active # 0 /\ active \notin Running
    /\ active' = 0
    /\ UNCHANGED <<supVars, alive, served, listening, threadVars, toSup, toWorker,
                   history, faults>>

\* Twenty seconds are enough.
CutAttempt ==
    /\ active \in Running \ cut
    /\ cut' = cut \cup {active}
    /\ UNCHANGED <<supVars, mainVars, accepted, of, phase, answer,
                   toSup, toWorker, history, faults>>

-----------------------------------------------------------------------------
(* A pairing thread *)

\* The step of one thread: its next phase, and the result it reports, if any.
Proceed(a, next, results) ==
    /\ phase' = [phase EXCEPT ![a] = next]
    /\ answer' = [answer EXCEPT ![a] = "none"]
    /\ cut' = IF next = "done" THEN cut \ {a} ELSE cut
    /\ toSup' = toSup \o results
    /\ UNCHANGED <<supVars, mainVars, accepted, of, toWorker, committed, faults>>

Failure(a) == [attempt |-> a, epoch |-> of[a], key |-> None]

\* Fault: success is sent to the client before the key is saved.
Prove_TellsFirst(a, h) ==
    /\ phase[a] = "talking" /\ a \notin cut
    /\ Proceed(a, "committing", <<[attempt |-> a, epoch |-> of[a], key |-> h]>>)
    /\ told' = told \cup {a}
    /\ UNCHANGED late

\* The key exchange succeeds and the host names its key: PairResult with a key.
Prove(a, h) ==
    /\ phase[a] = "talking" /\ a \notin cut
    /\ Proceed(a, "committing", <<[attempt |-> a, epoch |-> of[a], key |-> h]>>)
    /\ UNCHANGED <<told, late>>

\* A wrong code, a malformed packet, a client that is gone, a socket shut down.
Fail(a) ==
    /\ phase[a] = "talking"
    /\ Proceed(a, "failing", <<Failure(a)>>)
    /\ UNCHANGED <<told, late>>

\* The answer to the key: on success the client is told next.
CommitAnswered(a) ==
    /\ phase[a] = "committing"
    /\ answer[a] # "none"
    /\ IF answer[a] = "ok" THEN Proceed(a, "telling", <<>>)
                           ELSE Proceed(a, "failing", <<Failure(a)>>)
    /\ UNCHANGED <<told, late>>

\* The device's PeerInfo, which ends the exchange.
Tell(a) ==
    /\ phase[a] = "telling"
    /\ a \notin cut
    /\ told' = told \cup {a}
    /\ UNCHANGED late
    /\ Proceed(a, "done", <<>>)

TellFails(a) ==
    /\ phase[a] = "telling"
    /\ Proceed(a, "failing", <<Failure(a)>>)
    /\ UNCHANGED <<told, late>>

\* The answer to a failure is not looked at.
FailureAnswered(a) ==
    /\ phase[a] = "failing"
    /\ answer[a] # "none"
    /\ Proceed(a, "done", <<>>)
    /\ UNCHANGED <<told, late>>

\* rx.recv_timeout: a key that was not confirmed is a failure to the client.
CallTimeout(a) ==
    /\ answer[a] = "none"
    /\ \/ phase[a] = "committing" /\ Proceed(a, "failing", <<Failure(a)>>)
       \/ phase[a] = "failing" /\ Proceed(a, "done", <<>>)
    /\ late' = TRUE
    /\ UNCHANGED told

Thread(a) ==
    \/ \E h \in Host : Prove(a, h)
    \/ Fail(a)
    \/ CommitAnswered(a)
    \/ Tell(a)
    \/ TellFails(a)
    \/ FailureAnswered(a)
    \/ CallTimeout(a)

-----------------------------------------------------------------------------
Next ==
    \/ OpenWindow
    \/ ExpireWindow
    \/ CloseWindow
    \/ HandleResult
    \/ \E h \in Host : Revoke(h)
    \/ ReplaceWorker
    \/ WorkerDies
    \/ Receive
    \/ AcceptAttempt
    \/ ReapAttempt
    \/ CutAttempt
    \/ \E a \in Attempt : Thread(a)

Spec == Init /\ [][Next]_vars

\* Both loops come round, the supervisor finds that a window has expired, twenty
\* seconds pass, and a thread goes on when it can.
Fairness ==
    /\ WF_vars(HandleResult)
    /\ WF_vars(window # None /\ window.expired /\ CloseWindow)
    /\ WF_vars(Receive)
    /\ WF_vars(CutAttempt)
    /\ \A a \in Attempt :
        /\ WF_vars(a \in cut /\ Fail(a))
        /\ WF_vars(CommitAnswered(a))
        /\ WF_vars(TellFails(a))
        /\ WF_vars(FailureAnswered(a))

LiveSpec == Spec /\ Fairness

-----------------------------------------------------------------------------
(* Properties *)

\* A client is told that it is paired only when its key was saved, whatever call
\* timed out and whichever reply came late (pairing.rs:62).
ToldIsSaved == told \subseteq committed

\* No code outlives its window: a thread that reports after its window was
\* closed, replaced or has expired pairs nobody, though another may be open.
StaleCodesRefused ==
    [][\A a \in committed' \ committed :
        window # None /\ of[a] = window.epoch /\ ~window.expired]_vars

\* Guessing is limited: nobody is paired after MaxFailures attempts in a window
\* have failed, not even when the reports of the failures were late.
GuessesAreLimited ==
    [][\A a \in committed' \ committed :
        Cardinality({b \in 1..(a - 1) : of[b] = of[a]}) < MaxFailures]_vars

\* While calls are answered in time a window that does not expire does not even
\* accept more attempts than that, nor any after a success: the word to stop
\* reaches the worker before the thread is free to finish.
NoExtraAttempts ==
    ~late => \A e \in Epoch :
        LET attempts == {a \in Attempt : of[a] = e} IN
        /\ Cardinality(attempts) <= MaxFailures
        /\ \A a \in attempts \cap committed : \A b \in attempts : b <= a

\* The worker listens for a window that the supervisor has closed only as long as
\* the message that ends it is under way.
WindowsAgree ==
    listening => \/ window # None /\ window.epoch = served
                 \/ \E i \in DOMAIN toWorker :
                        toWorker[i].type \in {"PairStop", "PairCommitted"}

\* An attempt ends, whatever its client does.
AttemptsEnd == \A a \in Attempt : a \in Running ~> a \notin Running
=============================================================================
