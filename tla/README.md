# A TLA+ model of altdb

altdb is a daemon for rooted Android devices that speaks the wireless ADB
protocol while the system's own debugging is off. This directory holds its
specification: TLA+ modules translated from the Rust source, TLC configurations
that check them on small instances, and proofs for TLAPS.

Paths are relative to the repository; `daemon.rs` and the like stand for
`src/unix/daemon.rs`, `pairing.rs` for `src/pairing.rs`.

## The system

| part | source | state it keeps | operations |
|---|---|---|---|
| root supervisor | `daemon.rs` | configuration, state, worker, listeners (bundle), services, transports, pairing window, root mode, armed restart, back-off | the commands of the control socket, the requests of the worker, a periodic check of configuration, native debugging and network |
| network worker | `worker.rs` | TCP connections, host list, peers, pending calls, pairing listeners | accept, sweep of unfinished handshakes, messages of the supervisor, calls with a time-out of 10 s |
| connection thread | `transport.rs`, `protocol.rs` | streams with their pending packets, reverse listeners | handshake, packets of the client, service loop |
| pairing thread | `pairing.rs` | the key exchange | prove, commit, tell |
| state files | `store.rs` | `config.json`, `hosts.json`, identity | atomic replacement, restart |
| native monitor | `ksu.rs` | last clear check, snapshot with its age | check of processes and settings every 3 s |
| services | `services.rs`, `services/sync.rs` | a process group each | shell, file transfer, socket relays, reverse binders |
| network | `network.rs`, `mdns.rs` | interfaces, listeners, announcements | discovery, binding, answering queries |
| IPC | `ipc.rs` | a SEQPACKET socket pair | messages with descriptors |
| crypto | `crypto.rs`, `native/crypto.c` | TLS engine and queue, SPAKE2 | handshake, read, write |
| privileges | `ksu.rs` | none | one-way restrictions of worker and services |
| command line, watchdog, WebUI | `main.rs`, `module/service.sh`, `webui/` | none that others share | start, restart, show |

How they interact:

- The supervisor is a single loop. It shares a socket pair with the worker:
  requests one way, replies and host lists the other, each direction in order.
  Either end may find the other gone.
- The worker has a main thread and one thread per connection and per pairing
  attempt. A thread makes a call by leaving a channel in a table and sending a
  request; the main thread hands the answer over, or the call gives up after
  ten seconds and its late answer finds no channel.
- The main thread and the connection threads share the table of peers, the
  cancel flag of a connection, and its socket, which the main thread shuts down.
- The monitor shares one snapshot with the supervisor's loop.
- Services are children of the supervisor; their sockets are passed to the
  connection thread through the worker's socket. When a stream is closed its
  socket is shut down and the supervisor is told, which stops the service after a
  second; when a connection ends all its services are stopped at once.
- A reverse listener is bound by a service of its own, the binder, for which the
  supervisor waits; the listening socket goes to the connection thread, the other
  end of the binder's socket stays with the supervisor and keeps the binder alive.

What is hard about it: a revocation that races with an authentication or with a
service start; answers that come after their caller has gone; a worker that is
replaced while sessions, a pairing window or a delayed restart refer to it;
saves that are cut short; packets that cross on the wire while a service takes
half of one; a check of the surroundings that hangs; a shell whose output, exit
code, input and descendants end in any order; a push that is cut between two
system calls. `PROJECT.json` lists these
hazards at their lines with the properties that cover them.

### What makes each part correct

- Supervisor: permissions, listeners, root mode, pairing window and the reported
  state agree whatever order commands and failures come in, and the daemon ends
  where configuration and surroundings want it.
- Worker and supervisor: no revoked host keeps a transport, a service or a
  session; nobody is refused for a limit that is not reached; nothing is leaked.
- Streams: data arrives once and in order, acknowledgements mean that the data
  was taken, a close of the client waits up to a second for what came before it, and
  no legal client is cut.
- Files: a crash leaves the old or the new value, and memory follows the disk.
- Pairing: trust is on the disk before the client hears of it, a code does not
  outlive its window, guesses are limited, and attempts end.
- Services: frames of several threads stay apart, the exit code is the last thing
  sent, a service ends when its stream, its connection or its shell has, a pushed
  file appears whole or not at all, and the table of reverse listeners and the
  binders belong together.
- Monitor: the service does not run beside native debugging for longer than the
  stated times, and is not stopped without need.

## Modules

| module | models | checked by | proofs |
|---|---|---|---|
| `Access` | who may use the device: supervisor, worker, connection threads and the socket pair between them | `MCAccess` | `AccessProofs` |
| `Supervisor` | the life cycle of the supervisor | `MCSupervisor` | `SupervisorProofs` |
| `Streams` | the streams of one connection, its client and its services | `MCStreams` | `StreamsProtocol`, `StreamsProofs` |
| `Pairing` | window, attempts, threads and messages of pairing | `MCPairing` | `PairingProofs` |
| `Monitor` | the native debugging monitor, in discrete time | `MCMonitor` | `MonitorProofs` |
| `Services` | the supervisor's list of services and the socket of each | through `ServiceKinds` | `ServicesProofs` |
| `Shell` | a shell service: threads, socket, process group | through `ServiceKinds` | `ServicesProofs` |
| `Push` | the file transfer service, call by call, with power loss | through `ServiceKinds` | `ServicesProofs` |
| `Reverse` | reverse listeners: connection thread, supervisor, binders | through `ServiceKinds` | `ServicesProofs` |
| `ServiceKinds` | `services::run`: one of the three kinds, with `Services` | `MCServices` | `ServicesProofs` |
| `Store` | `store::atomic`, call by call, with crashes | `MCStore` | `StoreProofs` |
| `Register` | what a state file promises (abstract) | refined by `Store` | `StoreProofs` |

How state and actions correspond to the code:

- **Access.** `hosts`, `transports`, `services`, `stopped`, `closing` are fields
  of `Daemon`; `whosts`, `peers`, `cancelled` those of the worker and its broker;
  `phase`, `fp`, `call`, `answer` are where each thread is in `transport::run` and
  in `Broker::call`. A connection thread's call and the receipt of its answer are
  two steps, so that anything may happen between them. `CallTimeout` is the
  time-out of `Broker::call`; the answer that comes later is dropped, as the code
  drops it. `WorkerDies` and `StopWorker` take all threads along.
- **Supervisor.** One action per command, message and branch of the periodic
  check of `run()`. Timers (back-off, 500 ms before a restart, window) are
  abstract: once armed they may fire at any later moment.
- **Streams.** A packet has the sender's and the receiver's stream number.
  `Handle` is one packet through `Connection::handle`, `Serve` one stream's turn in
  `Connection::services`. A packet of data counts two units, so that a service may
  take half of it. `OutLimit` is the 4 MiB threshold of the TLS queue. `service` is
  the far end of each source: `open` while it takes data, `shut` once it has ended
  its output alone. The services of altdb, relays included, shut down both directions
  at once (`ServiceExits`); the peer of a reverse listener is any local program and
  may shut down its writing half and go on reading (`PeerShutsWrite`). Its end of
  file closes the stream whatever is still pending for it (`Ends`).
- **Pairing.** `window` is the supervisor's, `served`, `listening`, `active` the
  worker's; attempts are numbered. `HandleResult` is `Request::PairResult`.
  `noticed` keeps the order of the loop: after one result has been handled past
  the expiry, the next pass closes the window before it reads another. `late` is
  set when a call or a window has outlasted its time: only until then does
  `NoExtraAttempts` hold.
- **Monitor.** `Tick` is one unit of time and every instant is an age.
  `Check`, `Sample`, `Answer`, `Expire` are the steps of the thread, `PollMonitor`
  that of the loop.
- **Store.** One action per system call of `atomic`, each of which may fail;
  `possible` is the set of files that could have the name of the state file after
  a power failure now. `OpenStore` is the restart. `apart` is set when a rename
  could not be undone, and `Register` is told of it as not `settled`.

- **Services.** `svc` is the list of services with what the supervisor knows of
  each and what is true of its process; `open` is the far end of its data socket.
  `Shell`, `Push` and `Reverse` extend the module and say what the process does;
  each takes the operations of the list (`CloseService`, `CloseDue`, `Reap`,
  `Disconnect`) into its next-state relation, since they may come at any moment.
  `ServiceKinds` chooses the kind at the start, as `services::run` does by name.
- **Shell.** `at` is where each of the four threads is: the main thread, a reader
  for each output, the reader of the input. A frame of the shell protocol is three
  writes (`shell_frame`), each of which waits for room in `wire`; `lock` is the
  mutex around the socket. `group` holds the shell and one descendant; what they do
  is free, within `args`: which of them ignore SIGHUP, and whether the descendant
  keeps the output pipes. With a terminal both are hung up with their session
  leader. `Terminate` is the handler of SIGTERM.
- **Push.** One action for each system call of `send_file` that may fail, and one
  for each frame. `target` is what the name holds, `possible` what it may hold after
  a power failure; it is "torn" when data that was not synced has the name. The
  service may be killed at every point, and then leaves its temporary file.
- **Reverse.** `command` is where the connection thread is in `reverse_command`, with
  the entries it has still to remove and the address it will bind; `calls` its
  requests to the supervisor, those it has given up among them. `awaited` is set
  while the supervisor waits for a binder and serves nothing else. A binder that
  has ended by itself removes the path it has bound, one that was killed does not.

Definitions with a suffix, such as `Verdict_Refreshes`, are single faults put
into a definition of the code. No specification uses them; `PROJECT.json`
("mutants") says which property each of them breaks.

## Runs

Run one with `tlc -config <run>.cfg <module>.tla`.

| run | question | bounds | states |
|---|---|---|---|
| `access_races` | do registered transports belong to paired hosts in every interleaving, and is a client that the worker admits ever refused? | 3 connections for 2 places, 2 edits of the host list, 2 calls, answers in time | 2.2 million |
| `access_liveness` | do services and sessions follow a revocation when any call may time out, is every dropped session told, and do dropped sessions, idle handshakes and orphaned services end? | 1 connection, 3 calls | 60 thousand |
| `access_leak` | is an admitted client refused when calls time out? **violated** | 3 connections for 2 places | |
| `supervisor_lifecycle` | do permissions, listeners, window and state agree, and does the daemon end where it should? | 2 networks, 2 ports, 8 events | 97 thousand |
| `supervisor_stuck` | does running imply a worker? **violated** | 2 events | |
| `streams_traffic` | order, back-pressure, drained closes, answered writes, the end of closed streams; is a legal client ever cut? | 2 streams, opened from either side, 3 writes with room for 2, a peer that ends its output, deadlines, services that need not read | 59 thousand |
| `streams_lostoutput` | may a close overtake the last output? **violated** | 1 stream | |
| `pairing_windows` | commits before success, stale codes, limit of guesses, extra attempts, ends of attempts | 2 windows, 3 attempts, limit of 2 failures, 1 fault | 330 thousand |
| `monitor_conflicts` | how long may the service outlive a conflict, and is it stopped without need? | times 3, 2, 6 as in the code, grace 14, 2 changes | 2 million |
| `services_lifecycle` | do frames, exit code, files, listeners and the ends of services come out right? | 3 commands with 1 descendant, sockets and pipes of 1, 1 late call, 2 addresses, 2 binders | 195 thousand |
| `services_orphan` | does a shell leave a process behind? **violated** | 1 command | |
| `store_crashes` | does a state file keep the promise of a register? | 3 values, any number of saves and crashes | 600 |

The two runs of `Access` differ in `Timeouts`: the admission of clients is sound
only while calls are in time, which is what `access_leak` shows.
`supervisor_lifecycle` lets a start fail after a rotation and a network change; the
failure after a permission change, from which the daemon does not recover, is
`supervisor_stuck`, and the safety properties with it are covered by
`SupervisorProofs`. In `Monitor` the variable `quiet`, chosen at the start, tells
behaviours with a prompt thread and no change but the provider's from the others:
only for those does the code promise not to stop a service without need. `blind` is
the time since the settings could last be read for longer than `CheckTime`, which
is what a thread needs to give up a reading that has failed, wait, and end the
next: shorter intervals of a provider that comes and goes may fall between its
readings, however many there are. `apart`
in `Store` and `late` in `Pairing` are history variables that mark where an error
of the undoing, or an overdue answer, has loosened a promise.

Why the bounds are enough. The runs have two of whatever can race with its like:
connections of a host, windows, streams of both directions (`MaxReverse` lets the
first come from a reverse listener), networks and ports;
and one more than every limit needs to be reached (three connections for two
places, one write more than may be pending, one attempt more than failures
allowed). `access_liveness` has one connection, since its properties are about the
threads of one; that other hosts and connections do not disturb
`TransportsAuthorized` and `ServicesAuthorized` is proved. Bounds on events are large
enough for every action and every branch to be taken in the passing runs. Time in
`Monitor` has the true ratios of pause, reading and age; the grace is shorter than
120 s but longer than the age of a snapshot, which is what the bounds compare it
with. The bounds its properties state are the least: each of them fails with one
unit less.

The bounds on events (`MaxEdits`, `MaxEvents`, `MaxFaults`, `MaxChanges`,
`MaxCalls`, `MaxEpochs`, `MaxAttempts`, `MaxWrites`, `MaxOutputs`, `MaxLocal`, `MaxReverse`) stop
the surroundings, not the program. Where a run stops for them, deadlock is not
checked (`CHECK_DEADLOCK FALSE`); `Monitor` never stops and is checked for it.

### What the violated runs show

Each checks one statement that the code does not keep; `PROJECT.json` quotes it.

- `access_leak`: a call `Authenticated` that times out in the worker and is served
  afterwards registers a transport whose thread is gone. Its place comes back only
  with a revocation or a new worker.
- `supervisor_stuck`: a permission change whose new worker cannot be started leaves
  the state `running` without a worker, and no later check repairs it, because the
  network has not changed.
- `streams_lostoutput`: a write to a service that has exited closes the stream
  although the last output was not acknowledged or read.
- `services_orphan`: a client that is gone when the exit code is to be sent ends the
  service before it kills its process group.

Three differences need no run. Settings that become unreadable while the worker is
being replaced for another root mode pause the service, which forgets root mode and
port: `daemon.rs:688` grants the grace in state `running` only, and
`docs/ARCHITECTURE.md:64`, which grants it to a service that exists, does not say
which of the two a worker under replacement is. A packet without data is acknowledged where it is
handled (`transport.rs:349`), also while earlier data is pending, though
`docs/ARCHITECTURE.md:46` ties the acknowledgement to the drained queue.
`AcknowledgedWhenDrained` therefore speaks of the acknowledgements of data. And the
same line says that CLSE drains what was received before the service sees the end of
file, in the sentence before the one that gives a service a second to end: the code
gives the draining that second too (`transport.rs:441`), so that a service that reads
slowly loses what its socket has no room for by then, though it reads all the time.
An end of file from a peer that has shut down its writing half closes the stream
without draining (`transport.rs:449`), which no document speaks of.
`DrainedBeforeClose` names both losses as its exceptions and excludes any other.

### Fairness

Liveness is checked under weak fairness of steps that the code takes without
being asked: the loops of the supervisor and of the worker come round (they poll
with time-outs of 50 ms and 10 ms), a message that has arrived is read, a
thread whose call was answered goes on, a thread whose socket was shut down sees
it, timers that are due are noticed, a stopped service can be reaped (SIGKILL
follows). Not assumed: that a client sends or reads anything (except in `Streams`,
where it takes what the device sends, as TCP back-pressure is outside the
module, and in `Shell`, where the connection reads what the service sends), that a call times out, that a service reads (only `WritesAnswered`
assumes it, as a premise of its own), that the user or the network does anything.
In `ServiceKinds` a process that was sent SIGTERM ends, and so does a binder whose
socket was closed; nothing is assumed of the commands of a shell. `ServicesEnd`
needs no thread of the shell to run: the supervisor stops what does not end.

## Proofs

`tlapm <module>.tla` checks each of the eight proof modules.

- **AccessProofs**, for any hosts, connections, limits, with time-outs or without.
  `TypesHold` proves the types; they are not inductive alone: a thread that is
  about to send `Authenticated` must know the host to name, which is `PeerKnown`,
  kept because only the handshake leads to that place. `AuthorizationHolds` proves
  `TransportsAuthorized` and `ServicesAuthorized` together: the second is what
  makes a revocation complete, since dropping a transport must stop its services,
  and neither step of `Handle` can register one for a host that is gone.
  `AdmissionHolds` needs that calls are in time (`ASSUME ~Timeouts`; `access_leak`
  shows that it is false otherwise). The places the supervisor counts are the
  registered transports, those the worker counts its connections; `AdmissionInv`
  says that each transport and each request to become one has a connection of its
  own: one request or reply of a connection is on its way, the thread waits for it
  in a phase that fits, and no thread leaves before its transport does. What a dead
  worker has left in the socket is still answered, so there the count is kept by
  itself (`DeadInv`).
  `DropsAreTold`, which holds with time-outs too, is the part of `DroppedSessionsEnd`
  that does not need fairness: an answer that opens a session, or is about to, is
  followed in the socket by every list that takes its host away (`ToldInv`), since
  the supervisor changes its transports and sends in one step, and the main thread
  finds the peer of a thread that waits because it was registered before the call.
- **SupervisorProofs**, for any networks, ports, cap of the back-off and places
  where a start may fail. `SupervisorInv` adds `WorkerInv` to the checked
  invariants: sessions exist only behind a worker that is up, a booting worker has
  none and has listeners, and root mode implies that it is allowed. Without it,
  neither `ServicePolicy` after a configuration change nor `RunningHasBundle` after
  `Ready` is inductive. `StopEffect` and `BootSafe` are the two lemmas on which
  almost every action rests.
- **StoreProofs**, for any set of values and whatever fails. `NoTornFile`: the
  temporary file is synced before it gets the name. `StoreKeepsPromise` is the
  refinement of `Register`, with `SaveStages` saying stage by stage which file has
  which value; after a rename that could not be undone it says nothing of the old
  value, and the register is unsettled until the next save that succeeds or a
  restart. `FileAndMemoryAgree` and `SuccessIsSettled` follow from the same invariant.
- **StreamsProtocol** and **StreamsProofs**, for any ids, limits, sizes of sockets and
  either kind of client. The first module states the invariant and proves that every
  step keeps it, the second proves the types and the theorems. Types are not inductive
  alone: the remote id of a stream comes from a packet. That the data of a stream is
  in order, and that no packet of a client that keeps to the protocol ends the
  connection but for a full queue, depend on all that is under way in both
  directions: the invariant (`Sound`) says that the writes in the input number on
  from what the stream has accepted without a gap, that at most one output is
  unacknowledged, at the device, on the way, at the client or as an acknowledgement on
  the way, and that nothing follows a close. The device forgets which ids belonged
  together when it removes a stream, packets do not; so the invariant says that there
  is a relation `peer` of local and remote ids that agrees with everything under way.
  `AcknowledgesDrained` and `ClosesDrained` are about single steps, and need what the
  invariant says about the state before: that a socket holds no more than its size and
  that an offset belongs to a packet, so that a flush that leaves something has filled
  the socket, and that a stream still opening has accepted nothing.

- **ServicesProofs**, for any number of places in the list, any commands, any sizes
  of sockets and pipes, any addresses. Types are proved kind by kind and put
  together (`TypesHold`). Behind `FramesWhole` is that only the holder of the lock is
  at "write", and that between frames the last part on the wire was the third;
  behind `ExitCodeLast` that a reader is done only when its pipe is empty and nobody
  can fill it again, which the death of processes keeps and the main thread waits
  for. `TargetWhole` rests on a temporary file that is synced before it is at the
  rename, and `NoLeftovers` on one that exists only between two steps of
  `send_file`. `EntriesAreServed` is the hard one: an entry of the table, a call
  that is being answered, and a call that was given up may all name one address;
  the invariant says which binder holds it and that no request still under way is to
  stop it, in the order in which requests are served. `NothingStrays` is its
  converse, from the binders to the table, while nothing is overdue: the invariant
  (`StraysInv`) says which call under way still names a binder without an entry, and
  that there is none once the command has ended.
- **MonitorProofs**, for any interval, time-out, age and grace. `AgesInv` bounds the
  time that has passed since debugging was last off (and since it last could not be
  read) by the ages that the thread, the snapshot and the loop keep: what a reading
  saw is no older than the reading, a snapshot no older than its age and its
  reading, a running service no older than the last poll. The two limits and
  `StartsAreConfirmed` are then arithmetic. `PausesAreNeeded` has an invariant of its
  own, `PromptInv`: while the settings can be read, the time they could be and the
  time the thread still needs for a check that sees them (`Rest`) are together no more
  than `CheckTime`, or the last check was clear. It assumes that a pause and a
  reading fit in the age of a believed snapshot, `Interval + Timeout <= Stale`, which
  in the code is 3 + 2 <= 6 seconds: the constants have been chosen for it, and
  otherwise a service would be stopped between two checks.
- **PairingProofs**, for any number of hosts, windows and attempts. `Sensible`: what
  is under way in both directions means something, in particular a reply that
  confirms a key finds that key saved. `Earned` adds what a thread may know, which
  gives `ToldIsSaved`; the number of the window in a result is that of its attempt,
  which gives `StaleCodesRefused`; and `Agreement` extends `WindowsAgree` to the
  announcements of windows still to be read: each is of the supervisor's window or
  is followed by a message that ends it. `GuessesLimited` counts: the attempts of the
  open window that have failed and whose result is not under way any more are at most
  the failures it has counted (`CountInv`), also for each result still to be taken
  after the worker's death; which needs that attempts of one window come one at a
  time, and their results in that order. `AttemptsStayInLimit` looks at the same
  count from the worker: it holds because the supervisor sends the word that ends a
  window before it answers the call (`Follows`), so that the thread of the last
  attempt cannot finish, and make room for another, before the worker has read it.
  That takes calls with one answer each, hence `late`.

The assumptions on constants are the named `ASSUME`s of the modules: limits are
numbers (positive where the code's are), and `None` and its like are none of the
values they are told from.

The types of every module, and every safety property of the passing runs (invariants and action
properties), are proved. Only model-checked:

- Liveness, which is out of the prover's reach: `DroppedSessionsEnd`,
  `HandshakesEnd`, `OrphansEnd`, `Converges`, `WritesAnswered`, `ClosedStreamsGo`,
  `AttemptsEnd`, `ServicesEnd` and `OverShellsEnd`.
- The violations, which are counterexamples.

The theorems hold for every value of the constants; where a constant bounds what the
surroundings do (`MaxWrites`, `MaxAttempts`, `MaxCalls`), for every such bound.

## Not modelled

- The bytes of packets, frames, IPC messages, DNS records and JSON: the modules
  take messages as records. Size limits appear as small constants.
- Cryptography: an exchange succeeds or fails, a handshake proves a host.
- The restrictions of worker and services (seccomp, capabilities, SELinux,
  KernelSU): single system calls in a fixed order with nothing to interleave.
- The relay of `tcp:`, `localabstract:` and `localfilesystem:` services, which copies
  between two sockets until one ends. `Services` covers how such a service is
  started, told to end and reaped.
- What the file service reads (STAT, LIST, RECV): it changes no state, and `Push`
  takes it as a step that succeeds or fails.
- The mDNS responder, which keeps no state the rest of the daemon reads; the
  interface policy of `network.rs`, a filter over what the kernel reports.
- The watchdog script, a sequential loop.
- WebUI, build and packaging.

## Plan

Done: all modules above, and the proofs of their safety properties.

What would come next, in this order:

1. An abstract module for the device as its user sees it (who is paired, who is
   connected, what may serve), implemented by `Access`.
2. `OutputBudget`: the numeric argument about the output threshold and the cap of the
   TLS queue (`transport.rs:446`).
3. The rebinding of an address by a new bundle, which may fail because the old
   listener has not been closed yet.
