------------------------------ MODULE Streams -------------------------------
(***************************************************************************)
(* The streams of one authenticated connection (src/unix/transport.rs):    *)
(* ADB packets from the client, the sockets of the services, and the queue *)
(* of packets that TLS has still to send.                                  *)
(*                                                                         *)
(* A packet of data has two units, so that a service socket can take half  *)
(* of it; the packets of a stream are numbered in the order the client     *)
(* writes them.  The socket of a service holds what the service has still  *)
(* to read and what the connection has still to read from the service.     *)
(* A service ends both directions at once; the peer of a reverse listener  *)
(* is any local program, and may end its output and go on reading.         *)
(* The client is one that keeps to the protocol; it is how the stock adb   *)
(* is seen from this code.                                                 *)
(*                                                                         *)
(* `root:`, `reverse:` and the like answer from memory: a service that has *)
(* left one answer and takes no input.                                     *)
(***************************************************************************)
EXTENDS Naturals, Sequences, FiniteSets, Functions

CONSTANTS
    Remote,         \* the stream ids of the client, not 0
    MaxLocal,       \* bound: the stream ids of the device, `next` stops there
    MaxStreams,     \* config::MAX_STREAMS
    PendingLimit,   \* the packets a stream may keep, 64
    TotalLimit,     \* the packets a connection may keep, for 8 MiB
    OutLimit,       \* the queued output that stops reading, for 4 MiB
    SocketSize,     \* units a service socket holds
    MaxWrites,      \* bound: writes of the client per stream
    MaxOutputs,     \* bound: writes of a service
    EmptyWrites,    \* TRUE when the client ends with packets without data
    Hasty,          \* TRUE when the client may write before the acknowledgement
    MaxReverse,     \* bound: the stream ids that a reverse listener may take
    Deadlines       \* TRUE when an open may take ten seconds, a close one

ASSUME ConstantsAssumption ==
    /\ Remote \subseteq Nat \ {0}
    /\ {MaxLocal, MaxStreams, PendingLimit, TotalLimit, OutLimit, SocketSize,
        MaxWrites, MaxOutputs, MaxReverse} \subseteq Nat
    /\ {EmptyWrites, Hasty, Deadlines} \subseteq BOOLEAN

Local == 1..MaxLocal

VARIABLES
    streams,    \* streams: the open streams by local id
    next,       \* next: the local id of the next stream
    dead,       \* the connection has ended with an error
    service,    \* per local id, the far end of the stream's source
    delivered,  \* per local id, the units written to the service, in order
    inq,        \* packets from the client
    outq,       \* tls.outgoing, and the network to the client
    client      \* per remote id, what the client knows of its stream

vars == <<streams, next, dead, service, delivered, inq, outq, client>>

Stream ==
    [remote : Remote \cup {0}, pending : Seq(Nat), offset : 0..1,
     waiting : BOOLEAN, opening : BOOLEAN, closing : BOOLEAN]

\* The far end of a source: the units it has still to read, its writes that are
\* still to be read and those it has made, whether it takes data, whether it came
\* through a reverse listener, and whether it has ended its output alone.
FarEnd ==
    [unread : Nat, output : Nat, made : Nat,
     open : BOOLEAN, reverse : BOOLEAN, shut : BOOLEAN]

Packet ==
         [command : {"OPEN", "OKAY", "CLSE"}, from : Nat, to : Nat]
    \cup [command : {"WRTE"}, from : Nat, to : Nat, data : Nat]

\* The variables have the types of the Rust structures they stand for.
TypeOK ==
    /\ DOMAIN streams \subseteq Local
    /\ streams \in [DOMAIN streams -> Stream]
    /\ next \in 1..(MaxLocal + 1)
    /\ dead \in BOOLEAN
    /\ service \in [Local -> FarEnd]
    /\ delivered \in [Local -> Seq(Nat)]
    /\ inq \in Seq(Packet)
    /\ outq \in Seq(Packet)
    /\ client \in [Remote -> [state : {"idle", "opening", "open", "closed"},
                              local : Nat, wrote : Nat, blocked : BOOLEAN,
                              owes : BOOLEAN]]

-----------------------------------------------------------------------------
(* Helpers *)

Open(r)          == [command |-> "OPEN", from |-> r, to |-> 0]
Okay(a, b)       == [command |-> "OKAY", from |-> a, to |-> b]
Close(a, b)      == [command |-> "CLSE", from |-> a, to |-> b]
Write(a, b, n)   == [command |-> "WRTE", from |-> a, to |-> b, data |-> n]

Least(a, b) == IF a < b THEN a ELSE b

Exists(id) == id \in DOMAIN streams

WithStream(id, s) == [j \in DOMAIN streams \cup {id} |-> IF j = id THEN s ELSE streams[j]]
WithoutStream(id) == Restrict(streams, DOMAIN streams \ {id})

\* Units a stream has accepted and not yet written to its service.
Backlog(s) == 2 * Len(s.pending) - s.offset

\* Packets kept in all streams, a partly written one included.
Kept == SumFunction([id \in DOMAIN streams |-> Len(streams[id].pending)])

Fail == dead' = TRUE /\ UNCHANGED <<streams, next, outq>>
Send(p) == outq' = Append(outq, p)

NewStream(r, opening) ==
    [remote |-> r, pending |-> <<>>, offset |-> 0,
     waiting |-> FALSE, opening |-> opening, closing |-> FALSE]

\* A source that is gone, a service process, the peer of a reverse listener, and an
\* answer from memory.
Gone ==
    [unread |-> 0, output |-> 0, made |-> 0,
     open |-> FALSE, reverse |-> FALSE, shut |-> FALSE]
Process == [Gone EXCEPT !.open = TRUE]
Peer    == [Process EXCEPT !.reverse = TRUE]
Answer  == [Gone EXCEPT !.output = 1]

\* A stream the client has not used yet, and one it has done with.
Idle   == [state |-> "idle", local |-> 0, wrote |-> 0, blocked |-> FALSE, owes |-> FALSE]
Closed == [Idle EXCEPT !.state = "closed"]

-----------------------------------------------------------------------------
Init ==
    /\ streams = [id \in {} |-> {}]
    /\ next = 1
    /\ dead = FALSE
    /\ service = [id \in Local |-> Gone]
    /\ delivered = [id \in Local |-> <<>>]
    /\ inq = <<>> /\ outq = <<>>
    /\ client = [r \in Remote |-> Idle]

-----------------------------------------------------------------------------
(* Connection::handle *)

\* OPEN: a second stream of the same id ends the connection; past the limit, and
\* when the service is refused, the answer is CLSE.
HandleOpen(p) ==
    /\ p.command = "OPEN"
    /\ UNCHANGED delivered
    /\ IF \E id \in DOMAIN streams : streams[id].remote = p.from
       THEN Fail /\ UNCHANGED service
       ELSE /\ UNCHANGED dead
            /\ \/ /\ Send(Close(0, p.from))
                  /\ UNCHANGED <<streams, next, service>>
               \/ /\ Cardinality(DOMAIN streams) < MaxStreams
                  /\ next \in Local
                  /\ streams' = WithStream(next, NewStream(p.from, FALSE))
                  /\ \E s \in {Process, Answer} : service' = [service EXCEPT ![next] = s]
                  /\ next' = next + 1
                  /\ Send(Okay(next, p.from))

\* Fault: an acknowledgement of a stream that is gone ends the connection.
HandleOkay_Strict(p) ==
    /\ p.command = "OKAY"
    /\ UNCHANGED <<service, delivered>>
    /\ IF Exists(p.to) /\ streams[p.to].waiting
       THEN /\ streams' = [streams EXCEPT ![p.to].waiting = FALSE]
            /\ UNCHANGED <<next, dead, outq>>
       ELSE Fail

\* OKAY: opens a stream of ours, or acknowledges our last write.  One for a
\* stream that is gone is ignored, one that nothing waits for ends the connection.
HandleOkay(p) ==
    /\ p.command = "OKAY"
    /\ UNCHANGED <<service, delivered>>
    /\ LET s == streams[p.to]
           legal == IF s.opening THEN s.remote = 0 ELSE s.remote = p.from /\ s.waiting
       IN IF Exists(p.to) /\ ~legal
          THEN Fail
          ELSE /\ streams' = IF ~Exists(p.to) THEN streams
                             ELSE [streams EXCEPT ![p.to] =
                                    IF s.opening
                                    THEN [s EXCEPT !.opening = FALSE, !.remote = p.from]
                                    ELSE [s EXCEPT !.waiting = FALSE]]
               /\ UNCHANGED <<next, dead, outq>>

\* What WRTE requires of its stream, and of the queues when it has data.
Writable(p) ==
    /\ p.data # 0 => Kept < TotalLimit
    /\ Exists(p.to) =>
        LET s == streams[p.to] IN
        /\ s.remote = p.from /\ ~s.opening /\ ~s.closing
        /\ p.data # 0 => Len(s.pending) < PendingLimit

\* WRTE: kept in order; acknowledged at once when it is empty, answered with CLSE
\* when the stream is gone.
HandleWrite(p) ==
    /\ p.command = "WRTE"
    /\ UNCHANGED <<service, delivered>>
    /\ IF ~Writable(p)
       THEN Fail
       ELSE IF ~Exists(p.to)
       THEN Send(Close(p.to, p.from)) /\ UNCHANGED <<streams, next, dead>>
       ELSE /\ UNCHANGED <<next, dead>>
            /\ IF p.data = 0
               THEN Send(Okay(p.to, p.from)) /\ UNCHANGED streams
               ELSE /\ streams' = [streams EXCEPT ![p.to].pending = Append(@, p.data)]
                    /\ UNCHANGED outq

\* CLSE: the stream is closed once its backlog is written.
HandleClose(p) ==
    /\ p.command = "CLSE"
    /\ UNCHANGED <<service, delivered>>
    /\ IF Exists(p.to) /\ p.from # streams[p.to].remote
                       /\ ~(streams[p.to].opening /\ p.from = 0)
       THEN Fail
       ELSE /\ streams' = IF Exists(p.to) THEN [streams EXCEPT ![p.to].closing = TRUE]
                                          ELSE streams
            /\ UNCHANGED <<next, dead, outq>>

Handle ==
    /\ ~dead
    /\ inq # <<>>
    /\ inq' = Tail(inq)
    /\ \/ HandleOpen(Head(inq))
       \/ HandleOkay(Head(inq))
       \/ HandleWrite(Head(inq))
       \/ HandleClose(Head(inq))
    /\ UNCHANGED client

-----------------------------------------------------------------------------
(* Connection::services, one stream of one pass *)

\* Closes a stream: the source is dropped, its socket shut down.
Drop(id) ==
    /\ streams' = WithoutStream(id)
    /\ service' = [service EXCEPT ![id] = Gone]

\* The units the socket takes now, and the unit at a place of the backlog.
Taken(id) == Least(SocketSize - service[id].unread, Backlog(streams[id]))
Unit(s, k) == s.pending[(s.offset + k + 1) \div 2]

\* Fault: a closed stream waits for its service without limit.
Expire_OpensOnly(id) ==
    /\ ~dead
    /\ Deadlines
    /\ Exists(id)
    /\ streams[id].opening
    /\ Drop(id)
    /\ Send(Close(id, streams[id].remote))
    /\ UNCHANGED <<next, dead, delivered, inq, client>>

\* An open of ours that was not answered for ten seconds, or a closed stream
\* whose service did not take the backlog within a second.
Expire(id) ==
    /\ ~dead
    /\ Deadlines
    /\ Exists(id)
    /\ \/ streams[id].opening
       \/ streams[id].closing /\ service[id].open
            /\ Backlog(streams[id]) > 0 /\ Taken(id) = 0
    /\ Drop(id)
    /\ Send(Close(id, streams[id].remote))
    /\ UNCHANGED <<next, dead, delivered, inq, client>>

\* flush_pending fails: the service no longer reads.
WriteFails(id) ==
    /\ ~dead
    /\ Exists(id)
    /\ streams[id].pending # <<>>
    /\ ~service[id].open
    /\ Drop(id)
    /\ Send(Close(id, streams[id].remote))
    /\ UNCHANGED <<next, dead, delivered, inq, client>>

\* Fault: a packet is freed although only a part of it was written.
Rest_FreesPartial(s, k) ==
    [s EXCEPT !.pending = SubSeq(@, (s.offset + k + 1) \div 2 + 1, Len(@)),
              !.offset = 0]

\* flush_pending: the stream after k units were written.
Rest(s, k) ==
    [s EXCEPT !.pending = SubSeq(@, (s.offset + k) \div 2 + 1, Len(@)),
              !.offset = (s.offset + k) % 2]

\* Fault: any progress is acknowledged.
Acks_Early(s, k) == s.pending # <<>> /\ k > 0 /\ ~s.closing

\* Fault: only a queue that one pass empties is acknowledged.
Acks_OnePass(s, k) == s.pending # <<>> /\ s.offset = 0 /\ k = Backlog(s) /\ ~s.closing

\* The queue was emptied, and the client still wants to know.
Acks(s, k) == s.pending # <<>> /\ k = Backlog(s) /\ ~s.closing

\* The service is read: its last output was acknowledged, the queue has room.
Reads(s) == ~s.closing /\ ~s.opening /\ ~s.waiting /\ Len(outq) < OutLimit

\* End of file: the far end has ended its output, and all of it was read.
AtEnd(v) == v.output = 0 /\ (v.shut \/ ~v.open)

\* Fault: a close does not wait for the backlog.
Ends_AtOnce(s, v, k) == s.closing \/ (Reads(s) /\ AtEnd(v))

\* The stream ends: closed by the client and drained, or at the end of the output of
\* the far end, whatever is still pending for it.
Ends(s, v, k) ==
    \/ s.closing /\ k = Backlog(s)
    \/ Reads(s) /\ AtEnd(v)

\* The pass over a stream: write what the socket takes, acknowledge an emptied
\* queue, read the next output, close what has ended.
Serve(id) ==
    /\ ~dead
    /\ Exists(id)
    /\ LET s == streams[id]
           v == service[id]
           k == Taken(id)
           acks == IF Acks(s, k) THEN <<Okay(id, s.remote)>> ELSE <<>>
           output == IF Reads(s) /\ v.output > 0 THEN <<Write(id, s.remote, 1)>> ELSE <<>>
           close == IF Ends(s, v, k) THEN <<Close(id, s.remote)>> ELSE <<>>
       IN /\ s.pending = <<>> \/ v.open
          /\ delivered' = [delivered EXCEPT ![id] = @ \o [j \in 1..k |-> Unit(s, j)]]
          /\ outq' = outq \o acks \o output \o close
          /\ IF close # <<>>
             THEN Drop(id)
             ELSE /\ streams' = [streams EXCEPT ![id] =
                                    [Rest(s, k) EXCEPT !.waiting = @ \/ output # <<>>]]
                  /\ service' = [service EXCEPT ![id].unread = @ + k,
                                                ![id].output = @ - Len(output)]
    /\ UNCHANGED <<next, dead, inq, client>>

\* Connection::reverse_accept: a connection to a reverse listener becomes a
\* stream that waits for the client's OKAY.
ReverseAccept ==
    /\ ~dead
    /\ next <= MaxReverse
    /\ Cardinality(DOMAIN streams) < MaxStreams
    /\ next \in Local
    /\ streams' = WithStream(next, NewStream(0, TRUE))
    /\ service' = [service EXCEPT ![next] = Peer]
    /\ next' = next + 1
    /\ Send(Open(next))
    /\ UNCHANGED <<dead, delivered, inq, client>>

-----------------------------------------------------------------------------
(* The services *)

ServiceReads(id) ==
    /\ service[id].unread > 0 /\ service[id].open
    /\ service' = [service EXCEPT ![id].unread = @ - 1]
    /\ UNCHANGED <<streams, next, dead, delivered, inq, outq, client>>

ServiceWrites(id) ==
    /\ service[id].open /\ ~service[id].shut
    /\ service[id].made < MaxOutputs
    /\ service' = [service EXCEPT ![id].made = @ + 1, ![id].output = @ + 1]
    /\ UNCHANGED <<streams, next, dead, delivered, inq, outq, client>>

\* The far end goes; what it wrote stays in the socket.
ServiceExits(id) ==
    /\ service[id].open
    /\ service' = [service EXCEPT ![id] = [Gone EXCEPT !.output = service[id].output]]
    /\ UNCHANGED <<streams, next, dead, delivered, inq, outq, client>>

\* The peer of a reverse listener shuts down its writing half and reads on.
PeerShutsWrite(id) ==
    /\ service[id].open /\ service[id].reverse /\ ~service[id].shut
    /\ service' = [service EXCEPT ![id].shut = TRUE]
    /\ UNCHANGED <<streams, next, dead, delivered, inq, outq, client>>

-----------------------------------------------------------------------------
(* The client *)

ClientSends(r, p, c) ==
    /\ ~dead
    /\ inq' = Append(inq, p)
    /\ client' = [client EXCEPT ![r] = c]
    /\ UNCHANGED <<streams, next, dead, service, delivered, outq>>

\* The client numbers its streams upwards.
NextRemote(r) ==
    /\ client[r].state = "idle"
    /\ \A q \in Remote : q < r => client[q].state # "idle"

ClientOpens(r) ==
    /\ NextRemote(r)
    /\ ClientSends(r, Open(r), [client[r] EXCEPT !.state = "opening"])

ClientWrites(r) ==
    LET c == client[r] IN
    /\ c.state = "open"
    /\ Hasty \/ ~c.blocked
    /\ \/ /\ c.wrote < MaxWrites
          /\ ClientSends(r, Write(r, c.local, c.wrote + 1),
                         [c EXCEPT !.wrote = @ + 1, !.blocked = TRUE])
       \/ /\ EmptyWrites
          /\ c.wrote = MaxWrites /\ ~c.blocked
          /\ ClientSends(r, Write(r, c.local, 0), [c EXCEPT !.blocked = TRUE])

ClientAcknowledges(r) ==
    /\ client[r].state = "open" /\ client[r].owes
    /\ ClientSends(r, Okay(r, client[r].local), [client[r] EXCEPT !.owes = FALSE])

ClientCloses(r) ==
    /\ client[r].state = "open"
    /\ ClientSends(r, Close(r, client[r].local), Closed)

\* What the client makes of a packet that is for one of its streams.
Told(c, p) ==
    CASE p.command = "OKAY" /\ c.state = "opening" ->
            [c EXCEPT !.state = "open", !.local = p.from]
      [] p.command = "OKAY" /\ c.state = "open" -> [c EXCEPT !.blocked = FALSE]
      [] p.command = "WRTE" /\ c.state = "open" -> [c EXCEPT !.owes = TRUE]
      [] p.command = "CLSE" -> Closed
      [] OTHER -> c

ClientReceives ==
    /\ ~dead
    /\ outq # <<>>
    /\ Head(outq).to \in Remote
    /\ outq' = Tail(outq)
    /\ client' = [client EXCEPT ![Head(outq).to] = Told(@, Head(outq))]
    /\ UNCHANGED <<streams, next, dead, service, delivered, inq>>

\* OPEN of a reverse stream: taken with an id of the client's, or refused.
ClientAccepts ==
    /\ ~dead
    /\ outq # <<>>
    /\ Head(outq).command = "OPEN"
    /\ outq' = Tail(outq)
    /\ \/ \E r \in Remote :
            /\ NextRemote(r)
            /\ inq' = Append(inq, Okay(r, Head(outq).from))
            /\ client' = [client EXCEPT ![r].state = "open", ![r].local = Head(outq).from]
       \/ inq' = Append(inq, Close(0, Head(outq).from)) /\ UNCHANGED client
    /\ UNCHANGED <<streams, next, dead, service, delivered>>

\* A CLSE for a stream the client has no id for yet is dropped.
ClientIgnores ==
    /\ ~dead
    /\ outq # <<>>
    /\ Head(outq).command = "CLSE" /\ Head(outq).to = 0
    /\ outq' = Tail(outq)
    /\ UNCHANGED <<streams, next, dead, service, delivered, inq, client>>

Client ==
    \/ \E r \in Remote :
        \/ ClientOpens(r)
        \/ ClientWrites(r)
        \/ ClientAcknowledges(r)
        \/ ClientCloses(r)
    \/ ClientReceives
    \/ ClientAccepts
    \/ ClientIgnores

Next ==
    \/ Handle
    \/ \E id \in Local :
        \/ Serve(id)
        \/ Expire(id)
        \/ WriteFails(id)
        \/ ServiceReads(id)
        \/ ServiceWrites(id)
        \/ ServiceExits(id)
        \/ PeerShutsWrite(id)
    \/ ReverseAccept
    \/ Client

Spec == Init /\ [][Next]_vars

\* The connection's loop comes round, the network carries, and deadlines pass;
\* the client need not even acknowledge, nor a service read.
Fairness ==
    /\ WF_vars(Handle)
    /\ WF_vars(ClientReceives \/ ClientAccepts \/ ClientIgnores)
    /\ \A id \in Local : WF_vars(Serve(id) \/ WriteFails(id)) /\ WF_vars(Expire(id))

LiveSpec == Spec /\ Fairness

-----------------------------------------------------------------------------
(* Properties *)

\* What is written to a service is what the client wrote on that stream: every
\* packet whole, once and in order, through partial writes and through packets
\* that arrive while an earlier one is half written.
InOrder ==
    \A id \in Local : \A j \in DOMAIN delivered[id] : delivered[id][j] = (j + 1) \div 2

\* The device ends the connection only when a packet of data meets a queue that is
\* full: no crossing of the client's packets with a close, a deadline or the end of
\* a service does it.  (8 MiB are less than MAX_STREAMS packets of the largest size.)
EndsOnlyPastLimits ==
    [][dead' /\ ~dead =>
        /\ Head(inq).command = "WRTE" /\ Head(inq).data # 0
        /\ \/ ~(Kept < TotalLimit)
           \/ /\ Exists(Head(inq).to)
              /\ Len(streams[Head(inq).to].pending) >= PendingLimit]_vars

\* The packets a step adds to the output.
Added == SubSeq(outq', Len(outq) + 1, Len(outq'))

\* Data is acknowledged only when all that the stream has received is with the
\* service: the acknowledgement is the back-pressure.  (A packet without data is
\* answered where it is handled, whatever is pending: transport.rs:349.)
AcknowledgedWhenDrained ==
    [][\A id \in DOMAIN streams, i \in DOMAIN Added :
        inq' = inq /\ Added[i].command = "OKAY" /\ Added[i].from = id =>
            Len(delivered'[id]) = Len(delivered[id]) + Backlog(streams[id])]_vars

\* A stream that goes while its far end still reads has handed over all that it
\* accepted, and a CLSE right behind the last WRTE overtakes no data.  The code loses
\* data in two cases, which are left out here: the socket has no room when the second
\* after CLSE has passed, though the service may be reading all the time
\* (transport.rs:441), and a peer that has ended its output is dropped at its end of
\* file, though it still reads (transport.rs:449), unless the client closes first.
DrainedBeforeClose ==
    [][\A id \in DOMAIN streams \ DOMAIN streams' :
        service[id].open /\ (streams[id].closing \/ ~service[id].shut) =>
            \/ Len(delivered'[id]) = Len(delivered[id]) + Backlog(streams[id])
            \/ streams[id].closing /\ service[id].unread = SocketSize]_vars

\* A stream that the device closes has had its last output acknowledged and has
\* nothing more to read.
OutputBeforeClose ==
    [][\A id \in DOMAIN streams \ DOMAIN streams' :
        streams[id].closing \/ streams[id].opening
            \/ (~streams[id].waiting /\ service[id].output = 0)]_vars

\* A client that waits for an acknowledgement gets it, or the end of the stream, if
\* the services read; one that writes past the limits ends the connection.
WritesAnswered ==
    (\A id \in Local : WF_vars(ServiceReads(id)))
        => \A r \in Remote : client[r].blocked ~> ~client[r].blocked \/ dead

\* A stream the client has closed goes, whether its service reads or not, and so
\* does one whose open is not answered.
ClosedStreamsGo ==
    \A id \in Local :
        LET ending == Exists(id) /\ (streams[id].closing \/ streams[id].opening)
        IN ending ~> ~ending \/ dead
=============================================================================
