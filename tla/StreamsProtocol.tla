-------------------------- MODULE StreamsProtocol --------------------------
(***************************************************************************)
(* What the packets under way say about the streams: the invariant that    *)
(* InOrder and the rest rest on, and that every step of the device and of  *)
(* the client keeps it, for any ids, limits, sizes of sockets and kinds of *)
(* client.                                                                 *)
(*                                                                         *)
(* `peer` is the remote id that each local id belongs to, from the packet  *)
(* that tied the two together on, whether the stream is still there or     *)
(* not.  The device forgets it with the stream; packets do not.            *)
(***************************************************************************)
EXTENDS Streams, SequenceTheorems, TLAPS

\* The ids the device has used.
Used == {id \in Local : id < next}

\* Packets of data written for a stream.
Data(p, id) == p.command = "WRTE" /\ p.to = id /\ p.data # 0

\* Whole packets that the service of a stream has, and those the stream has accepted.
Written(id)  == Len(delivered[id]) \div 2
Accepted(id) == Written(id) + Len(streams[id].pending)

\* Where the acknowledgements for a stream are in the input.
Okays(id) == {i \in DOMAIN inq : inq[i].command = "OKAY" /\ inq[i].to = id}

\* Where the data for a stream is.
Writes(id) == {i \in DOMAIN inq : Data(inq[i], id)}

\* The clients that write to a stream.
Writers(id) == {r \in Remote : client[r].state = "open" /\ client[r].local = id}

-----------------------------------------------------------------------------
(* The invariant *)

\* Ids belong together one to one; an unused one belongs to none.
Names(peer) ==
    /\ \A a, b \in Local : peer[a] = peer[b] /\ peer[a] # 0 => a = b
    /\ \A a \in Local \ Used : peer[a] = 0 /\ delivered[a] = <<>>

\* A stream has the id of its client, but for one of ours that was not answered.
Named(peer, id) ==
    /\ id \in Used
    /\ IF streams[id].opening
       THEN /\ streams[id].remote = 0
            /\ streams[id].pending = <<>> /\ delivered[id] = <<>>
       ELSE streams[id].remote = peer[id] /\ peer[id] # 0

\* What is pending follows what was written.
Numbered(id) ==
    /\ streams[id].offset = Len(delivered[id]) % 2
    /\ streams[id].offset = 1 => streams[id].pending # <<>>
    /\ \A j \in DOMAIN streams[id].pending : streams[id].pending[j] = Written(id) + j

\* What is under way to a stream is what its state expects.
Expected(id) ==
    /\ \A i \in DOMAIN inq : inq[i].to = id =>
        /\ ~streams[id].closing
        /\ IF inq[i].command = "OKAY"
           THEN streams[id].opening \/ streams[id].waiting
           ELSE streams[id].opening => inq[i].from = 0 \/ \E j \in Okays(id) : j < i
    /\ \A i, j \in Okays(id) : i = j

\* The data under way follows what was accepted, without a gap, up to the last write.
Gapless(id) ==
    /\ \A i \in Writes(id) :
        /\ inq[i].data > Accepted(id)
        /\ \A j \in Writes(id) : i < j => inq[i].data < inq[j].data
        /\ \A n \in (Accepted(id) + 1)..(inq[i].data - 1) :
            \E j \in Writes(id) : j < i /\ inq[j].data = n
    /\ \A r \in Writers(id) :
        /\ Accepted(id) <= client[r].wrote
        /\ \A i \in Writes(id) : inq[i].data <= client[r].wrote
        /\ \A n \in (Accepted(id) + 1)..client[r].wrote :
            \E j \in Writes(id) : inq[j].data = n

\* One output is under way, or to be acknowledged, or its acknowledgement is.
Unacked(id) == streams[id].waiting /\ ~streams[id].opening /\ Okays(id) = {}

OneOutput(id) ==
    /\ \A i \in DOMAIN outq : outq[i].command = "WRTE" /\ outq[i].from = id =>
        /\ Unacked(id)
        /\ \A j \in DOMAIN outq : outq[j].command = "WRTE" /\ outq[j].from = id => i = j
    /\ \A r \in Writers(id) : client[r].owes =>
        /\ Unacked(id)
        /\ \A i \in DOMAIN outq : outq[i].command = "WRTE" => outq[i].from # id

At(peer, id) ==
    Named(peer, id) /\ Numbered(id) /\ Expected(id) /\ Gapless(id) /\ OneOutput(id)

\* Each packet of the client names a stream it was told of; an id is not opened
\* twice, and nothing follows a close.
Received(peer) ==
    /\ \A i \in DOMAIN inq :
        IF inq[i].command = "OPEN"
        THEN /\ inq[i].from \in Remote /\ inq[i].to = 0
             /\ client[inq[i].from].state # "idle"
             /\ \A id \in Local : peer[id] # inq[i].from
        ELSE /\ inq[i].to \in Used
             /\ inq[i].from = peer[inq[i].to]
             /\ inq[i].command # "CLSE" => inq[i].from # 0
    /\ \A i, j \in DOMAIN inq :
        /\ inq[i].command = "OPEN" /\ inq[j].command = "OPEN" /\ inq[i].from = inq[j].from
            => i = j
        /\ i < j /\ inq[i].command = "CLSE" => inq[j].to # inq[i].to

\* So does each packet of the device, but for a close, which may name nothing.
Sent(peer) ==
    /\ \A i \in DOMAIN outq :
        /\ outq[i].command # "CLSE" => outq[i].from \in Used
        /\ outq[i].command \in {"OKAY", "WRTE"} =>
            peer[outq[i].from] = outq[i].to /\ outq[i].to # 0
        /\ outq[i].command = "OPEN" =>
            /\ outq[i].to = 0
            /\ peer[outq[i].from] = 0
            /\ \A j \in DOMAIN inq : inq[j].to # outq[i].from
            /\ outq[i].from \in DOMAIN streams => ~streams[outq[i].from].closing
    /\ \A i, j \in DOMAIN outq :
        outq[i].command = "OPEN" /\ outq[j].command = "OPEN" /\ outq[i].from = outq[j].from
            => i = j

\* What a client knows of a stream.
Knows(peer, r) ==
    /\ client[r].state = "idle" => client[r] = Idle /\ \A id \in Local : peer[id] # r
    /\ client[r].state = "opening" =>
        /\ client[r] = [Idle EXCEPT !.state = "opening"]
        /\ \A id \in Local : peer[id] = r =>
            /\ delivered[id] = <<>>
            /\ \A i \in DOMAIN inq : inq[i].to # id
            /\ id \in DOMAIN streams =>
                ~streams[id].opening /\ ~streams[id].closing /\ streams[id].pending = <<>>
    /\ client[r].state = "open" =>
        /\ client[r].local \in Used
        /\ peer[client[r].local] = r
        /\ \A i \in DOMAIN inq : inq[i].command = "CLSE" => inq[i].to # client[r].local
        /\ client[r].local \in DOMAIN streams =>
            /\ ~streams[client[r].local].closing
            /\ streams[client[r].local].opening => Okays(client[r].local) # {}

Protocol(peer) ==
    /\ Names(peer) /\ Received(peer) /\ Sent(peer)
    /\ \A id \in DOMAIN streams : At(peer, id)
    /\ \A r \in Remote : Knows(peer, r)

Sound == ~dead => \E peer \in [Local -> Remote \cup {0}] : Protocol(peer)
Room == \A id \in Local : service[id].unread <= SocketSize

IInv == TypeOK /\ Room /\ InOrder /\ Sound

-----------------------------------------------------------------------------
(* Types *)

LEMMA ConstantTypes ==
    /\ Remote \subseteq Nat /\ 0 \notin Remote
    /\ MaxLocal \in Nat /\ SocketSize \in Nat /\ MaxStreams \in Nat
    /\ PendingLimit \in Nat /\ TotalLimit \in Nat /\ OutLimit \in Nat
<1>1. /\ MaxLocal \in Nat /\ SocketSize \in Nat /\ MaxStreams \in Nat
      /\ PendingLimit \in Nat /\ TotalLimit \in Nat /\ OutLimit \in Nat
  BY ConstantsAssumption, Zenon
<1>2. QED
  BY <1>1, ConstantsAssumption

LEMMA PeerTypes ==
    ASSUME NEW peer \in [Local -> Remote \cup {0}], NEW id \in Local
    PROVE  id \in Nat /\ peer[id] \in Nat
<1>1. id \in Nat
  BY ConstantTypes DEF Local
<1>2. CASE peer[id] = 0
  BY <1>1, <1>2
<1>3. CASE peer[id] \in Remote
  BY <1>1, <1>3, ConstantTypes
<1>4. QED
  BY <1>2, <1>3

LEMMA PacketFields ==
    ASSUME NEW p \in Packet
    PROVE  /\ p.command \in {"OPEN", "OKAY", "CLSE", "WRTE"}
           /\ p.from \in Nat /\ p.to \in Nat
           /\ p.command = "WRTE" => p.data \in Nat
BY DEF Packet

LEMMA PacketKinds ==
    ASSUME NEW a \in Nat, NEW b \in Nat, NEW n \in Nat
    PROVE  /\ Open(a) \in Packet /\ Okay(a, b) \in Packet
           /\ Close(a, b) \in Packet /\ Write(a, b, n) \in Packet
BY DEF Open, Okay, Close, Write, Packet

\* What the device takes from its input.
LEMMA HeadOfInput ==
    ASSUME TypeOK, inq # <<>>
    PROVE  /\ 1 \in DOMAIN inq /\ Head(inq) = inq[1]
           /\ Head(inq) \in Packet
           /\ Tail(inq) \in Seq(Packet)
           /\ Len(Tail(inq)) = Len(inq) - 1
           /\ \A i \in DOMAIN Tail(inq) : i + 1 \in DOMAIN inq /\ Tail(inq)[i] = inq[i + 1]
           /\ \A i \in DOMAIN inq : i # 1 => i - 1 \in DOMAIN Tail(inq)
<1>1. inq \in Seq(Packet) /\ Len(inq) \in Nat /\ DOMAIN inq = 1..Len(inq)
  BY LenProperties DEF TypeOK
<1>2. Len(inq) # 0
  BY <1>1, EmptySeq
<1>3. /\ Head(inq) \in Packet /\ Tail(inq) \in Seq(Packet)
      /\ Len(Tail(inq)) = Len(inq) - 1
      /\ \A i \in 1..Len(Tail(inq)) : Tail(inq)[i] = inq[i + 1]
  BY <1>1, HeadTailProperties
<1>4. DOMAIN Tail(inq) = 1..(Len(inq) - 1)
  BY <1>3, LenProperties
<1>5. Head(inq) = inq[1]
  BY <1>1, <1>2
<1>6. QED
  BY <1>1, <1>2, <1>3, <1>4, <1>5

LEMMA InitHolds == Init => IInv
<1> SUFFICES ASSUME Init PROVE IInv
  OBVIOUS
<1>1. TypeOK
  <2>1. <<>> \in Seq(Packet) /\ <<>> \in Seq(Nat)
    BY EmptySeq
  <2>2. DOMAIN streams = {}
    BY DEF Init
  <2>3. streams \in [DOMAIN streams -> Stream]
    BY DEF Init
  <2>4. next \in 1..(MaxLocal + 1)
    BY ConstantTypes DEF Init
  <2>5. service \in [Local -> FarEnd]
    BY DEF Init, Gone, FarEnd
  <2>6. client \in [Remote -> [state : {"idle", "opening", "open", "closed"},
                              local : Nat, wrote : Nat, blocked : BOOLEAN,
                              owes : BOOLEAN]]
    BY DEF Init, Idle
  <2>7. dead \in BOOLEAN
    BY DEF Init
  <2>8. QED
    BY <2>1, <2>2, <2>3, <2>4, <2>5, <2>6, <2>7 DEF Init, TypeOK
<1>2. Room
  BY ConstantTypes DEF Init, Room, Gone
<1>3. InOrder
  BY DEF Init, InOrder
<1>4. Sound
  <2>1. PICK peer \in [Local -> Remote \cup {0}] : \A id \in Local : peer[id] = 0
    <3>1. [id \in Local |-> 0] \in [Local -> Remote \cup {0}]
      OBVIOUS
    <3>2. QED
      BY <3>1
  <2>2. DOMAIN streams = {} /\ DOMAIN inq = {} /\ DOMAIN outq = {}
    BY DEF Init
  <2>3. Names(peer) /\ Received(peer) /\ Sent(peer)
    BY <2>1, <2>2 DEF Init, Names, Received, Sent
  <2>4. \A r \in Remote : Knows(peer, r)
    BY <2>1, ConstantTypes DEF Init, Knows, Idle
  <2>5. Protocol(peer)
    BY <2>2, <2>3, <2>4 DEF Protocol
  <2>6. QED
    BY <2>5 DEF Sound
<1>5. QED
  BY <1>1, <1>2, <1>3, <1>4 DEF IInv

-----------------------------------------------------------------------------
(* Connection::handle *)

\* No packet of a client that keeps to the protocol is an error but for the limits.
LEMMA LegalInput ==
    ASSUME TypeOK, NEW peer \in [Local -> Remote \cup {0}], Protocol(peer), inq # <<>>,
           NEW p, p = Head(inq)
    PROVE  /\ p.command = "OPEN" =>
                /\ p.from \in Remote
                /\ \A id \in DOMAIN streams : streams[id].remote # p.from
           /\ p.command # "OPEN" => p.to \in Local /\ p.from = peer[p.to]
           /\ p.command = "OKAY" /\ Exists(p.to) =>
                /\ p.from \in Remote
                /\ IF streams[p.to].opening THEN streams[p.to].remote = 0
                   ELSE streams[p.to].remote = p.from /\ streams[p.to].waiting
           /\ p.command = "WRTE" => p.from \in Remote
           /\ p.command = "WRTE" /\ Exists(p.to) =>
                /\ streams[p.to].remote = p.from
                /\ ~streams[p.to].opening /\ ~streams[p.to].closing
           /\ p.command = "CLSE" /\ Exists(p.to) =>
                \/ p.from = streams[p.to].remote
                \/ streams[p.to].opening /\ p.from = 0
<1>1. /\ 1 \in DOMAIN inq /\ p = inq[1] /\ p \in Packet
  BY HeadOfInput
<1>2. DOMAIN inq \subseteq Nat \ {0}
  BY LenProperties DEF TypeOK
<1>3. Received(peer) /\ \A id \in DOMAIN streams : Named(peer, id) /\ Expected(id)
  BY DEF Protocol, At
<1>4. IF p.command = "OPEN"
      THEN p.from \in Remote /\ \A id \in Local : peer[id] # p.from
      ELSE /\ p.to \in Local /\ p.from = peer[p.to]
           /\ p.command # "CLSE" => p.from # 0
  BY <1>1, <1>3 DEF Received, Used
<1>5. Exists(p.to) =>
        /\ ~streams[p.to].closing
        /\ IF p.command = "OKAY"
           THEN streams[p.to].opening \/ streams[p.to].waiting
           ELSE streams[p.to].opening => p.from = 0
  BY <1>1, <1>2, <1>3 DEF Expected, Exists, Okays
<1>6. \A id \in DOMAIN streams :
        IF streams[id].opening THEN streams[id].remote = 0
                               ELSE streams[id].remote = peer[id]
  BY <1>3 DEF Named
<1>7. DOMAIN streams \subseteq Local /\ 0 \notin Remote
  BY ConstantTypes DEF TypeOK
<1>8. p.command = "OPEN" => \A id \in DOMAIN streams : streams[id].remote # p.from
  BY <1>4, <1>6, <1>7
<1>9. p.command # "OPEN" /\ p.command # "CLSE" => p.from \in Remote
  BY <1>4
<1>10. QED
  BY <1>4, <1>5, <1>6, <1>8, <1>9 DEF Exists


-----------------------------------------------------------------------------
(* What a step does not touch *)

\* What is for a stream in the input was there before, k places further on.
InputKept(id, k) ==
    \A i \in DOMAIN inq' : inq'[i].to = id => i + k \in DOMAIN inq /\ inq'[i] = inq[i + k]

\* Its acknowledgements, and its data, are there still.
OkaysKept(id, k) ==
    \A i \in Okays(id) : i - k \in DOMAIN inq' /\ inq'[i - k] = inq[i]
WritesKept(id, k) ==
    \A i \in Writes(id) : i - k \in DOMAIN inq' /\ inq'[i - k] = inq[i]

\* Only a packet of its client begins the close of a stream.
SameClosing ==
    \A j \in Used : j \in DOMAIN streams' /\ (\A i \in DOMAIN inq : inq[i].to # j) =>
        j \in DOMAIN streams /\ streams'[j].closing = streams[j].closing

SameInput(id, k) == InputKept(id, k) /\ OkaysKept(id, k) /\ WritesKept(id, k)

\* The outputs of a stream under way are the same.
SameOutput(id, k) ==
    \A i \in DOMAIN outq' : outq'[i].command = "WRTE" /\ outq'[i].from = id =>
        i + k \in DOMAIN outq /\ outq'[i] = outq[i + k]

\* Its clients have written the same, and owe no more.
SameWriters(id) ==
    \A r \in Writers(id)' :
        /\ r \in Writers(id)
        /\ client'[r].wrote = client[r].wrote
        /\ client'[r].owes => client[r].owes

LEMMA SameOkays ==
    ASSUME NEW id, NEW k \in {0, 1}, InputKept(id, k),
           \A i \in DOMAIN inq : i \in Nat, \A i \in DOMAIN inq' : i \in Nat
    PROVE  /\ \A i \in Okays(id)' : i + k \in Okays(id) /\ i \in Nat
           /\ OkaysKept(id, k) => \A i \in Okays(id) : i - k \in Okays(id)' /\ i \in Nat
BY DEF InputKept, OkaysKept, Okays

LEMMA SameWrites ==
    ASSUME NEW id, NEW k \in {0, 1}, InputKept(id, k), WritesKept(id, k),
           \A i \in DOMAIN inq : i \in Nat, \A i \in DOMAIN inq' : i \in Nat
    PROVE  /\ \A i \in Writes(id) : i - k \in Writes(id)' /\ inq'[i - k] = inq[i] /\ i \in Nat
           /\ \A i \in Writes(id)' : i + k \in Writes(id) /\ inq'[i] = inq[i + k] /\ i \in Nat
BY DEF InputKept, WritesKept, Writes, Data

LEMMA SameExpected ==
    ASSUME NEW id, NEW k \in {0, 1}, InputKept(id, k), OkaysKept(id, k),
           \A i \in DOMAIN inq : i \in Nat, \A i \in DOMAIN inq' : i \in Nat,
           streams'[id].closing = streams[id].closing,
           streams'[id].opening = streams[id].opening,
           streams[id].waiting => streams'[id].waiting,
           Expected(id)
    PROVE  Expected(id)'
<1>1. /\ \A i \in Okays(id) : i - k \in Okays(id)' /\ i \in Nat
      /\ \A i \in Okays(id)' : i + k \in Okays(id) /\ i \in Nat
  BY SameOkays
<1>2. \A i \in DOMAIN inq' : inq'[i].to = id =>
        i + k \in DOMAIN inq /\ inq'[i] = inq[i + k] /\ i \in Nat
  BY DEF InputKept
<1>3. \A i, j \in Okays(id)' : i = j
  BY <1>1 DEF Expected
<1>4. ASSUME NEW i \in DOMAIN inq', inq'[i].to = id
      PROVE  /\ ~streams[id].closing
             /\ IF inq'[i].command = "OKAY"
                THEN streams[id].opening \/ streams[id].waiting
                ELSE streams[id].opening => inq'[i].from = 0 \/ \E j \in Okays(id)' : j < i
  <2>1. i \in Nat
    BY <1>2, <1>4
  <2>2. i + k \in DOMAIN inq /\ inq'[i] = inq[i + k]
    BY <1>2, <1>4
  <2>3. \A j \in Okays(id) : j < i + k => j - k \in Okays(id)' /\ j - k < i
    BY <1>1, <2>1
  <2>4. QED
    BY <1>4, <2>2, <2>3 DEF Expected
<1>5. QED
  BY <1>3, <1>4 DEF Expected

LEMMA SameGapless ==
    ASSUME NEW id, NEW k \in {0, 1}, InputKept(id, k), WritesKept(id, k), SameWriters(id),
           \A i \in DOMAIN inq : i \in Nat, \A i \in DOMAIN inq' : i \in Nat,
           Accepted(id)' = Accepted(id),
           Gapless(id)
    PROVE  Gapless(id)'
<1>1. /\ \A i \in Writes(id) : i - k \in Writes(id)' /\ inq'[i - k] = inq[i] /\ i \in Nat
      /\ \A i \in Writes(id)' : i + k \in Writes(id) /\ inq'[i] = inq[i + k] /\ i \in Nat
  BY SameWrites
<1>2. ASSUME NEW i \in Writes(id)'
      PROVE  /\ inq'[i].data > Accepted(id)
             /\ \A j \in Writes(id)' : i < j => inq'[i].data < inq'[j].data
             /\ \A n \in (Accepted(id) + 1)..(inq'[i].data - 1) :
                 \E j \in Writes(id)' : j < i /\ inq'[j].data = n
  <2>1. i \in Nat
    BY <1>1
  <2>2. i + k \in Writes(id) /\ inq'[i] = inq[i + k]
    BY <1>1
  <2>3. inq'[i].data > Accepted(id)
    BY <2>2 DEF Gapless
  <2>4. ASSUME NEW j \in Writes(id)', i < j PROVE inq'[i].data < inq'[j].data
    <3>1. j \in Nat
      BY <1>1
    <3>2. j + k \in Writes(id) /\ inq'[j] = inq[j + k]
      BY <1>1
    <3>3. i + k < j + k
      BY <2>1, <2>4, <3>1
    <3>4. QED
      BY <2>2, <3>2, <3>3 DEF Gapless
  <2>5. ASSUME NEW n \in (Accepted(id) + 1)..(inq'[i].data - 1)
        PROVE  \E j \in Writes(id)' : j < i /\ inq'[j].data = n
    <3>1. PICK j \in Writes(id) : j < i + k /\ inq[j].data = n
      BY <2>2, <2>5 DEF Gapless
    <3>2. j \in Nat
      BY <1>1
    <3>3. j - k < i
      BY <2>1, <3>1, <3>2
    <3>4. j - k \in Writes(id)' /\ inq'[j - k] = inq[j]
      BY <1>1
    <3>5. QED
      BY <3>1, <3>3, <3>4
  <2>6. QED
    BY <2>3, <2>4, <2>5
<1>3. ASSUME NEW r \in Writers(id)'
      PROVE  /\ Accepted(id) <= client'[r].wrote
             /\ \A i \in Writes(id)' : inq'[i].data <= client'[r].wrote
             /\ \A n \in (Accepted(id) + 1)..client'[r].wrote :
                 \E j \in Writes(id)' : inq'[j].data = n
  <2>1. r \in Writers(id) /\ client'[r].wrote = client[r].wrote
    BY DEF SameWriters
  <2>2. Accepted(id) <= client'[r].wrote
    BY <2>1 DEF Gapless
  <2>3. \A i \in Writes(id)' : inq'[i].data <= client'[r].wrote
    BY <1>1, <2>1 DEF Gapless
  <2>4. \A n \in (Accepted(id) + 1)..client'[r].wrote : \E j \in Writes(id)' : inq'[j].data = n
    BY <1>1, <2>1 DEF Gapless
  <2>5. QED
    BY <2>2, <2>3, <2>4
<1>4. QED
  BY <1>2, <1>3 DEF Gapless

LEMMA SameOneOutput ==
    ASSUME NEW id, NEW k \in {0, 1}, NEW m \in {0, 1}, InputKept(id, k),
           SameOutput(id, m), SameWriters(id),
           \A i \in DOMAIN inq : i \in Nat, \A i \in DOMAIN inq' : i \in Nat,
           \A i \in DOMAIN outq : i \in Nat, \A i \in DOMAIN outq' : i \in Nat,
           streams'[id].opening = streams[id].opening,
           streams[id].waiting => streams'[id].waiting,
           OneOutput(id)
    PROVE  OneOutput(id)'
<1>1. Okays(id) = {} => Okays(id)' = {}
  BY SameOkays
<1>2. Unacked(id) => Unacked(id)'
  BY <1>1 DEF Unacked
<1>3. ASSUME NEW i \in DOMAIN outq', outq'[i].command = "WRTE", outq'[i].from = id
      PROVE  i \in Nat /\ i + m \in DOMAIN outq /\ outq'[i] = outq[i + m]
  BY <1>3 DEF SameOutput
<1>4. ASSUME NEW i \in DOMAIN outq', outq'[i].command = "WRTE", outq'[i].from = id
      PROVE  /\ Unacked(id)'
             /\ \A j \in DOMAIN outq' : outq'[j].command = "WRTE" /\ outq'[j].from = id => i = j
  <2>1. Unacked(id)
    BY <1>3, <1>4 DEF OneOutput
  <2>2. ASSUME NEW j \in DOMAIN outq', outq'[j].command = "WRTE", outq'[j].from = id
        PROVE  i = j
    <3>1. i + m = j + m
      BY <1>3, <1>4, <2>2 DEF OneOutput
    <3>2. i \in Nat
      BY <1>3, <1>4
    <3>3. j \in Nat
      BY <1>3, <2>2
    <3>4. QED
      BY <3>1, <3>2, <3>3
  <2>3. QED
    BY <1>2, <2>1, <2>2
<1>5. ASSUME NEW r \in Writers(id)', client'[r].owes
      PROVE  /\ Unacked(id)'
             /\ \A i \in DOMAIN outq' : outq'[i].command = "WRTE" => outq'[i].from # id
  <2>1. r \in Writers(id) /\ client[r].owes
    BY <1>5 DEF SameWriters
  <2>2. QED
    BY <1>2, <1>3, <2>1 DEF OneOutput
<1>6. QED
  BY <1>4, <1>5 DEF OneOutput

\* A stream that a step does not touch stays sound.
LEMMA SameAt ==
    ASSUME NEW peer, NEW q, NEW id, streams'[id] = streams[id],
           delivered'[id] = delivered[id], q[id] = peer[id], Used \subseteq Used',
           NEW k \in {0, 1}, SameInput(id, k), NEW m \in {0, 1}, SameOutput(id, m),
           SameWriters(id),
           \A i \in DOMAIN inq : i \in Nat, \A i \in DOMAIN inq' : i \in Nat,
           \A i \in DOMAIN outq : i \in Nat, \A i \in DOMAIN outq' : i \in Nat,
           At(peer, id)
    PROVE  At(q, id)'
<1>1. Named(q, id)'
  BY DEF At, Named
<1>2. Numbered(id)' /\ Accepted(id)' = Accepted(id)
  BY DEF At, Numbered, Accepted, Written
<1>3. Expected(id)' /\ Gapless(id)' /\ OneOutput(id)'
  BY <1>2, SameExpected, SameGapless, SameOneOutput DEF At, SameInput
<1>4. QED
  BY <1>1, <1>2, <1>3 DEF At

\* So does a client.
LEMMA SameKnows ==
    ASSUME NEW peer, NEW q, NEW r, client'[r] = client[r],
           \A id \in Local : q[id] = r <=> peer[id] = r, Used \subseteq Used',
           NEW k \in {0, 1}, Used \subseteq Local,
           \A i \in DOMAIN inq : i \in Nat, \A i \in DOMAIN inq' : i \in Nat,
           \A id \in Local : peer[id] = r =>
                /\ SameInput(id, k)
                /\ delivered'[id] = delivered[id]
                /\ id \in DOMAIN streams' =>
                    /\ id \in DOMAIN streams
                    /\ streams'[id].opening = streams[id].opening
                    /\ streams'[id].closing = streams[id].closing
                    /\ streams'[id].pending = streams[id].pending,
           Knows(peer, r)
    PROVE  Knows(q, r)'
<1>1. client[r].state = "idle" => client[r] = Idle /\ \A id \in Local : q[id] # r
  BY DEF Knows
<1>2. ASSUME client[r].state = "opening"
      PROVE  /\ client[r] = [Idle EXCEPT !.state = "opening"]
             /\ \A id \in Local : q[id] = r =>
                 /\ delivered'[id] = <<>>
                 /\ \A i \in DOMAIN inq' : inq'[i].to # id
                 /\ id \in DOMAIN streams' =>
                     ~streams'[id].opening /\ ~streams'[id].closing /\ streams'[id].pending = <<>>
  <2>1. ASSUME NEW id \in Local, peer[id] = r PROVE \A i \in DOMAIN inq' : inq'[i].to # id
    BY <1>2, <2>1 DEF Knows, SameInput, InputKept
  <2>2. QED
    BY <1>2, <2>1 DEF Knows
<1>3. ASSUME client[r].state = "open"
      PROVE  /\ client[r].local \in Used'
             /\ q[client[r].local] = r
             /\ \A i \in DOMAIN inq' : inq'[i].command = "CLSE" => inq'[i].to # client[r].local
             /\ client[r].local \in DOMAIN streams' =>
                 /\ ~streams'[client[r].local].closing
                 /\ streams'[client[r].local].opening => Okays(client[r].local)' # {}
  <2> DEFINE id == client[r].local
  <2>1. id \in Used /\ peer[id] = r
    BY <1>3 DEF Knows
  <2>2. id \in Local /\ SameInput(id, k)
    BY <2>1
  <2>3. PICK a : a = id
    OBVIOUS
  <2>4. Okays(a) # {} => Okays(a)' # {}
    BY <2>2, <2>3, SameOkays DEF SameInput
  <2>5. \A i \in DOMAIN inq' : inq'[i].command = "CLSE" => inq'[i].to # id
    BY <1>3, <2>2 DEF Knows, SameInput, InputKept
  <2>6. id \in DOMAIN streams' =>
            /\ ~streams'[id].closing
            /\ streams'[id].opening => Okays(a) # {}
    BY <1>3, <2>1, <2>2, <2>3 DEF Knows
  <2>7. client'[r].local = a
    BY <2>3
  <2>8. QED
    BY <2>1, <2>2, <2>3, <2>4, <2>5, <2>6, <2>7
<1>4. QED
  BY <1>1, <1>2, <1>3 DEF Knows

LEMMA Indices ==
    ASSUME TypeOK
    PROVE  /\ \A i \in DOMAIN inq : i \in Nat /\ i >= 1
           /\ \A i \in DOMAIN outq : i \in Nat /\ i >= 1
           /\ Used \subseteq Local
<1>1. DOMAIN inq = 1..Len(inq) /\ DOMAIN outq = 1..Len(outq)
  BY LenProperties DEF TypeOK
<1>2. QED
  BY <1>1 DEF Used

-----------------------------------------------------------------------------
(* Connection::handle: the first packet of the input *)

Consumed ==
    /\ inq # <<>> /\ inq' = Tail(inq)
    /\ client' = client /\ delivered' = delivered

\* Acknowledgements and closes are all that a step adds to the output.
Quiet(peer) ==
    /\ outq' \in Seq(Packet)
    /\ \A i \in DOMAIN outq : i \in DOMAIN outq' /\ outq'[i] = outq[i]
    /\ \A i \in DOMAIN outq' \ DOMAIN outq :
        \/ outq'[i].command = "CLSE"
        \/ /\ outq'[i].command = "OKAY"
           /\ outq'[i].from \in Used
           /\ outq'[i].to = peer[outq'[i].from] /\ outq'[i].to # 0

LEMMA ConsumedInput ==
    ASSUME TypeOK, Consumed
    PROVE  /\ inq' \in Seq(Packet)
           /\ 1 \in DOMAIN inq /\ inq[1] = Head(inq)
           /\ \A i \in DOMAIN inq' : i \in Nat /\ i >= 1
           /\ \A i \in DOMAIN inq' : i + 1 \in DOMAIN inq /\ inq'[i] = inq[i + 1]
           /\ \A i \in DOMAIN inq : i # 1 => i - 1 \in DOMAIN inq' /\ inq'[i - 1] = inq[i]
<1>1. inq' \in Seq(Packet) /\ 1 \in DOMAIN inq /\ inq[1] = Head(inq)
  BY HeadOfInput DEF Consumed
<1>2. DOMAIN inq = 1..Len(inq) /\ DOMAIN inq' = 1..Len(inq')
  BY <1>1, LenProperties DEF TypeOK
<1>3. Len(inq) \in Nat /\ Len(inq') \in Nat
  BY <1>1, LenProperties DEF TypeOK
<1>4. /\ \A i \in DOMAIN inq' : i + 1 \in DOMAIN inq /\ inq'[i] = inq[i + 1]
      /\ \A i \in DOMAIN inq : i # 1 => i - 1 \in DOMAIN inq'
  BY HeadOfInput DEF Consumed
<1>5. \A i \in DOMAIN inq : i # 1 => inq'[i - 1] = inq[i]
  BY <1>2, <1>3, <1>4
<1>6. QED
  BY <1>1, <1>2, <1>3, <1>4, <1>5

\* What the first packet is not for loses nothing.
LEMMA ConsumedKeeps ==
    ASSUME TypeOK, Consumed, NEW id
    PROVE  /\ InputKept(id, 1)
           /\ Head(inq) = inq[1] /\ inq[1].to # id => SameInput(id, 1)
           /\ inq[1].command # "OKAY" => OkaysKept(id, 1)
           /\ inq[1].command # "WRTE" \/ inq[1].data = 0 => WritesKept(id, 1)
           /\ SameWriters(id)
<1>1. InputKept(id, 1)
  BY ConsumedInput DEF InputKept
<1>2. inq[1].to # id \/ inq[1].command # "OKAY" => OkaysKept(id, 1)
  BY ConsumedInput DEF OkaysKept, Okays
<1>3. inq[1].to # id \/ inq[1].command # "WRTE" \/ inq[1].data = 0 => WritesKept(id, 1)
  BY ConsumedInput DEF WritesKept, Writes, Data
<1>4. SameWriters(id)
  BY DEF SameWriters, Writers, Consumed
<1>5. QED
  BY <1>1, <1>2, <1>3, <1>4 DEF SameInput

LEMMA ConsumedReceived ==
    ASSUME TypeOK, NEW peer, NEW q, Received(peer), Consumed, Used \subseteq Used',
           \A id \in Used : q[id] = peer[id],
           \A i \in DOMAIN inq' : inq'[i].command = "OPEN" =>
                \A id \in Local : q[id] # inq'[i].from
    PROVE  Received(q)'
<1>1. /\ \A i \in DOMAIN inq' : i \in Nat /\ i + 1 \in DOMAIN inq /\ inq'[i] = inq[i + 1]
      /\ client' = client
  BY ConsumedInput DEF Consumed
<1>2. \A i \in DOMAIN inq' :
        IF inq'[i].command = "OPEN"
        THEN /\ inq'[i].from \in Remote /\ inq'[i].to = 0
             /\ client[inq'[i].from].state # "idle"
             /\ \A id \in Local : q[id] # inq'[i].from
        ELSE /\ inq'[i].to \in Used
             /\ inq'[i].from = q[inq'[i].to]
             /\ inq'[i].command # "CLSE" => inq'[i].from # 0
  BY <1>1 DEF Received
<1>3. \A i, j \in DOMAIN inq' :
        /\ inq'[i].command = "OPEN" /\ inq'[j].command = "OPEN" /\ inq'[i].from = inq'[j].from
            => i = j
        /\ i < j /\ inq'[i].command = "CLSE" => inq'[j].to # inq'[i].to
  BY <1>1 DEF Received
<1>4. QED
  BY <1>1, <1>2, <1>3 DEF Received

\* Adding one such packet, or none, is quiet.
LEMMA QuietSends ==
    ASSUME TypeOK, NEW peer \in [Local -> Remote \cup {0}],
           \/ outq' = outq
           \/ \E a, b \in Nat : Send(Close(a, b))
           \/ \E id \in Used : peer[id] # 0 /\ Send(Okay(id, peer[id]))
    PROVE  Quiet(peer)
<1>1. outq \in Seq(Packet)
  BY DEF TypeOK
<1>2. CASE outq' = outq
  BY <1>1, <1>2 DEF Quiet
<1>3. ASSUME NEW a \in Nat, NEW b \in Nat, Send(Close(a, b)) PROVE Quiet(peer)
  <2>1. Close(a, b) \in Packet /\ Close(a, b).command = "CLSE"
    BY PacketKinds DEF Close
  <2>2. QED
    BY <1>1, <1>3, <2>1, AppendProperties, LenProperties DEF Quiet, Send
<1>4. ASSUME NEW id \in Used, peer[id] # 0, Send(Okay(id, peer[id]))
      PROVE  Quiet(peer)
  <2>1. id \in Nat /\ peer[id] \in Nat
    BY Indices, PeerTypes
  <2>2. Okay(id, peer[id]) \in Packet
    BY <2>1, PacketKinds
  <2>3. QED
    BY <1>1, <1>4, <2>2, AppendProperties, LenProperties DEF Quiet, Send, Okay
<1>5. QED
  BY <1>2, <1>3, <1>4
LEMMA QuietSent ==
    ASSUME NEW peer, Sent(peer), Quiet(peer), Used \subseteq Used',
           \A i \in DOMAIN inq' : \E j \in DOMAIN inq : inq'[i] = inq[j],
           SameClosing
    PROVE  Sent(peer)'
BY DEF Sent, Quiet, SameClosing

LEMMA QuietOutput ==
    ASSUME TypeOK, NEW peer, Quiet(peer), NEW id
    PROVE  SameOutput(id, 0) /\ \A i \in DOMAIN outq' : i \in Nat
<1>1. outq' \in Seq(Packet)
  BY DEF Quiet
<1>2. \A i \in DOMAIN outq' : i \in Nat
  BY <1>1, LenProperties
<1>3. QED
  BY <1>2 DEF Quiet, SameOutput

\* A step of handle is sound if it is so for the stream it is about.
LEMMA HandleFrame ==
    ASSUME TypeOK, NEW peer \in [Local -> Remote \cup {0}], Protocol(peer),
           Consumed, Quiet(peer), next' = next,
           NEW id, id = Head(inq).to,
           DOMAIN streams' = DOMAIN streams,
           \A j \in DOMAIN streams : j # id => streams'[j] = streams[j],
           id \in DOMAIN streams =>
                At(peer, id)' /\ \A r \in Remote : peer[id] = r => Knows(peer, r)'
    PROVE  Protocol(peer)'
<1>1. /\ Used' = Used /\ Used \subseteq Local
      /\ \A i \in DOMAIN inq : i \in Nat
      /\ \A i \in DOMAIN inq' : i \in Nat
  BY Indices, ConsumedInput DEF Used
<1>2. Names(peer)'
  BY <1>1 DEF Protocol, Names, Consumed
<1>3. Received(peer)'
  <2>1. \A i \in DOMAIN inq' : inq'[i].command = "OPEN" =>
            \A j \in Local : peer[j] # inq'[i].from
    BY ConsumedInput DEF Protocol, Received
  <2>2. QED
    BY <1>1, <2>1, ConsumedReceived DEF Protocol
<1>4. Sent(peer)'
  <2>1. SameClosing
    BY ConsumedInput DEF SameClosing
  <2>2. QED
    BY <1>1, <2>1, ConsumedInput, QuietSent DEF Protocol
<1>5. \A j \in DOMAIN streams : j # id => At(peer, j)'
  <2>1. ASSUME NEW j \in DOMAIN streams, j # id PROVE At(peer, j)'
    <3>1. SameInput(j, 1) /\ SameWriters(j)
      BY <2>1, ConsumedKeeps, ConsumedInput
    <3>2. SameOutput(j, 0) /\ \A i \in DOMAIN outq' : i \in Nat
      BY QuietOutput
    <3>3. At(peer, j) /\ streams'[j] = streams[j] /\ delivered'[j] = delivered[j]
      BY <2>1 DEF Protocol, Consumed
    <3>4. QED
      BY <1>1, <3>1, <3>2, <3>3, Indices, SameAt
  <2>2. QED
    BY <2>1
<1>6. ASSUME NEW r \in Remote, ~(id \in DOMAIN streams /\ peer[id] = r) PROVE Knows(peer, r)'
  <2>1. Knows(peer, r) /\ client' = client /\ delivered' = delivered
    BY DEF Protocol, Consumed
  <2>2. \A j \in Local : peer[j] = r /\ j \in DOMAIN streams => streams'[j] = streams[j]
    BY <1>6
  <2>3. ASSUME client[r].state = "opening", NEW j \in Local, peer[j] = r
        PROVE  \A i \in DOMAIN inq' : inq'[i].to # j
    BY <2>1, <2>3, ConsumedKeeps, SMTT(30) DEF Knows, InputKept
  <2>4. ASSUME client[r].state = "open", NEW j, j = client[r].local
        PROVE  /\ \A i \in DOMAIN inq' : inq'[i].command = "CLSE" => inq'[i].to # j
               /\ j \in DOMAIN streams' /\ streams'[j].opening => Okays(j)' # {}
    <3>1. InputKept(j, 1) /\ j \in Local /\ peer[j] = r
      BY <1>1, <2>1, <2>4, ConsumedKeeps DEF Knows
    <3>2. \A i \in DOMAIN inq' : inq'[i].command = "CLSE" => inq'[i].to # j
      BY <2>1, <2>4, <3>1 DEF Knows, InputKept
    <3>3. ASSUME j \in DOMAIN streams', streams'[j].opening PROVE Okays(j)' # {}
      <4>1. j \in DOMAIN streams /\ j # id /\ streams[j].opening
        BY <1>6, <2>2, <3>1, <3>3
      <4>2. OkaysKept(j, 1)
        BY <4>1, ConsumedKeeps, ConsumedInput DEF SameInput
      <4>3. Okays(j) # {}
        BY <2>1, <2>4, <4>1 DEF Knows
      <4>4. QED
        BY <1>1, <3>1, <4>2, <4>3, SameOkays
    <3>4. QED
      BY <3>2, <3>3
  <2>5. client[r].state = "opening" => Knows(peer, r)'
    BY <2>1, <2>2, <2>3 DEF Knows
  <2>6. client[r].state = "idle" => Knows(peer, r)'
    BY <2>1 DEF Knows
  <2>7. ASSUME client[r].state = "open" PROVE Knows(peer, r)'
    <3>1. PICK j : j = client[r].local
      OBVIOUS
    <3>2. /\ \A i \in DOMAIN inq' : inq'[i].command = "CLSE" => inq'[i].to # j
          /\ j \in DOMAIN streams' /\ streams'[j].opening => Okays(j)' # {}
      BY <2>4, <2>7, <3>1
    <3>3. j \in Used' /\ peer[j] = r /\ j \in Local
      BY <1>1, <2>1, <2>7, <3>1 DEF Knows
    <3>4. j \in DOMAIN streams' => ~streams'[j].closing
      BY <2>1, <2>2, <2>7, <3>1, <3>3 DEF Knows
    <3>5. client'[r].local = j
      BY <2>1, <3>1
    <3>6. QED
      BY <2>1, <2>7, <3>2, <3>3, <3>4, <3>5 DEF Knows
  <2>8. client[r].state \notin {"idle", "opening", "open"} => Knows(peer, r)'
    BY <2>1 DEF Knows
  <2>9. QED
    BY <2>5, <2>6, <2>7, <2>8
<1>7. QED
  BY <1>2, <1>3, <1>4, <1>5, <1>6 DEF Protocol

\* The client of the stream that the first packet is for is open or has closed.
LEMMA HandledKnows ==
    ASSUME TypeOK, NEW peer \in [Local -> Remote \cup {0}], Protocol(peer), Consumed,
           next' = next, NEW id \in Local, id = inq[1].to,
           NEW r \in Remote, peer[id] = r,
           \/ inq[1].command = "CLSE"
           \/ ~streams'[id].closing /\ ~streams'[id].opening
    PROVE  Knows(peer, r)'
<1>1. Knows(peer, r) /\ client' = client /\ Used' = Used /\ 1 \in DOMAIN inq
  BY ConsumedInput DEF Protocol, Consumed, Used
<1>2. client[r].state # "idle" /\ client[r].state # "opening"
  BY <1>1 DEF Knows
<1>3. ASSUME client[r].state = "open", NEW j, j = client[r].local
      PROVE  /\ j = id /\ inq[1].command # "CLSE"
             /\ \A i \in DOMAIN inq' : inq'[i].command = "CLSE" => inq'[i].to # j
  <2>1. j \in Used /\ j \in Local /\ peer[j] = r
    BY <1>1, <1>3 DEF Knows, Used
  <2>2. j = id
    BY <2>1, ConstantTypes DEF Protocol, Names
  <2>3. inq[1].command # "CLSE"
    BY <1>1, <1>3, <2>2 DEF Knows
  <2>4. \A i \in DOMAIN inq' : inq'[i].command = "CLSE" => inq'[i].to # j
    BY <1>1, <1>3, ConsumedKeeps DEF Knows, InputKept
  <2>5. QED
    BY <2>2, <2>3, <2>4
<1>4. CASE client[r].state = "open"
  <2>1. client[r].local = id /\ id \in Used
    BY <1>1, <1>3, <1>4 DEF Knows
  <2>2. \A i \in DOMAIN inq' : inq'[i].command = "CLSE" => inq'[i].to # id
    BY <1>3, <1>4
  <2>3. ~streams'[id].closing /\ ~streams'[id].opening
    BY <1>3, <1>4
  <2>4. client'[r] = client[r] /\ id \in Used'
    BY <1>1, <2>1
  <2>5. QED
    BY <1>4, <2>1, <2>2, <2>3, <2>4 DEF Knows
<1>5. CASE client[r].state # "open"
  BY <1>1, <1>2, <1>5 DEF Knows
<1>6. QED
  BY <1>4, <1>5

\* A packet for no stream, and one without data, change no stream.
LEMMA HandleSkip ==
    ASSUME TypeOK, NEW peer \in [Local -> Remote \cup {0}], Protocol(peer),
           Consumed, Quiet(peer), next' = next, streams' = streams,
           NEW p, p = Head(inq),
           p.to \in DOMAIN streams =>
                /\ p.command = "WRTE" /\ p.data = 0
                /\ ~streams[p.to].closing /\ ~streams[p.to].opening
    PROVE  Protocol(peer)'
<1>1. PICK id : id = p.to
  OBVIOUS
<1>2. ASSUME id \in DOMAIN streams
      PROVE  At(peer, id)' /\ \A r \in Remote : peer[id] = r => Knows(peer, r)'
  <2>1. Used' = Used /\ id \in Local /\ inq[1] = p
    BY <1>2, HeadOfInput DEF Used, TypeOK, Consumed
  <2>2. SameInput(id, 1) /\ SameWriters(id)
    BY <1>1, <1>2, <2>1, ConsumedKeeps DEF SameInput
  <2>3. SameOutput(id, 0) /\ \A i \in DOMAIN outq' : i \in Nat
    BY QuietOutput
  <2>4. At(peer, id) /\ streams'[id] = streams[id] /\ delivered'[id] = delivered[id]
    BY <1>2 DEF Protocol, Consumed
  <2>5. \A i \in DOMAIN inq' : i \in Nat
    BY ConsumedInput
  <2>6. At(peer, id)'
    BY <2>1, <2>2, <2>3, <2>4, <2>5, Indices, SameAt
  <2>7. \A r \in Remote : peer[id] = r => Knows(peer, r)'
    BY <1>1, <1>2, <2>1, HandledKnows
  <2>8. QED
    BY <2>6, <2>7
<1>3. QED
  BY <1>1, <1>2, HandleFrame

\* The acknowledgement of an output, or the answer to an open of ours.
LEMMA HandleOkaySound ==
    ASSUME TypeOK, NEW peer \in [Local -> Remote \cup {0}], Protocol(peer),
           Consumed, Quiet(peer), next' = next,
           NEW p, p = Head(inq), p.command = "OKAY",
           NEW id \in DOMAIN streams, id = p.to,
           DOMAIN streams' = DOMAIN streams,
           \A j \in DOMAIN streams : j # id => streams'[j] = streams[j],
           streams'[id].pending = streams[id].pending,
           streams'[id].offset = streams[id].offset,
           streams'[id].closing = streams[id].closing,
           ~streams'[id].opening, streams'[id].remote = peer[id]
    PROVE  Protocol(peer)'
<1>1. /\ id \in Local /\ inq[1] = p /\ 1 \in DOMAIN inq /\ Used' = Used
      /\ \A i \in DOMAIN inq : i \in Nat /\ i >= 1
      /\ \A i \in DOMAIN inq' : i \in Nat /\ i >= 1
      /\ At(peer, id) /\ delivered' = delivered
  BY HeadOfInput, ConsumedInput, Indices DEF TypeOK, Used, Protocol, Consumed
<1>2. peer[id] # 0 /\ 1 \in Okays(id)
  BY <1>1 DEF Protocol, Received, Okays
<1>3. InputKept(id, 1) /\ WritesKept(id, 1) /\ SameWriters(id) /\ SameOutput(id, 0)
  BY <1>1, ConsumedKeeps, QuietOutput
<1>4. \A i \in Okays(id) : i = 1
  BY <1>1, <1>2 DEF At, Expected
<1>5. Okays(id)' = {}
  <2>1. \A i \in Okays(id)' : i + 1 \in Okays(id) /\ i \in Nat
    BY <1>1, <1>3, SameOkays
  <2>2. ASSUME NEW i \in Okays(id)' PROVE FALSE
    <3>1. i + 1 = 1 /\ i \in Nat
      BY <1>4, <2>1
    <3>2. i \in DOMAIN inq'
      BY DEF Okays
    <3>3. QED
      BY <1>1, <3>1, <3>2
  <2>3. QED
    BY <2>2
<1>6. Named(peer, id)' /\ Numbered(id)' /\ Accepted(id)' = Accepted(id)
  BY <1>1, <1>2 DEF At, Named, Numbered, Accepted, Written
<1>7. Expected(id)'
  BY <1>1, <1>3, <1>5 DEF At, Expected, InputKept, Okays
<1>8. Gapless(id)'
  BY <1>1, <1>3, <1>6, SameGapless DEF At
<1>9. OneOutput(id)'
  <2>1. ~Unacked(id)
    BY <1>2 DEF Unacked
  <2>2. \A i \in DOMAIN outq : ~(outq[i].command = "WRTE" /\ outq[i].from = id)
    BY <1>1, <2>1 DEF At, OneOutput
  <2>3. \A r \in Writers(id) : ~client[r].owes
    BY <1>1, <2>1 DEF At, OneOutput
  <2>4. \A i \in DOMAIN outq : i \in Nat
    BY Indices
  <2>5. \A i \in DOMAIN outq' : ~(outq'[i].command = "WRTE" /\ outq'[i].from = id)
    BY <1>3, <2>2 DEF SameOutput
  <2>6. \A r \in Writers(id)' : ~client'[r].owes
    BY <1>3, <2>3 DEF SameWriters
  <2>7. QED
    BY <2>5, <2>6 DEF OneOutput
<1>10. \A r \in Remote : peer[id] = r => Knows(peer, r)'
  <2>1. ~streams[id].closing
    BY <1>1 DEF At, Expected
  <2>2. QED
    BY <1>1, <2>1, HandledKnows
<1>11. At(peer, id)'
  BY <1>6, <1>7, <1>8, <1>9 DEF At
<1>12. QED
  BY <1>10, <1>11, HandleFrame

\* The close of the client.
LEMMA HandleCloseSound ==
    ASSUME TypeOK, NEW peer \in [Local -> Remote \cup {0}], Protocol(peer),
           Consumed, Quiet(peer), next' = next,
           NEW p, p = Head(inq), p.command = "CLSE",
           NEW id \in DOMAIN streams, id = p.to,
           DOMAIN streams' = DOMAIN streams,
           \A j \in DOMAIN streams : j # id => streams'[j] = streams[j],
           streams'[id].pending = streams[id].pending,
           streams'[id].offset = streams[id].offset,
           streams'[id].opening = streams[id].opening,
           streams'[id].remote = streams[id].remote,
           streams'[id].waiting = streams[id].waiting
    PROVE  Protocol(peer)'
<1>1. /\ id \in Local /\ inq[1] = p /\ 1 \in DOMAIN inq /\ Used' = Used
      /\ \A i \in DOMAIN inq : i \in Nat /\ i >= 1
      /\ \A i \in DOMAIN inq' : i \in Nat /\ i >= 1
      /\ \A i \in DOMAIN outq : i \in Nat
      /\ \A i \in DOMAIN outq' : i \in Nat
      /\ At(peer, id) /\ delivered' = delivered /\ client' = client
  BY HeadOfInput, ConsumedInput, QuietOutput, Indices DEF TypeOK, Used, Protocol, Consumed
<1>2. \A i \in DOMAIN inq' : inq'[i].to # id
  <2>1. ASSUME NEW i \in DOMAIN inq' PROVE inq'[i].to # id
    <3>1. i + 1 \in DOMAIN inq /\ inq'[i] = inq[i + 1] /\ 1 < i + 1
      BY <1>1, ConsumedInput
    <3>2. QED
      BY <1>1, <3>1 DEF Protocol, Received
  <2>2. QED
    BY <2>1
<1>3. InputKept(id, 1) /\ SameOutput(id, 0) /\ SameWriters(id)
  BY ConsumedKeeps, QuietOutput
<1>4. Writers(id)' = {}
  <2>1. ASSUME NEW r \in Remote, client[r].state = "open", client[r].local = id PROVE FALSE
    BY <1>1, <2>1 DEF Protocol, Knows
  <2>2. QED
    BY <1>1, <2>1 DEF Writers
<1>5. Named(peer, id)' /\ Numbered(id)'
  BY <1>1 DEF At, Named, Numbered, Written
<1>6. Expected(id)' /\ Gapless(id)'
  BY <1>2, <1>4 DEF Expected, Gapless, Okays, Writes, Data
<1>7. OneOutput(id)'
  BY <1>1, <1>3, SameOneOutput DEF At
<1>8. \A r \in Remote : peer[id] = r => Knows(peer, r)'
  BY <1>1, HandledKnows
<1>9. At(peer, id)'
  BY <1>5, <1>6, <1>7 DEF At
<1>10. QED
  BY <1>8, <1>9, HandleFrame

\* The data that comes first is what the stream expects next.
LEMMA FirstData ==
    ASSUME TypeOK, Consumed, NEW id \in Local, Data(inq[1], id), Gapless(id),
           NEW a \in Nat, a = Accepted(id)
    PROVE  /\ inq[1].data = a + 1
           /\ \A i \in Writes(id)' : i + 1 \in Writes(id) /\ inq'[i] = inq[i + 1] /\ i \in Nat
           /\ \A i \in Writes(id) : i = 1 \/ (i - 1 \in Writes(id)' /\ inq'[i - 1] = inq[i])
           /\ \A i \in Writes(id) : i \in Nat
<1>1. /\ 1 \in DOMAIN inq /\ 1 \in Writes(id)
      /\ \A i \in DOMAIN inq : i \in Nat /\ i >= 1
      /\ \A i \in DOMAIN inq' : i \in Nat /\ i >= 1
      /\ inq[1] \in Packet
  BY HeadOfInput, ConsumedInput, Indices DEF Writes
<1>2. inq[1].data \in Nat
  BY <1>1, PacketFields DEF Data
<1>3. /\ inq[1].data > a
      /\ \A n \in (a + 1)..(inq[1].data - 1) : \E j \in Writes(id) : j < 1
  BY <1>1 DEF Gapless
<1>4. \A j \in Writes(id) : ~(j < 1)
  BY <1>1 DEF Writes
<1>5. a + 1 \notin (a + 1)..(inq[1].data - 1)
  BY <1>3, <1>4
<1>6. inq[1].data = a + 1
  BY <1>2, <1>3, <1>5
<1>7. \A i \in Writes(id)' : i + 1 \in Writes(id) /\ inq'[i] = inq[i + 1] /\ i \in Nat
  BY <1>1, ConsumedInput DEF Writes
<1>8. \A i \in Writes(id) : i = 1 \/ (i - 1 \in Writes(id)' /\ inq'[i - 1] = inq[i])
  BY ConsumedInput DEF Writes
<1>9. QED
  BY <1>1, <1>6, <1>7, <1>8 DEF Writes

LEMMA DataGapless ==
    ASSUME TypeOK, Consumed, NEW id \in Local, Data(inq[1], id), Gapless(id),
           NEW a \in Nat, a = Accepted(id), Accepted(id)' = a + 1
    PROVE  Gapless(id)'
<1>1. /\ inq[1].data = a + 1 /\ 1 \in Writes(id)
      /\ \A i \in Writes(id)' : i + 1 \in Writes(id) /\ inq'[i] = inq[i + 1] /\ i \in Nat /\ i >= 1
      /\ \A i \in Writes(id) : i = 1 \/ (i - 1 \in Writes(id)' /\ inq'[i - 1] = inq[i])
      /\ \A i \in Writes(id) : i \in Nat /\ inq[i].data \in Nat
  <2>1. 1 \in Writes(id)
    BY ConsumedInput DEF Writes
  <2>2. \A i \in Writes(id)' : i >= 1
    BY ConsumedInput DEF Writes
  <2>3. \A i \in Writes(id) : inq[i].data \in Nat
    <3>1. \A i \in DOMAIN inq : inq[i] \in Packet
      BY DEF TypeOK
    <3>2. QED
      BY <3>1, PacketFields DEF Writes, Data
  <2>4. QED
    BY <2>1, <2>2, <2>3, FirstData
<1>2. ASSUME NEW i \in Writes(id)'
      PROVE  /\ inq'[i].data > a + 1
             /\ \A j \in Writes(id)' : i < j => inq'[i].data < inq'[j].data
             /\ \A n \in (a + 2)..(inq'[i].data - 1) :
                 \E j \in Writes(id)' : j < i /\ inq'[j].data = n
  <2>1. i \in Nat
    BY <1>1
  <2>2. i + 1 \in Writes(id) /\ inq'[i] = inq[i + 1] /\ 1 < i + 1
    BY <1>1
  <2>3. inq'[i].data > a + 1
    BY <1>1, <2>2 DEF Gapless
  <2>4. ASSUME NEW j \in Writes(id)', i < j PROVE inq'[i].data < inq'[j].data
    <3>1. j \in Nat
      BY <1>1
    <3>2. j + 1 \in Writes(id) /\ inq'[j] = inq[j + 1]
      BY <1>1
    <3>3. i + 1 < j + 1
      BY <2>1, <2>4, <3>1
    <3>4. QED
      BY <2>2, <3>2, <3>3 DEF Gapless
  <2>5. ASSUME NEW n \in (a + 2)..(inq'[i].data - 1)
        PROVE  \E j \in Writes(id)' : j < i /\ inq'[j].data = n
    <3>1. n \in (a + 1)..(inq[i + 1].data - 1) /\ n # a + 1
      BY <2>2, <2>5
    <3>2. PICK j \in Writes(id) : j < i + 1 /\ inq[j].data = n
      BY <2>2, <3>1 DEF Gapless
    <3>3. j \in Nat
      BY <1>1
    <3>4. j # 1
      BY <1>1, <3>1, <3>2
    <3>5. j - 1 < i
      BY <2>1, <3>2, <3>3
    <3>6. j - 1 \in Writes(id)' /\ inq'[j - 1] = inq[j]
      BY <1>1, <3>4
    <3>7. QED
      BY <3>2, <3>5, <3>6
  <2>6. QED
    BY <2>3, <2>4, <2>5
<1>3. ASSUME NEW r \in Writers(id)'
      PROVE  /\ a + 1 <= client'[r].wrote
             /\ \A i \in Writes(id)' : inq'[i].data <= client'[r].wrote
             /\ \A n \in (a + 2)..client'[r].wrote : \E j \in Writes(id)' : inq'[j].data = n
  <2>1. r \in Writers(id) /\ client'[r].wrote = client[r].wrote
    BY DEF Writers, Consumed
  <2>2. a + 1 <= client'[r].wrote
    BY <1>1, <2>1 DEF Gapless
  <2>3. \A i \in Writes(id)' : inq'[i].data <= client'[r].wrote
    BY <1>1, <2>1 DEF Gapless
  <2>4. ASSUME NEW n \in (a + 2)..client'[r].wrote PROVE \E j \in Writes(id)' : inq'[j].data = n
    <3>1. n \in (a + 1)..client[r].wrote /\ n # a + 1
      BY <2>1, <2>4
    <3>2. PICK j \in Writes(id) : inq[j].data = n
      BY <2>1, <3>1 DEF Gapless
    <3>3. QED
      BY <1>1, <3>1, <3>2
  <2>5. QED
    BY <2>2, <2>3, <2>4
<1>4. a + 1 + 1 = a + 2
  OBVIOUS
<1>5. QED
  BY <1>2, <1>3, <1>4 DEF Gapless

\* Data goes to the end of what is pending.
LEMMA HandleDataSound ==
    ASSUME TypeOK, NEW peer \in [Local -> Remote \cup {0}], Protocol(peer),
           Consumed, Quiet(peer), next' = next,
           NEW p, p = Head(inq), p.command = "WRTE", p.data # 0,
           NEW id \in DOMAIN streams, id = p.to,
           ~streams[id].opening, ~streams[id].closing,
           streams' = [streams EXCEPT ![id].pending = Append(@, p.data)]
    PROVE  Protocol(peer)'
<1>1. /\ id \in Local /\ inq[1] = p /\ 1 \in DOMAIN inq /\ Used' = Used
      /\ \A i \in DOMAIN inq : i \in Nat /\ i >= 1
      /\ \A i \in DOMAIN inq' : i \in Nat /\ i >= 1
      /\ \A i \in DOMAIN outq : i \in Nat
      /\ \A i \in DOMAIN outq' : i \in Nat
      /\ At(peer, id) /\ delivered' = delivered
      /\ p \in Packet
  BY HeadOfInput, ConsumedInput, QuietOutput, Indices DEF TypeOK, Used, Protocol, Consumed
<1>2. /\ DOMAIN streams' = DOMAIN streams
      /\ \A j \in DOMAIN streams : j # id => streams'[j] = streams[j]
      /\ streams[id] \in Stream
      /\ streams'[id] = [streams[id] EXCEPT !.pending = Append(streams[id].pending, p.data)]
  BY DEF TypeOK
<1>3. /\ streams'[id].remote = streams[id].remote /\ streams'[id].offset = streams[id].offset
      /\ streams'[id].opening = streams[id].opening /\ streams'[id].closing = streams[id].closing
      /\ streams'[id].waiting = streams[id].waiting
      /\ streams'[id].pending = Append(streams[id].pending, p.data)
      /\ streams[id].pending \in Seq(Nat)
  BY <1>2 DEF Stream
<1>4. p.data \in Nat
  BY <1>1, PacketFields
<1>5. PICK s \in Seq(Nat) : s = streams[id].pending
  BY <1>3
<1>6. /\ Len(s) \in Nat /\ DOMAIN s = 1..Len(s)
      /\ DOMAIN Append(s, p.data) = 1..(Len(s) + 1) /\ Len(Append(s, p.data)) = Len(s) + 1
      /\ Append(s, p.data)[Len(s) + 1] = p.data
      /\ \A j \in 1..Len(s) : Append(s, p.data)[j] = s[j]
      /\ Append(s, p.data) # <<>>
  <2>1. Append(s, p.data) \in Seq(Nat) /\ Len(Append(s, p.data)) = Len(s) + 1
    BY <1>4, AppendProperties
  <2>2. Len(s) \in Nat /\ DOMAIN s = 1..Len(s)
    BY LenProperties
  <2>3. DOMAIN Append(s, p.data) = 1..(Len(s) + 1)
    BY <2>1, LenProperties
  <2>4. Append(s, p.data) # <<>>
    BY <2>1, <2>2, EmptySeq, SMTT(30)
  <2>5. QED
    BY <1>4, <2>1, <2>2, <2>3, <2>4, AppendProperties
<1>7. PICK w : w = Written(id)
  OBVIOUS
<1>8. w \in Nat
  <2>1. Len(delivered[id]) \in Nat
    BY <1>1, LenProperties DEF TypeOK
  <2>2. PICK k \in Nat : k = Len(delivered[id])
    BY <2>1
  <2>3. k \div 2 \in Nat
    OBVIOUS
  <2>4. QED
    BY <1>7, <2>2, <2>3 DEF Written
<1>9. Accepted(id) = w + Len(s) /\ w + Len(s) \in Nat /\ Accepted(id)' = w + Len(s) + 1
  <2>1. Accepted(id) = w + Len(s) /\ Accepted(id)' = w + (Len(s) + 1)
    BY <1>1, <1>3, <1>5, <1>6, <1>7 DEF Accepted, Written
  <2>2. QED
    BY <1>6, <1>8, <2>1
<1>10. Data(inq[1], id) /\ Gapless(id)
  BY <1>1 DEF Data, At
<1>11. p.data = w + Len(s) + 1
  BY <1>1, <1>9, <1>10, FirstData
<1>12. Gapless(id)'
  BY <1>1, <1>9, <1>10, DataGapless
<1>13. Numbered(id)'
  <2>1. \A j \in 1..Len(s) : s[j] = w + j
    BY <1>1, <1>5, <1>6, <1>7 DEF At, Numbered
  <2>2. ASSUME NEW j \in 1..(Len(s) + 1) PROVE Append(s, p.data)[j] = w + j
    <3>1. j \in 1..Len(s) \/ j = Len(s) + 1
      BY <1>6
    <3>2. CASE j \in 1..Len(s)
      BY <1>6, <2>1, <3>2
    <3>3. CASE j = Len(s) + 1
      <4>1. w + j = w + Len(s) + 1
        BY <1>6, <1>8, <3>3
      <4>2. QED
        BY <1>6, <1>11, <3>3, <4>1
    <3>4. QED
      BY <3>1, <3>2, <3>3
  <2>3. Written(id)' = w
    BY <1>1, <1>7 DEF Written
  <2>4. QED
    BY <1>1, <1>3, <1>5, <1>6, <2>2, <2>3, ZenonT(60) DEF At, Numbered
<1>14. InputKept(id, 1) /\ OkaysKept(id, 1) /\ SameWriters(id) /\ SameOutput(id, 0)
  BY <1>1, ConsumedKeeps, QuietOutput
<1>15. Expected(id)' /\ OneOutput(id)'
  BY <1>1, <1>3, <1>14, SameExpected, SameOneOutput DEF At
<1>16. Named(peer, id)'
  BY <1>1, <1>3 DEF At, Named
<1>17. At(peer, id)'
  BY <1>12, <1>13, <1>15, <1>16 DEF At
<1>18. \A r \in Remote : peer[id] = r => Knows(peer, r)'
  BY <1>1, <1>3, HandledKnows
<1>19. QED
  BY <1>1, <1>2, <1>17, <1>18, HandleFrame

\* What was sent stays right, and so is what a step adds.
LEMMA MoreSent ==
    ASSUME NEW peer, NEW q, Sent(peer), SameClosing,
           Used \subseteq Used', \A id \in Used : q[id] = peer[id],
           \A i \in DOMAIN inq' : \E j \in DOMAIN inq : inq'[i] = inq[j],
           \A i \in DOMAIN outq : i \in DOMAIN outq' /\ outq'[i] = outq[i],
           \A i \in DOMAIN outq' \ DOMAIN outq :
            /\ outq'[i].command \in {"OKAY", "WRTE", "CLSE"}
            /\ outq'[i].command # "CLSE" =>
                outq'[i].from \in Used' /\ outq'[i].to = q[outq'[i].from] /\ outq'[i].to # 0
    PROVE  Sent(q)'
<1>1. ASSUME NEW i \in DOMAIN outq'
      PROVE  /\ outq'[i].command # "CLSE" => outq'[i].from \in Used'
             /\ outq'[i].command \in {"OKAY", "WRTE"} =>
                 q[outq'[i].from] = outq'[i].to /\ outq'[i].to # 0
             /\ outq'[i].command = "OPEN" =>
                 /\ outq'[i].to = 0
                 /\ q[outq'[i].from] = 0
                 /\ \A j \in DOMAIN inq' : inq'[j].to # outq'[i].from
                 /\ outq'[i].from \in DOMAIN streams' => ~streams'[outq'[i].from].closing
  <2>1. CASE i \in DOMAIN outq
    BY <2>1 DEF Sent, SameClosing
  <2>2. CASE i \notin DOMAIN outq
    BY <2>2
  <2>3. QED
    BY <2>1, <2>2
<1>2. ASSUME NEW i \in DOMAIN outq', NEW j \in DOMAIN outq', outq'[i].command = "OPEN",
             outq'[j].command = "OPEN", outq'[i].from = outq'[j].from
      PROVE  i = j
  BY <1>2 DEF Sent
<1>3. QED
  BY <1>1, <1>2 DEF Sent

-----------------------------------------------------------------------------
(* New streams *)

LEMMA FreshAt ==
    ASSUME NEW q, NEW id, id \in Used',
           streams'[id].pending = <<>>, streams'[id].offset = 0, delivered'[id] = <<>>,
           IF streams'[id].opening THEN streams'[id].remote = 0
                                   ELSE streams'[id].remote = q[id] /\ q[id] # 0,
           \A i \in DOMAIN inq' : inq'[i].to # id,
           \A i \in DOMAIN outq' : outq'[i].command = "WRTE" => outq'[i].from # id,
           Writers(id)' = {}
    PROVE  At(q, id)'
<1>1. Named(q, id)'
  BY DEF Named
<1>2. Numbered(id)'
  BY DEF Numbered
<1>3. Expected(id)' /\ Gapless(id)' /\ OneOutput(id)'
  BY DEF Expected, Gapless, OneOutput, Okays, Writes, Data
<1>4. QED
  BY <1>1, <1>2, <1>3 DEF At

\* An id that was not used is nowhere.
LEMMA Unused ==
    ASSUME TypeOK, NEW peer, Protocol(peer), NEW n \in Local, n = next, next' = next + 1
    PROVE  /\ n \notin Used /\ n \notin DOMAIN streams /\ Used' = Used \cup {n}
           /\ peer[n] = 0 /\ delivered[n] = <<>>
           /\ \A i \in DOMAIN inq : inq[i].to # n
           /\ \A i \in DOMAIN outq : outq[i].command # "CLSE" => outq[i].from # n
           /\ Writers(n) = {}
<1>1. n \in Nat /\ n # 0
  BY ConstantTypes DEF Local
<1>2. n \notin Used
  BY <1>1 DEF Used
<1>3. Used' = Used \cup {n}
  BY ConstantTypes DEF Used, Local
<1>4. n \notin DOMAIN streams
  BY <1>2 DEF Protocol, At, Named
<1>5. \A i \in DOMAIN inq : inq[i].to # n
  BY <1>1, <1>2 DEF Protocol, Received
<1>6. \A i \in DOMAIN outq : outq[i].command # "CLSE" => outq[i].from # n
  BY <1>2 DEF Protocol, Sent
<1>7. Writers(n) = {}
  BY <1>2 DEF Protocol, Knows, Writers
<1>8. QED
  BY <1>2, <1>3, <1>4, <1>5, <1>6, <1>7 DEF Protocol, Names

\* OPEN with an id that is new gets a stream.
LEMMA HandleOpenSound ==
    ASSUME TypeOK, NEW peer \in [Local -> Remote \cup {0}], Protocol(peer), Consumed,
           NEW p, p = Head(inq), p.command = "OPEN",
           NEW n \in Local, n = next, next' = next + 1,
           streams' = WithStream(n, NewStream(p.from, FALSE)),
           Send(Okay(n, p.from))
    PROVE  \E q \in [Local -> Remote \cup {0}] : Protocol(q)'
<1>1. /\ inq[1] = p /\ 1 \in DOMAIN inq /\ client' = client /\ delivered' = delivered
      /\ \A i \in DOMAIN inq : i \in Nat /\ i >= 1
      /\ \A i \in DOMAIN inq' : i \in Nat /\ i >= 1
      /\ \A i \in DOMAIN inq' : i + 1 \in DOMAIN inq /\ inq'[i] = inq[i + 1]
      /\ \A i \in DOMAIN outq : i \in Nat
  BY ConsumedInput, Indices DEF Consumed
<1>2. PICK r \in Remote : r = p.from
  BY <1>1 DEF Protocol, Received
<1>3. p.to = 0 /\ client[r].state # "idle" /\ \A id \in Local : peer[id] # r
  BY <1>1, <1>2 DEF Protocol, Received
<1>4. /\ n \notin Used /\ n \notin DOMAIN streams /\ Used' = Used \cup {n}
      /\ peer[n] = 0 /\ delivered[n] = <<>>
      /\ \A i \in DOMAIN inq : inq[i].to # n
      /\ \A i \in DOMAIN outq : outq[i].command # "CLSE" => outq[i].from # n
      /\ Writers(n) = {}
  BY Unused
<1>5. r \in Nat /\ r # 0 /\ n \in Nat /\ n # 0 /\ Used \subseteq Local
  BY <1>2, ConstantTypes, Indices DEF Local
<1>6. /\ DOMAIN streams' = DOMAIN streams \cup {n}
      /\ \A id \in DOMAIN streams : streams'[id] = streams[id]
      /\ streams'[n] = NewStream(r, FALSE)
  BY <1>2, <1>4 DEF WithStream
<1>7. /\ outq' \in Seq(Packet)
      /\ \A i \in DOMAIN outq : i \in DOMAIN outq' /\ outq'[i] = outq[i]
      /\ \A i \in DOMAIN outq' \ DOMAIN outq : outq'[i] = Okay(n, r)
      /\ \A i \in DOMAIN outq' : i \in Nat
  <2>1. outq \in Seq(Packet) /\ Okay(n, r) \in Packet
    BY <1>5, PacketKinds DEF TypeOK
  <2>2. outq' = Append(outq, Okay(n, r))
    BY <1>2 DEF Send
  <2>3. outq' \in Seq(Packet)
    BY <2>1, <2>2, AppendProperties
  <2>4. DOMAIN outq = 1..Len(outq) /\ DOMAIN outq' = 1..(Len(outq) + 1) /\ Len(outq) \in Nat
    BY <2>1, <2>2, AppendProperties, LenProperties
  <2>5. QED
    BY <2>1, <2>2, <2>3, <2>4, AppendProperties
<1>8. PICK q \in [Local -> Remote \cup {0}] :
        \A id \in Local : q[id] = IF id = n THEN r ELSE peer[id]
  <2>1. [id \in Local |-> IF id = n THEN r ELSE peer[id]] \in [Local -> Remote \cup {0}]
    OBVIOUS
  <2>2. QED
    BY <2>1
<1>9. q[n] = r /\ \A id \in Local : id # n => q[id] = peer[id]
  BY <1>8
<1>10. Names(q)'
  <2>1. \A a, b \in Local : q[a] = q[b] /\ q[a] # 0 => a = b
    BY <1>3, <1>9 DEF Protocol, Names
  <2>2. \A a \in Local \ Used' : q[a] = 0 /\ delivered'[a] = <<>>
    BY <1>1, <1>4, <1>9 DEF Protocol, Names
  <2>3. QED
    BY <2>1, <2>2 DEF Names
<1>11. Received(q)'
  <2>1. ASSUME NEW i \in DOMAIN inq', inq'[i].command = "OPEN", NEW id \in Local
        PROVE  q[id] # inq'[i].from
    <3>1. i + 1 \in DOMAIN inq /\ inq'[i] = inq[i + 1] /\ i + 1 # 1
      BY <1>1
    <3>2. inq'[i].from # r
      BY <1>1, <1>2, <2>1, <3>1 DEF Protocol, Received
    <3>3. peer[id] # inq'[i].from
      BY <2>1, <3>1 DEF Protocol, Received
    <3>4. QED
      BY <1>9, <3>2, <3>3
  <2>2. \A id \in Used : q[id] = peer[id]
    BY <1>4, <1>5, <1>9
  <2>3. Received(peer) /\ Used \subseteq Used'
    BY <1>4 DEF Protocol
  <2>4. QED
    BY <2>1, <2>2, <2>3, ConsumedReceived
<1>12. Sent(q)'
  <2>1. \A id \in Used : q[id] = peer[id]
    BY <1>4, <1>5, <1>9
  <2>2. Sent(peer) /\ Used \subseteq Used' /\ n \in Used'
    BY <1>4 DEF Protocol
  <2>3. \A i \in DOMAIN outq' \ DOMAIN outq :
            /\ outq'[i].command = "OKAY"
            /\ outq'[i].from \in Used' /\ outq'[i].to = q[outq'[i].from] /\ outq'[i].to # 0
    BY <1>5, <1>7, <1>9, <2>2 DEF Okay
  <2>4. \A i \in DOMAIN inq' : \E j \in DOMAIN inq : inq'[i] = inq[j]
    BY <1>1
  <2>5. SameClosing
    BY <1>4, <1>6 DEF SameClosing
  <2>6. QED
    BY <1>7, <2>1, <2>2, <2>3, <2>4, <2>5, MoreSent
<1>13. \A id \in Local : SameInput(id, 1) /\ SameWriters(id) /\ SameOutput(id, 0)
  <2>1. ASSUME NEW id \in Local PROVE SameInput(id, 1) /\ SameWriters(id)
    <3>1. id # 0
      BY ConstantTypes DEF Local
    <3>2. QED
      BY <1>1, <1>3, <3>1, ConsumedKeeps
  <2>2. \A id \in Local : SameOutput(id, 0)
    BY <1>1, <1>7 DEF SameOutput, Okay
  <2>3. QED
    BY <2>1, <2>2
<1>14. ASSUME NEW id \in DOMAIN streams PROVE At(q, id)'
  <2>1. id \in Local /\ id # n /\ At(peer, id)
    BY <1>4 DEF Protocol, TypeOK
  <2>2. streams'[id] = streams[id] /\ delivered'[id] = delivered[id] /\ q[id] = peer[id]
    BY <1>1, <1>6, <1>9, <2>1
  <2>3. Used \subseteq Used'
    BY <1>4
  <2>4. QED
    BY <1>1, <1>7, <1>13, <2>1, <2>2, <2>3, SameAt
<1>15. At(q, n)'
  <2>1. /\ streams'[n].pending = <<>> /\ streams'[n].offset = 0
        /\ streams'[n].remote = r /\ ~streams'[n].opening
    BY <1>6 DEF NewStream
  <2>2. \A i \in DOMAIN inq' : inq'[i].to # n
    BY <1>1, <1>4
  <2>3. \A i \in DOMAIN outq' : outq'[i].command = "WRTE" => outq'[i].from # n
    BY <1>4, <1>7 DEF Okay
  <2>4. Writers(n)' = {}
    BY <1>1, <1>4 DEF Writers
  <2>5. n \in Used' /\ delivered'[n] = <<>>
    BY <1>1, <1>4
  <2>6. IF streams'[n].opening THEN streams'[n].remote = 0
                               ELSE streams'[n].remote = q[n] /\ q[n] # 0
    BY <1>5, <1>9, <2>1
  <2>7. QED
    BY <2>1, <2>2, <2>3, <2>4, <2>5, <2>6, FreshAt, ZenonT(60)
<1>16. ASSUME NEW c \in Remote, c # r PROVE Knows(q, c)'
  <2>1. \A id \in Local : q[id] = c <=> peer[id] = c
    <3>1. c # 0
      BY ConstantTypes
    <3>2. QED
      BY <1>4, <1>9, <1>16, <3>1
  <2>2. \A id \in Local : peer[id] = c =>
            /\ SameInput(id, 1)
            /\ delivered'[id] = delivered[id]
            /\ id \in DOMAIN streams' => id \in DOMAIN streams /\ streams'[id] = streams[id]
    <3>1. c # 0
      BY ConstantTypes
    <3>2. \A id \in Local : peer[id] = c => id # n
      BY <1>4, <3>1
    <3>3. QED
      BY <1>1, <1>6, <1>13, <3>2
  <2>3. Knows(peer, c) /\ client'[c] = client[c] /\ Used \subseteq Used'
    BY <1>1, <1>4 DEF Protocol
  <2>4. QED
    BY <1>1, <1>5, <2>1, <2>2, <2>3, SameKnows
<1>17. Knows(q, r)'
  <2>1. Knows(peer, r)
    BY DEF Protocol
  <2>2. client[r].state # "open"
    BY <1>3, <1>5, <2>1 DEF Knows
  <2>3. \A id \in Local : q[id] = r => id = n
    BY <1>3, <1>9
  <2>4. \A i \in DOMAIN inq' : inq'[i].to # n
    BY <1>1, <1>4
  <2>5. ~streams'[n].opening /\ ~streams'[n].closing /\ streams'[n].pending = <<>>
    BY <1>6 DEF NewStream
  <2>6. client[r].state = "opening" => client[r] = [Idle EXCEPT !.state = "opening"]
    BY <2>1 DEF Knows
  <2>7. QED
    BY <1>1, <1>3, <1>4, <2>2, <2>3, <2>4, <2>5, <2>6 DEF Knows
<1>18. Protocol(q)'
  BY <1>6, <1>10, <1>11, <1>12, <1>14, <1>15, <1>16, <1>17 DEF Protocol
<1>19. QED
  BY <1>18

-----------------------------------------------------------------------------
(* Connection::handle keeps the protocol *)

LEMMA HandleSound ==
    ASSUME TypeOK, Sound, Handle
    PROVE  Sound'
<1> SUFFICES ASSUME ~dead' PROVE \E q \in [Local -> Remote \cup {0}] : Protocol(q)'
  BY DEF Sound
<1>1. PICK peer \in [Local -> Remote \cup {0}] : Protocol(peer)
  BY DEF Sound, Handle
<1>2. PICK p : p = Head(inq)
  OBVIOUS
<1>3. /\ inq # <<>> /\ inq' = Tail(inq) /\ client' = client
      /\ p \in Packet /\ inq[1] = p /\ 1 \in DOMAIN inq
      /\ HandleOpen(p) \/ HandleOkay(p) \/ HandleWrite(p) \/ HandleClose(p)
  BY <1>2, HeadOfInput DEF Handle
<1>4. ~Fail
  BY DEF Fail
<1>5. p.from \in Nat /\ p.to \in Nat /\ (p.command = "WRTE" => p.data \in Nat)
  BY <1>3, PacketFields
<1>6. /\ p.command # "OPEN" => p.to \in Local /\ p.from = peer[p.to]
      /\ p.command = "OPEN" => p.from \in Remote
      /\ p.command = "WRTE" => p.from \in Remote
      /\ p.command = "WRTE" /\ Exists(p.to) => ~streams[p.to].opening /\ ~streams[p.to].closing
  BY <1>1, <1>2, <1>3, LegalInput
<1>7. \A id \in DOMAIN streams : Named(peer, id) /\ id \in Local
  BY <1>1 DEF Protocol, At, TypeOK
<1>8. CASE HandleOpen(p)
  <2>1. p.command = "OPEN" /\ delivered' = delivered /\ p.to = 0
    BY <1>1, <1>3, <1>8 DEF HandleOpen, Protocol, Received
  <2>2. Consumed
    BY <1>3, <2>1 DEF Consumed
  <2>3. CASE Send(Close(0, p.from)) /\ UNCHANGED <<streams, next, service>>
    <3>1. Quiet(peer)
      BY <1>5, <2>3, QuietSends
    <3>2. p.to \notin DOMAIN streams
      BY <1>7, <2>1 DEF Local
    <3>3. Protocol(peer)'
      BY <1>1, <1>2, <2>2, <2>3, <3>1, <3>2, HandleSkip
    <3>4. QED
      BY <3>3
  <2>4. CASE /\ next \in Local
             /\ streams' = WithStream(next, NewStream(p.from, FALSE))
             /\ next' = next + 1
             /\ Send(Okay(next, p.from))
    <3>1. PICK n \in Local : n = next
      BY <2>4
    <3>2. QED
      BY <1>1, <1>2, <2>1, <2>2, <2>4, <3>1, HandleOpenSound
  <2>5. QED
    BY <1>4, <1>8, <2>3, <2>4 DEF HandleOpen
<1>9. CASE HandleOkay(p)
  <2>1. p.command = "OKAY" /\ Consumed /\ next' = next /\ outq' = outq
    BY <1>3, <1>4, <1>9 DEF HandleOkay, Consumed
  <2>2. Quiet(peer)
    BY <2>1, QuietSends
  <2>3. CASE ~Exists(p.to)
    <3>1. streams' = streams /\ p.to \notin DOMAIN streams
      BY <1>4, <1>9, <2>3 DEF HandleOkay, Exists
    <3>2. Protocol(peer)'
      BY <1>1, <1>2, <2>1, <2>2, <3>1, HandleSkip
    <3>3. QED
      BY <3>2
  <2>4. CASE Exists(p.to)
    <3>1. PICK id \in DOMAIN streams : id = p.to
      BY <2>4 DEF Exists
    <3>2. streams' = [streams EXCEPT ![id] =
                        IF streams[id].opening
                        THEN [streams[id] EXCEPT !.opening = FALSE, !.remote = p.from]
                        ELSE [streams[id] EXCEPT !.waiting = FALSE]]
      BY <1>4, <1>9, <2>4, <3>1 DEF HandleOkay
    <3>3. /\ DOMAIN streams' = DOMAIN streams
          /\ \A j \in DOMAIN streams : j # id => streams'[j] = streams[j]
          /\ streams[id] \in Stream
          /\ streams'[id] = IF streams[id].opening
                            THEN [streams[id] EXCEPT !.opening = FALSE, !.remote = p.from]
                            ELSE [streams[id] EXCEPT !.waiting = FALSE]
      BY <3>2 DEF TypeOK
    <3>4. /\ streams'[id].pending = streams[id].pending
          /\ streams'[id].offset = streams[id].offset
          /\ streams'[id].closing = streams[id].closing
          /\ ~streams'[id].opening
          /\ streams'[id].remote = IF streams[id].opening THEN p.from ELSE streams[id].remote
      BY <3>3 DEF Stream
    <3>5. streams'[id].remote = peer[id]
      BY <1>6, <1>7, <2>1, <3>1, <3>4 DEF Named
    <3>6. Protocol(peer)'
      BY <1>1, <1>2, <2>1, <2>2, <3>1, <3>3, <3>4, <3>5, HandleOkaySound
    <3>7. QED
      BY <3>6
  <2>5. QED
    BY <2>3, <2>4
<1>10. CASE HandleWrite(p)
  <2>1. p.command = "WRTE" /\ Consumed /\ next' = next
    BY <1>3, <1>4, <1>10 DEF HandleWrite, Consumed
  <2>2. CASE ~Exists(p.to)
    <3>1. streams' = streams /\ Send(Close(p.to, p.from)) /\ p.to \notin DOMAIN streams
      BY <1>4, <1>10, <2>2 DEF HandleWrite, Exists
    <3>2. Quiet(peer)
      BY <1>5, <3>1, QuietSends
    <3>3. Protocol(peer)'
      BY <1>1, <1>2, <2>1, <3>1, <3>2, HandleSkip
    <3>4. QED
      BY <3>3
  <2>3. CASE Exists(p.to) /\ p.data = 0
    <3>1. streams' = streams /\ Send(Okay(p.to, p.from))
      BY <1>4, <1>10, <2>3 DEF HandleWrite
    <3>2. p.to \in Used /\ p.from = peer[p.to] /\ p.from # 0
      BY <1>6, <1>7, <2>1, <2>3, ConstantTypes DEF Named, Exists
    <3>3. Quiet(peer)
      BY <3>1, <3>2, QuietSends
    <3>4. Protocol(peer)'
      BY <1>1, <1>2, <1>6, <2>1, <2>3, <3>1, <3>3, HandleSkip
    <3>5. QED
      BY <3>4
  <2>4. CASE Exists(p.to) /\ p.data # 0
    <3>1. PICK id \in DOMAIN streams : id = p.to
      BY <2>4 DEF Exists
    <3>2. streams' = [streams EXCEPT ![id].pending = Append(@, p.data)] /\ outq' = outq
      BY <1>4, <1>10, <2>4, <3>1 DEF HandleWrite
    <3>3. Quiet(peer)
      BY <3>2, QuietSends
    <3>4. ~streams[id].opening /\ ~streams[id].closing
      BY <1>6, <2>1, <2>4, <3>1
    <3>5. Protocol(peer)'
      BY <1>1, <1>2, <2>1, <2>4, <3>1, <3>2, <3>3, <3>4, HandleDataSound
    <3>6. QED
      BY <3>5
  <2>5. QED
    BY <2>2, <2>3, <2>4
<1>11. CASE HandleClose(p)
  <2>1. p.command = "CLSE" /\ Consumed /\ next' = next /\ outq' = outq
    BY <1>3, <1>4, <1>11 DEF HandleClose, Consumed
  <2>2. Quiet(peer)
    BY <2>1, QuietSends
  <2>3. CASE ~Exists(p.to)
    <3>1. streams' = streams /\ p.to \notin DOMAIN streams
      BY <1>4, <1>11, <2>3 DEF HandleClose, Exists
    <3>2. Protocol(peer)'
      BY <1>1, <1>2, <2>1, <2>2, <3>1, HandleSkip
    <3>3. QED
      BY <3>2
  <2>4. CASE Exists(p.to)
    <3>1. PICK id \in DOMAIN streams : id = p.to
      BY <2>4 DEF Exists
    <3>2. streams' = [streams EXCEPT ![id].closing = TRUE]
      BY <1>4, <1>11, <2>4, <3>1 DEF HandleClose
    <3>3. /\ DOMAIN streams' = DOMAIN streams
          /\ \A j \in DOMAIN streams : j # id => streams'[j] = streams[j]
          /\ streams[id] \in Stream
          /\ streams'[id] = [streams[id] EXCEPT !.closing = TRUE]
      BY <3>2 DEF TypeOK
    <3>4. streams'[id].pending = streams[id].pending /\ streams'[id].offset = streams[id].offset
      BY <3>3 DEF Stream
    <3>5. streams'[id].opening = streams[id].opening
      BY <3>3 DEF Stream
    <3>6. streams'[id].waiting = streams[id].waiting
      BY <3>3 DEF Stream
    <3>7. streams'[id].remote = streams[id].remote
      BY <3>3 DEF Stream
    <3>8. Protocol(peer)'
      BY <1>1, <1>2, <2>1, <2>2, <3>1, <3>3, <3>4, <3>5, <3>6, <3>7, HandleCloseSound, ZenonT(60)
    <3>9. QED
      BY <3>8
  <2>5. QED
    BY <2>3, <2>4
<1>12. QED
  BY <1>3, <1>8, <1>9, <1>10, <1>11

-----------------------------------------------------------------------------
(* Connection::services *)

LEMMA AllSameInput ==
    ASSUME inq' = inq, NEW id, \A i \in DOMAIN inq : i \in Nat
    PROVE  SameInput(id, 0)
BY DEF SameInput, InputKept, OkaysKept, WritesKept, Okays, Writes

\* A pass is sound if it is so for the stream it is about.
LEMMA ServiceFrame ==
    ASSUME TypeOK, NEW peer \in [Local -> Remote \cup {0}], Protocol(peer),
           inq' = inq, client' = client, next' = next,
           NEW id \in DOMAIN streams,
           \A j \in Local : j # id => delivered'[j] = delivered[j],
           DOMAIN streams' \subseteq DOMAIN streams,
           \A j \in DOMAIN streams' : j # id => streams'[j] = streams[j],
           outq' \in Seq(Packet),
           \A i \in DOMAIN outq : i \in DOMAIN outq' /\ outq'[i] = outq[i],
           \A i \in DOMAIN outq' \ DOMAIN outq :
            /\ outq'[i].command \in {"OKAY", "WRTE", "CLSE"}
            /\ outq'[i].command # "CLSE" =>
                outq'[i].from = id /\ outq'[i].to = peer[id] /\ outq'[i].to # 0,
           id \in DOMAIN streams' =>
                At(peer, id)' /\ streams'[id].closing = streams[id].closing,
           \A r \in Remote : peer[id] = r => Knows(peer, r)'
    PROVE  Protocol(peer)'
<1>1. /\ Used' = Used /\ Used \subseteq Local /\ id \in Used
      /\ \A i \in DOMAIN inq : i \in Nat
      /\ \A i \in DOMAIN inq' : i \in Nat
      /\ \A i \in DOMAIN outq : i \in Nat
  BY Indices DEF Used, Protocol, At, Named
<1>2. \A i \in DOMAIN outq' : i \in Nat
  BY LenProperties
<1>3. Names(peer)'
  BY <1>1 DEF Protocol, Names
<1>4. Received(peer)'
  BY <1>1 DEF Protocol, Received
<1>5. Sent(peer)'
  <2>1. SameClosing
    BY DEF SameClosing
  <2>2. QED
    BY <1>1, <2>1, MoreSent DEF Protocol
<1>6. ASSUME NEW j \in Local, j # id PROVE SameInput(j, 0) /\ SameWriters(j) /\ SameOutput(j, 0)
  <2>1. SameInput(j, 0) /\ SameWriters(j)
    BY <1>1, AllSameInput DEF SameWriters, Writers
  <2>2. SameOutput(j, 0)
    BY <1>1, <1>2, <1>6 DEF SameOutput
  <2>3. QED
    BY <2>1, <2>2
<1>7. ASSUME NEW j \in DOMAIN streams', j # id PROVE At(peer, j)'
  <2>1. j \in Local /\ At(peer, j) /\ streams'[j] = streams[j] /\ delivered'[j] = delivered[j]
    BY <1>7 DEF Protocol, TypeOK
  <2>2. SameInput(j, 0) /\ SameWriters(j) /\ SameOutput(j, 0)
    BY <1>6, <1>7, <2>1
  <2>3. QED
    BY <1>1, <1>2, <2>1, <2>2, SameAt
<1>8. ASSUME NEW r \in Remote, peer[id] # r PROVE Knows(peer, r)'
  <2>1. \A j \in Local : peer[j] = r =>
            /\ SameInput(j, 0)
            /\ delivered'[j] = delivered[j]
            /\ j \in DOMAIN streams' => j \in DOMAIN streams /\ streams'[j] = streams[j]
    BY <1>6, <1>8
  <2>2. Knows(peer, r) /\ client'[r] = client[r]
    BY DEF Protocol
  <2>3. QED
    BY <1>1, <2>1, <2>2, SameKnows
<1>9. QED
  BY <1>3, <1>4, <1>5, <1>7, <1>8 DEF Protocol

\* A packet that is added to the output.
LEMMA Appended ==
    ASSUME TypeOK, NEW p \in Packet, Send(p)
    PROVE  /\ outq' \in Seq(Packet)
           /\ \A i \in DOMAIN outq : i \in DOMAIN outq' /\ outq'[i] = outq[i]
           /\ \A i \in DOMAIN outq' \ DOMAIN outq : outq'[i] = p
           /\ \A i \in DOMAIN outq' : i \in Nat
<1>1. outq \in Seq(Packet)
  BY DEF TypeOK
<1>2. outq' = Append(outq, p)
  BY DEF Send
<1>3. outq' \in Seq(Packet)
  BY <1>1, <1>2, AppendProperties
<1>4. DOMAIN outq = 1..Len(outq) /\ DOMAIN outq' = 1..(Len(outq) + 1) /\ Len(outq) \in Nat
  BY <1>1, <1>2, AppendProperties, LenProperties
<1>5. QED
  BY <1>1, <1>2, <1>3, <1>4, AppendProperties

\* A stream that is dropped leaves its client what it knew.
LEMMA DropSound ==
    ASSUME TypeOK, NEW peer \in [Local -> Remote \cup {0}], Protocol(peer),
           inq' = inq, client' = client, next' = next,
           NEW id \in DOMAIN streams, streams' = WithoutStream(id),
           \A j \in Local : j # id => delivered'[j] = delivered[j],
           peer[id] = 0 \/ streams[id].pending # <<>> \/ delivered'[id] = delivered[id],
           outq' \in Seq(Packet),
           \A i \in DOMAIN outq : i \in DOMAIN outq' /\ outq'[i] = outq[i],
           \A i \in DOMAIN outq' \ DOMAIN outq :
            /\ outq'[i].command \in {"OKAY", "WRTE", "CLSE"}
            /\ outq'[i].command # "CLSE" =>
                outq'[i].from = id /\ outq'[i].to = peer[id] /\ outq'[i].to # 0
    PROVE  Protocol(peer)'
<1>1. /\ DOMAIN streams' = DOMAIN streams \ {id}
      /\ \A j \in DOMAIN streams' : streams'[j] = streams[j]
  BY DEF WithoutStream, Restrict
<1>2. ASSUME NEW r \in Remote, peer[id] = r PROVE Knows(peer, r)'
  <2>1. Knows(peer, r) /\ Used' = Used /\ Used \subseteq Local /\ id \in Local
    BY Indices DEF Protocol, Used, TypeOK
  <2>2. client[r].state = "idle" => Knows(peer, r)'
    BY <2>1 DEF Knows
  <2>3. ASSUME client[r].state = "opening" PROVE Knows(peer, r)'
    <3>1. delivered'[id] = delivered[id]
      BY <1>2, <2>1, <2>3, ConstantTypes DEF Knows
    <3>2. \A j \in Local : delivered'[j] = delivered[j]
      BY <3>1
    <3>3. QED
      BY <1>1, <2>1, <2>3, <3>2 DEF Knows
  <2>4. ASSUME client[r].state = "open" PROVE Knows(peer, r)'
    <3>1. client[r].local \in Used /\ client[r].local \in Local /\ peer[client[r].local] = r
      BY <2>1, <2>4 DEF Knows
    <3>2. client[r].local = id
      BY <1>2, <2>1, <3>1, ConstantTypes DEF Protocol, Names
    <3>3. client[r].local \notin DOMAIN streams'
      BY <1>1, <3>2
    <3>4. QED
      BY <2>1, <2>4, <3>1, <3>3 DEF Knows
  <2>5. client[r].state \notin {"idle", "opening", "open"} => Knows(peer, r)'
    BY <2>1 DEF Knows
  <2>6. QED
    BY <2>2, <2>3, <2>4, <2>5
<1>3. DOMAIN streams' \subseteq DOMAIN streams /\ id \notin DOMAIN streams'
  BY <1>1
<1>4. QED
  BY <1>1, <1>2, <1>3, ServiceFrame

\* The stream ended by a deadline or by a service that does not read.
LEMMA EndedSound ==
    ASSUME TypeOK, Sound, ~dead, dead' = dead, inq' = inq, client' = client, next' = next,
           NEW id \in DOMAIN streams, Drop(id), Send(Close(id, streams[id].remote)),
           delivered' = delivered
    PROVE  Sound'
<1>1. PICK peer \in [Local -> Remote \cup {0}] : Protocol(peer)
  BY DEF Sound
<1>2. id \in Local /\ streams[id] \in Stream
  BY DEF TypeOK
<1>3. id \in Nat
  BY <1>2, PeerTypes, <1>1
<1>4. streams[id].remote \in Remote \cup {0}
  BY <1>2 DEF Stream
<1>5. streams[id].remote \in Nat
  <2>1. CASE streams[id].remote = 0
    BY <2>1
  <2>2. CASE streams[id].remote \in Remote
    BY <2>2, ConstantTypes
  <2>3. QED
    BY <1>4, <2>1, <2>2
<1>6. PICK p \in Packet : p = Close(id, streams[id].remote)
  BY <1>3, <1>5, PacketKinds
<1>7. p.command = "CLSE"
  BY <1>6 DEF Close
<1>8. /\ outq' \in Seq(Packet)
      /\ \A i \in DOMAIN outq : i \in DOMAIN outq' /\ outq'[i] = outq[i]
      /\ \A i \in DOMAIN outq' \ DOMAIN outq : outq'[i].command = "CLSE"
  BY <1>6, <1>7, Appended
<1>9. streams' = WithoutStream(id)
  BY DEF Drop
<1>10. Protocol(peer)'
  BY <1>1, <1>8, <1>9, DropSound
<1>11. QED
  BY <1>10 DEF Sound

\* Halves and wholes: n packets of two units, o of them written before.
LEMMA Halves ==
    ASSUME NEW l \in Nat, NEW n \in Nat, NEW o \in Nat, NEW k \in Nat,
           o = l % 2, o = 1 => n >= 1, k <= 2 * n - o
    PROVE  /\ (o + k) % 2 = (l + k) % 2
           /\ (l + k) \div 2 = l \div 2 + (o + k) \div 2
           /\ (o + k) \div 2 \in 0..n
           /\ (o + k) % 2 = 1 => (o + k) \div 2 < n
           /\ (l + k) % 2 \in 0..1
           /\ n = 0 => k = 0
OBVIOUS

LEMMA UnitOf ==
    ASSUME NEW l \in Nat, NEW n \in Nat, NEW o \in Nat, NEW i \in Nat,
           o = l % 2, i >= 1, i <= 2 * n - o
    PROVE  /\ (o + i + 1) \div 2 \in 1..n
           /\ l \div 2 + (o + i + 1) \div 2 = (l + i + 1) \div 2
OBVIOUS

\* Packets accepted, when a stream has written so many units.
Total(s, l) == l \div 2 + Len(s.pending)

\* flush_pending: what is left follows what was written.
LEMMA RestNumbered ==
    ASSUME NEW s \in Stream, NEW l \in Nat, s.offset = l % 2,
           s.offset = 1 => s.pending # <<>>,
           \A j \in DOMAIN s.pending : s.pending[j] = l \div 2 + j,
           NEW k \in Nat, k <= Backlog(s)
    PROVE  /\ Rest(s, k) \in Stream
           /\ Rest(s, k).remote = s.remote /\ Rest(s, k).opening = s.opening
           /\ Rest(s, k).closing = s.closing /\ Rest(s, k).waiting = s.waiting
           /\ Rest(s, k).offset = (l + k) % 2
           /\ Rest(s, k).offset = 1 => Rest(s, k).pending # <<>>
           /\ \A j \in DOMAIN Rest(s, k).pending : Rest(s, k).pending[j] = (l + k) \div 2 + j
           /\ Total(Rest(s, k), l + k) = Total(s, l)
           /\ \A i \in 1..k : Unit(s, i) = (l + i + 1) \div 2
           /\ s.pending = <<>> => k = 0 /\ Rest(s, k).pending = <<>>
<1>1. PICK q \in Seq(Nat) : q = s.pending
  BY DEF Stream
<1>2. PICK n \in Nat : n = Len(q)
  BY LenProperties
<1>3. PICK o \in 0..1 : o = s.offset
  BY DEF Stream
<1>4. o \in Nat /\ DOMAIN q = 1..n
  BY <1>2, <1>3, LenProperties
<1>5. k <= 2 * n - o
  BY <1>1, <1>2, <1>3 DEF Backlog
<1>6. o = 1 => n >= 1
  <2>1. n = 0 => q = <<>>
    BY <1>2, EmptySeq
  <2>2. QED
    BY <1>1, <1>3, <2>1
<1>7. /\ (o + k) % 2 = (l + k) % 2
      /\ (l + k) \div 2 = l \div 2 + (o + k) \div 2
      /\ (o + k) \div 2 \in 0..n
      /\ (o + k) % 2 = 1 => (o + k) \div 2 < n
      /\ (l + k) % 2 \in 0..1
      /\ n = 0 => k = 0
  BY <1>3, <1>4, <1>5, <1>6, Halves
<1>8. PICK m \in 0..n : m = (o + k) \div 2
  BY <1>7
<1>9. PICK t : t = SubSeq(q, m + 1, n)
  OBVIOUS
<1>10. /\ t \in Seq(Nat) /\ Len(t) = n - m /\ DOMAIN t = 1..(n - m)
       /\ \A j \in 1..(n - m) : t[j] = q[m + j]
  <2>1. PICK a \in Nat : a = m + 1
    BY <1>8
  <2>2. n \in Int /\ a \in Int /\ m \in Nat /\ m <= n
    BY <1>8
  <2>3. \A j \in a..n : q[j] \in Nat
    <3>1. \A j \in 1..n : q[j] \in Nat
      BY <1>4
    <3>2. \A j \in a..n : j \in 1..n
      BY <2>1, <2>2
    <3>3. QED
      BY <3>1, <3>2
  <2>4. /\ t \in Seq(Nat)
        /\ Len(t) = IF a <= n THEN n - a + 1 ELSE 0
        /\ \A j \in 1..(n - a + 1) : t[j] = q[a + j - 1]
    BY <1>9, <2>1, <2>2, <2>3, SubSeqProperties, SMTT(30)
  <2>5. n - a + 1 = n - m /\ (a <= n \/ n - m = 0)
    BY <2>1, <2>2
  <2>6. Len(t) = n - m
    BY <2>4, <2>5
  <2>7. \A j \in 1..(n - m) : a + j - 1 = m + j
    BY <2>1, <2>2
  <2>8. QED
    BY <2>4, <2>5, <2>6, <2>7, LenProperties
<1>11. Rest(s, k) = [s EXCEPT !.pending = t, !.offset = (l + k) % 2]
  BY <1>1, <1>2, <1>3, <1>7, <1>8, <1>9 DEF Rest, Stream
<1>12. /\ Rest(s, k).pending = t /\ Rest(s, k).offset = (l + k) % 2
       /\ Rest(s, k).remote = s.remote /\ Rest(s, k).opening = s.opening
       /\ Rest(s, k).closing = s.closing /\ Rest(s, k).waiting = s.waiting
       /\ Rest(s, k) \in Stream
  BY <1>7, <1>10, <1>11 DEF Stream
<1>13. (l + k) % 2 = 1 => t # <<>>
  <2>1. (l + k) % 2 = 1 => Len(t) # 0
    BY <1>7, <1>8, <1>10
  <2>2. QED
    BY <1>10, <2>1, EmptySeq
<1>14. ASSUME NEW j \in DOMAIN t PROVE t[j] = (l + k) \div 2 + j
  <2>1. t[j] = q[m + j] /\ m + j \in 1..n
    BY <1>8, <1>10, <1>14, SMTT(30)
  <2>2. q[m + j] = l \div 2 + (m + j)
    BY <1>1, <1>4, <2>1
  <2>3. (l + k) \div 2 = l \div 2 + m
    BY <1>7, <1>8
  <2>4. j \in Nat /\ m \in Nat
    BY <1>8, <1>10, <1>14
  <2>5. PICK h \in Nat : h = l \div 2
    OBVIOUS
  <2>6. h + (m + j) = (h + m) + j
    BY <2>4
  <2>7. QED
    BY <2>1, <2>2, <2>3, <2>5, <2>6
<1>15. (l + k) \div 2 + Len(t) = l \div 2 + n
  <2>1. (l + k) \div 2 = l \div 2 + m
    BY <1>7, <1>8
  <2>2. PICK h \in Nat : h = l \div 2
    OBVIOUS
  <2>3. (h + m) + (n - m) = h + n
    BY <1>8
  <2>4. QED
    BY <1>10, <2>1, <2>2, <2>3
<1>16. ASSUME NEW i \in 1..k PROVE Unit(s, i) = (l + i + 1) \div 2
  <2>1. /\ (o + i + 1) \div 2 \in 1..n
        /\ l \div 2 + (o + i + 1) \div 2 = (l + i + 1) \div 2
    <3>1. i \in Nat /\ i >= 1 /\ i <= 2 * n - o
      BY <1>4, <1>5, <1>16
    <3>2. QED
      BY <1>3, <1>4, <3>1, UnitOf
  <2>2. Unit(s, i) = q[(o + i + 1) \div 2]
    BY <1>1, <1>3 DEF Unit
  <2>3. q[(o + i + 1) \div 2] = l \div 2 + (o + i + 1) \div 2
    BY <1>1, <1>4, <2>1
  <2>4. QED
    BY <2>1, <2>2, <2>3
<1>17. s.pending = <<>> => k = 0 /\ t = <<>>
  <2>1. ASSUME s.pending = <<>> PROVE k = 0 /\ t = <<>>
    <3>1. n = 0
      BY <1>1, <1>2, <2>1, EmptySeq
    <3>2. Len(t) = 0 /\ k = 0
      BY <1>7, <1>8, <1>10, <3>1
    <3>3. QED
      BY <1>10, <3>2, EmptySeq
  <2>2. QED
    BY <2>1
<1>18. Total(Rest(s, k), l + k) = Total(s, l)
  BY <1>1, <1>2, <1>12, <1>15 DEF Total
<1>19. QED
  BY <1>12, <1>13, <1>14, <1>16, <1>17, <1>18

\* What a pass adds to the output: at most one packet of each kind.
LEMMA Joined ==
    ASSUME NEW s \in Seq(Packet), NEW t \in Seq(Packet)
    PROVE  /\ s \o t \in Seq(Packet)
           /\ \A i \in DOMAIN s : i \in DOMAIN (s \o t) /\ (s \o t)[i] = s[i]
           /\ \A i \in DOMAIN (s \o t) \ DOMAIN s :
                i - Len(s) \in DOMAIN t /\ (s \o t)[i] = t[i - Len(s)]
           /\ DOMAIN s = 1..Len(s) /\ Len(s) \in Nat
           /\ DOMAIN (s \o t) = 1..(Len(s) + Len(t)) /\ Len(s \o t) = Len(s) + Len(t)
<1>1. /\ s \o t \in Seq(Packet) /\ Len(s \o t) = Len(s) + Len(t)
      /\ \A i \in 1..(Len(s) + Len(t)) :
            (s \o t)[i] = IF i <= Len(s) THEN s[i] ELSE t[i - Len(s)]
  BY ConcatProperties
<1>2. Len(s) \in Nat /\ Len(t) \in Nat /\ DOMAIN s = 1..Len(s) /\ DOMAIN t = 1..Len(t)
  BY LenProperties
<1>3. DOMAIN (s \o t) = 1..(Len(s) + Len(t))
  BY <1>1, LenProperties
<1>4. QED
  BY <1>1, <1>2, <1>3

Elements(s, S) == \A i \in DOMAIN s : s[i] \in S
NoData(S)      == \A p \in S : p.command # "WRTE"
Adds(s, t, S)  ==
    /\ t \in Seq(Packet)
    /\ \A i \in DOMAIN s : i \in DOMAIN t /\ t[i] = s[i]
    /\ \A i \in DOMAIN t \ DOMAIN s : t[i] \in S
    /\ \A i, j \in DOMAIN t \ DOMAIN s :
         t[i].command = "WRTE" /\ t[j].command = "WRTE" => i = j

LEMMA ThreeAdded ==
    ASSUME NEW s \in Seq(Packet), NEW a \in Seq(Packet), NEW b \in Seq(Packet),
           NEW c \in Seq(Packet), NEW C, Elements(c, C),
           NoData(C), Len(b) <= 1,
           NEW A, Elements(a, A),
           NEW B, Elements(b, B),
           NoData(A),
           NEW t, t = s \o a \o b \o c
    PROVE  Adds(s, t, A \cup B \cup C)
<1>1. PICK u \in Seq(Packet) : u = s \o a
  BY Joined
<1>2. PICK v \in Seq(Packet) : v = u \o b
  BY Joined
<1>3. t = v \o c
  BY <1>1, <1>2
<1>4. /\ \A i \in DOMAIN s : i \in DOMAIN u /\ u[i] = s[i]
      /\ \A i \in DOMAIN u \ DOMAIN s : u[i] \in A
  <2>1. \A i \in DOMAIN u \ DOMAIN s : i - Len(s) \in DOMAIN a /\ u[i] = a[i - Len(s)]
    BY <1>1, Joined, SMTT(30)
  <2>2. \A i \in DOMAIN s : i \in DOMAIN u /\ u[i] = s[i]
    BY <1>1, Joined
  <2>3. QED
    BY <2>1, <2>2 DEF Elements
<1>5. /\ \A i \in DOMAIN u : i \in DOMAIN v /\ v[i] = u[i]
      /\ \A i \in DOMAIN v \ DOMAIN u :
            v[i] \in B
      /\ DOMAIN v = 1..(Len(u) + Len(b)) /\ Len(u) \in Nat /\ DOMAIN u = 1..Len(u)
  BY <1>2, Joined, SMTT(30) DEF Elements
<1>6. /\ t \in Seq(Packet)
      /\ \A i \in DOMAIN v : i \in DOMAIN t /\ t[i] = v[i]
      /\ \A i \in DOMAIN t \ DOMAIN v : t[i] \in C
  <2>1. \A i \in DOMAIN t \ DOMAIN v : i - Len(v) \in DOMAIN c /\ t[i] = c[i - Len(v)]
    BY <1>3, Joined, SMTT(30)
  <2>2. t \in Seq(Packet) /\ \A i \in DOMAIN v : i \in DOMAIN t /\ t[i] = v[i]
    BY <1>3, Joined
  <2>3. QED
    BY <2>1, <2>2 DEF Elements
<1>7. \A i, j \in DOMAIN v \ DOMAIN u : i = j
  <2>1. DOMAIN b = 1..Len(b) /\ Len(b) \in Nat
    BY LenProperties
  <2>2. QED
    BY <1>5, <2>1, SMTT(30)
<1>8. ASSUME NEW i \in DOMAIN t \ DOMAIN s
      PROVE  /\ t[i] \in A \cup B \cup C
             /\ t[i].command = "WRTE" => i \in DOMAIN v \ DOMAIN u
  <2>1. CASE i \notin DOMAIN v
    BY <1>6, <2>1 DEF NoData
  <2>2. CASE i \in DOMAIN v /\ i \notin DOMAIN u
    BY <1>5, <1>6, <2>2
  <2>3. CASE i \in DOMAIN v /\ i \in DOMAIN u
    BY <1>4, <1>5, <1>6, <2>3 DEF NoData
  <2>4. QED
    BY <2>1, <2>2, <2>3
<1>9. QED
  BY <1>4, <1>5, <1>6, <1>7, <1>8 DEF Adds

LEMMA NamedRemote ==
    ASSUME TypeOK, NEW id \in DOMAIN streams
    PROVE  /\ id \in Local /\ id \in Nat /\ streams[id] \in Stream
           /\ streams[id].remote \in Nat
           /\ streams[id].remote \in Remote \cup {0}
<1>1. id \in Local /\ streams[id] \in Stream
  BY DEF TypeOK
<1>2. id \in Nat
  BY <1>1, ConstantTypes DEF Local
<1>3. streams[id].remote \in Remote \cup {0}
  BY <1>1 DEF Stream
<1>4. CASE streams[id].remote = 0
  BY <1>1, <1>2, <1>4
<1>5. CASE streams[id].remote \in Remote
  BY <1>1, <1>2, <1>5, ConstantTypes
<1>6. QED
  BY <1>3, <1>4, <1>5

LEMMA ServeOutput ==
    ASSUME TypeOK, NEW id \in DOMAIN streams, Serve(id),
           NEW s, s = streams[id], NEW v, v = service[id], NEW k, k = Taken(id)
    PROVE  /\ outq' \in Seq(Packet)
           /\ \A i \in DOMAIN outq : i \in DOMAIN outq' /\ outq'[i] = outq[i]
           /\ \A i \in DOMAIN outq' \ DOMAIN outq :
                \/ outq'[i] = Okay(id, s.remote) /\ Acks(s, k)
                \/ outq'[i] = Write(id, s.remote, 1) /\ Reads(s) /\ v.output > 0
                \/ outq'[i] = Close(id, s.remote) /\ Ends(s, v, k)
           /\ \A i, j \in DOMAIN outq' \ DOMAIN outq :
                outq'[i].command = "WRTE" /\ outq'[j].command = "WRTE" => i = j
<1>1. PICK a : a = IF Acks(s, k) THEN <<Okay(id, s.remote)>> ELSE <<>>
  OBVIOUS
<1>2. PICK b : b = IF Reads(s) /\ v.output > 0 THEN <<Write(id, s.remote, 1)>> ELSE <<>>
  OBVIOUS
<1>3. PICK c : c = IF Ends(s, v, k) THEN <<Close(id, s.remote)>> ELSE <<>>
  OBVIOUS
<1>4. outq' = outq \o a \o b \o c
  BY <1>1, <1>2, <1>3 DEF Serve
<1>5. /\ Okay(id, s.remote) \in Packet /\ Close(id, s.remote) \in Packet
      /\ Write(id, s.remote, 1) \in Packet
  BY NamedRemote, PacketKinds
<1>6. outq \in Seq(Packet) /\ a \in Seq(Packet) /\ b \in Seq(Packet) /\ c \in Seq(Packet)
  BY <1>1, <1>2, <1>3, <1>5, EmptySeq DEF TypeOK
<1>7. /\ \A i \in DOMAIN a : a[i] = Okay(id, s.remote) /\ Acks(s, k)
      /\ \A i \in DOMAIN b : b[i] = Write(id, s.remote, 1) /\ Reads(s) /\ v.output > 0
      /\ \A i \in DOMAIN c : c[i] = Close(id, s.remote) /\ Ends(s, v, k)
      /\ Len(b) <= 1
  BY <1>1, <1>2, <1>3
<1>8. Okay(id, s.remote).command # "WRTE" /\ Close(id, s.remote).command # "WRTE"
  BY DEF Okay, Close
<1>9. QED
  <2>1. PICK A, B, C :
            /\ A = {p \in Packet : p = Okay(id, s.remote) /\ Acks(s, k)}
            /\ B = {p \in Packet : p = Write(id, s.remote, 1) /\ Reads(s) /\ v.output > 0}
            /\ C = {p \in Packet : p = Close(id, s.remote) /\ Ends(s, v, k)}
    OBVIOUS
  <2>2. /\ outq' \in Seq(Packet)
        /\ \A i \in DOMAIN outq : i \in DOMAIN outq' /\ outq'[i] = outq[i]
        /\ \A i \in DOMAIN outq' \ DOMAIN outq : outq'[i] \in A \cup B \cup C
        /\ \A i, j \in DOMAIN outq' \ DOMAIN outq :
             outq'[i].command = "WRTE" /\ outq'[j].command = "WRTE" => i = j
    <3>1. Elements(a, A)
      BY <1>5, <1>7, <2>1 DEF Elements
    <3>2. Elements(b, B)
      BY <1>5, <1>7, <2>1 DEF Elements
    <3>3. Elements(c, C)
      BY <1>5, <1>7, <2>1 DEF Elements
    <3>4. NoData(A)
      BY <1>8, <2>1 DEF NoData
    <3>5. NoData(C)
      BY <1>8, <2>1 DEF NoData
    <3>6. PICK t : t = outq'
      OBVIOUS
    <3>7. PICK q : q = outq
      OBVIOUS
    <3>8. t = q \o a \o b \o c /\ q \in Seq(Packet) /\ Len(b) <= 1
      BY <1>4, <1>6, <1>7, <3>6, <3>7
    <3>9. Adds(q, t, A \cup B \cup C)
      BY <1>6, <3>1, <3>2, <3>3, <3>4, <3>5, <3>8, ThreeAdded
    <3>10. QED
      BY <3>6, <3>7, <3>9 DEF Adds
  <2>3. QED
    BY <2>1, <2>2

\* What the socket takes is there and has room.
LEMMA TakenFits ==
    ASSUME TypeOK, Room, NEW id \in DOMAIN streams, Numbered(id),
           NEW k, k = Taken(id)
    PROVE  /\ k \in Nat /\ k <= Backlog(streams[id])
           /\ service[id].unread + k <= SocketSize
           /\ Backlog(streams[id]) \in Nat
           /\ service[id].unread = SocketSize => k = 0
           /\ service[id].unread \in Nat
           /\ Backlog(streams[id]) > 0 /\ k = 0 => ~(service[id].unread < SocketSize)
<1>1. id \in Local /\ streams[id] \in Stream
  BY DEF TypeOK
<1>2. PICK u \in Nat : u = service[id].unread
  BY <1>1 DEF TypeOK, FarEnd
<1>3. SocketSize \in Nat /\ u <= SocketSize
  BY <1>1, <1>2, ConstantTypes DEF Room
<1>4. PICK n \in Nat : n = Len(streams[id].pending)
  BY <1>1, LenProperties DEF Stream
<1>5. streams[id].offset \in 0..1 /\ (streams[id].offset = 1 => n # 0)
  <2>1. n = 0 => streams[id].pending = <<>>
    BY <1>1, <1>4, EmptySeq DEF Stream
  <2>2. QED
    BY <1>1, <2>1 DEF Stream, Numbered
<1>6. PICK b \in Nat : b = Backlog(streams[id])
  BY <1>4, <1>5 DEF Backlog
<1>7. k = Least(SocketSize - u, b)
  BY <1>2, <1>6 DEF Taken
<1>8. QED
  BY <1>2, <1>3, <1>6, <1>7 DEF Least

\* The units that are written to the service, in order after the others.
LEMMA Flushed ==
    ASSUME TypeOK, Room, InOrder, NEW id \in DOMAIN streams, Numbered(id), Serve(id),
           NEW k, k = Taken(id), NEW l \in Nat, l = Len(delivered[id])
    PROVE  /\ delivered' \in [Local -> Seq(Nat)]
           /\ \A j \in Local : j # id => delivered'[j] = delivered[j]
           /\ Len(delivered'[id]) = l + k
           /\ streams[id].pending = <<>> => delivered'[id] = delivered[id]
           /\ InOrder'
<1>1. id \in Local /\ streams[id] \in Stream /\ delivered[id] \in Seq(Nat)
  BY DEF TypeOK
<1>2. k \in Nat /\ k <= Backlog(streams[id])
  BY TakenFits
<1>3. PICK s \in Stream : s = streams[id]
  BY <1>1
<1>4. /\ s.offset = l % 2 /\ (s.offset = 1 => s.pending # <<>>)
      /\ \A j \in DOMAIN s.pending : s.pending[j] = l \div 2 + j
  BY <1>3 DEF Numbered, Written
<1>5. /\ \A i \in 1..k : Unit(s, i) = (l + i + 1) \div 2
      /\ s.pending = <<>> => k = 0
  BY <1>2, <1>3, <1>4, RestNumbered, ZenonT(60)
<1>6. PICK u : u = [j \in 1..Taken(id) |-> Unit(streams[id], j)]
  OBVIOUS
<1>7. /\ u \in Seq(Nat) /\ Len(u) = k /\ DOMAIN u = 1..k
      /\ \A i \in 1..k : u[i] = (l + i + 1) \div 2
  <2>1. DOMAIN u = 1..k /\ u = [j \in 1..k |-> u[j]]
    BY <1>6
  <2>2. \A i \in 1..k : u[i] = (l + i + 1) \div 2
    BY <1>3, <1>5, <1>6
  <2>3. ASSUME NEW i \in 1..k PROVE (l + i + 1) \div 2 \in Nat
    <3>1. PICK h \in Nat : h = l + i + 1
      BY <1>2, <2>3
    <3>2. h \div 2 \in Nat
      OBVIOUS
    <3>3. QED
      BY <3>1, <3>2
  <2>4. u \in [1..k -> Nat]
    BY <2>1, <2>2, <2>3
  <2>5. u \in Seq(Nat)
    BY <1>2, <2>4, SeqDef
  <2>6. QED
    BY <1>2, <2>1, <2>2, <2>5, LenProperties
<1>8. PICK d \in Seq(Nat) : d = delivered[id]
  BY <1>1
<1>9. delivered' = [delivered EXCEPT ![id] = d \o u]
  <2>1. delivered' = [delivered EXCEPT ![id] =
                        @ \o [j \in 1..Taken(id) |-> Unit(streams[id], j)]]
    BY DEF Serve
  <2>2. QED
    BY <1>6, <1>8, <2>1
<1>10. /\ d \o u \in Seq(Nat) /\ Len(d \o u) = l + k
       /\ \A i \in 1..(l + k) : (d \o u)[i] = IF i <= l THEN d[i] ELSE u[i - l]
  <2>1. Len(d) = l /\ Len(u) = k /\ u \in Seq(Nat)
    BY <1>7, <1>8
  <2>2. /\ d \o u \in Seq(Nat) /\ Len(d \o u) = Len(d) + Len(u)
        /\ \A i \in 1..(Len(d) + Len(u)) :
             (d \o u)[i] = IF i <= Len(d) THEN d[i] ELSE u[i - Len(d)]
    BY <2>1, ConcatProperties
  <2>3. QED
    BY <2>1, <2>2
<1>11. /\ delivered' \in [Local -> Seq(Nat)] /\ delivered'[id] = d \o u
       /\ \A j \in Local : j # id => delivered'[j] = delivered[j]
  BY <1>1, <1>9, <1>10 DEF TypeOK
<1>12. s.pending = <<>> => delivered'[id] = d
  <2>1. k = 0 => u = <<>>
    BY <1>7, EmptySeq
  <2>2. d \o <<>> = d
    BY ConcatEmptySeq
  <2>3. QED
    BY <1>5, <1>11, <2>1, <2>2
<1>13. \A i \in DOMAIN (d \o u) : (d \o u)[i] = (i + 1) \div 2
  <2>1. DOMAIN (d \o u) = 1..(l + k)
    BY <1>10, LenProperties
  <2>2. DOMAIN d = 1..l
    BY <1>8, LenProperties
  <2>3. \A i \in 1..l : d[i] = (i + 1) \div 2
    BY <1>1, <1>8, <2>2 DEF InOrder
  <2>4. ASSUME NEW i \in 1..(l + k), ~(i <= l) PROVE (d \o u)[i] = (i + 1) \div 2
    <3>1. (d \o u)[i] = u[i - l]
      BY <1>10, <2>4
    <3>2. i - l \in 1..k /\ l + (i - l) + 1 = i + 1
      BY <1>2, <2>4
    <3>3. u[i - l] = (l + (i - l) + 1) \div 2
      BY <1>7, <3>2
    <3>4. QED
      BY <3>1, <3>2, <3>3
  <2>5. \A i \in 1..(l + k) : i <= l => i \in 1..l
    OBVIOUS
  <2>6. QED
    BY <1>10, <2>1, <2>3, <2>4, <2>5
<1>14. InOrder'
  BY <1>11, <1>13 DEF InOrder
<1>15. QED
  BY <1>3, <1>8, <1>10, <1>11, <1>12, <1>14

\* A stream that goes on after a pass.
LEMMA ServedStream ==
    ASSUME TypeOK, Room, InOrder, NEW peer \in [Local -> Remote \cup {0}], Protocol(peer),
           NEW id \in DOMAIN streams, Serve(id), id \in DOMAIN streams',
           NEW k, k = Taken(id), NEW s \in Stream, s = streams[id]
    PROVE  /\ DOMAIN streams' = DOMAIN streams
           /\ \A j \in DOMAIN streams : j # id => streams'[j] = streams[j]
           /\ streams'[id] \in Stream
           /\ streams'[id].remote = s.remote
           /\ streams'[id].opening = s.opening
           /\ streams'[id].closing = s.closing
           /\ streams'[id].waiting <=> s.waiting \/ (Reads(s) /\ service[id].output > 0)
           /\ s.pending = <<>> => streams'[id].pending = <<>>
           /\ Numbered(id)' /\ Accepted(id)' = Accepted(id)
           /\ ~Ends(s, service[id], k)
<1>1. id \in Local /\ Numbered(id)
  BY DEF TypeOK, Protocol, At
<1>2. PICK l \in Nat : l = Len(delivered[id])
  BY <1>1, LenProperties DEF TypeOK
<1>3. k \in Nat /\ k <= Backlog(s)
  BY <1>1, TakenFits
<1>4. /\ s.offset = l % 2 /\ (s.offset = 1 => s.pending # <<>>)
      /\ \A j \in DOMAIN s.pending : s.pending[j] = l \div 2 + j
  BY <1>1, <1>2 DEF Numbered, Written
<1>5. PICK t : t = Rest(s, k)
  OBVIOUS
<1>6. /\ t \in Stream
      /\ t.remote = s.remote /\ t.opening = s.opening
      /\ t.closing = s.closing /\ t.waiting = s.waiting
      /\ t.offset = (l + k) % 2
      /\ t.offset = 1 => t.pending # <<>>
      /\ \A j \in DOMAIN t.pending : t.pending[j] = (l + k) \div 2 + j
      /\ Total(t, l + k) = Total(s, l)
      /\ s.pending = <<>> => t.pending = <<>>
  <2>1. /\ Rest(s, k) \in Stream
        /\ Rest(s, k).remote = s.remote /\ Rest(s, k).opening = s.opening
        /\ Rest(s, k).closing = s.closing /\ Rest(s, k).waiting = s.waiting
        /\ Rest(s, k).offset = (l + k) % 2
        /\ Rest(s, k).offset = 1 => Rest(s, k).pending # <<>>
    BY <1>3, <1>4, RestNumbered
  <2>2. \A j \in DOMAIN Rest(s, k).pending : Rest(s, k).pending[j] = (l + k) \div 2 + j
    BY <1>3, <1>4, RestNumbered
  <2>3. Total(Rest(s, k), l + k) = Total(s, l)
    BY <1>3, <1>4, RestNumbered
  <2>4. s.pending = <<>> => Rest(s, k).pending = <<>>
    BY <1>3, <1>4, RestNumbered
  <2>5. QED
    BY <1>5, <2>1, <2>2, <2>3, <2>4
<1>7. Len(delivered'[id]) = l + k
  BY <1>1, <1>2, Flushed
<1>8. ~Ends(s, service[id], k)
  <2>1. CASE Ends(s, service[id], k)
    <3>1. Drop(id)
      BY <2>1 DEF Serve
    <3>2. QED
      BY <3>1 DEF Drop, WithoutStream, Restrict
  <2>2. QED
    BY <2>1
<1>9. PICK w \in BOOLEAN : w <=> s.waiting \/ (Reads(s) /\ service[id].output > 0)
  OBVIOUS
<1>10. streams' = [streams EXCEPT ![id] = [t EXCEPT !.waiting = w]]
  <2>1. PICK b : b = IF Reads(s) /\ service[id].output > 0
                     THEN <<Write(id, s.remote, 1)>> ELSE <<>>
    OBVIOUS
  <2>2. streams' = [streams EXCEPT ![id] = [t EXCEPT !.waiting = @ \/ b # <<>>]]
    BY <1>5, <1>8, <2>1 DEF Serve
  <2>3. b # <<>> <=> Reads(s) /\ service[id].output > 0
    BY <2>1
  <2>4. t.waiting \/ b # <<>> <=> w
    BY <1>6, <1>9, <2>3
  <2>5. (t.waiting \/ b # <<>>) = w
    BY <2>4
  <2>6. QED
    BY <2>2, <2>5
<1>11. /\ DOMAIN streams' = DOMAIN streams
       /\ \A j \in DOMAIN streams : j # id => streams'[j] = streams[j]
       /\ streams'[id] = [t EXCEPT !.waiting = w]
  BY <1>10 DEF TypeOK
<1>12. /\ streams'[id] \in Stream
       /\ streams'[id].remote = t.remote /\ streams'[id].pending = t.pending
       /\ streams'[id].offset = t.offset
  BY <1>6, <1>9, <1>11 DEF Stream
<1>13. streams'[id].opening = t.opening
  BY <1>6, <1>11 DEF Stream
<1>14. streams'[id].closing = t.closing
  BY <1>6, <1>11 DEF Stream
<1>15. streams'[id].waiting = w
  BY <1>6, <1>11 DEF Stream
<1>16. Numbered(id)'
  BY <1>6, <1>7, <1>12 DEF Numbered, Written
<1>17. Accepted(id)' = Accepted(id)
  BY <1>2, <1>6, <1>7, <1>12 DEF Total, Accepted, Written
<1>18. QED
  BY <1>6, <1>8, <1>9, <1>11, <1>12, <1>13, <1>14, <1>15, <1>16, <1>17

\* The remote id that a pass answers is the one the stream belongs to.
LEMMA ServedRemote ==
    ASSUME TypeOK, Room, NEW peer \in [Local -> Remote \cup {0}], Protocol(peer),
           NEW id \in DOMAIN streams, NEW s, s = streams[id], NEW k, k = Taken(id),
           Acks(s, k) \/ Reads(s)
    PROVE  s.remote = peer[id] /\ peer[id] # 0
<1>1. Named(peer, id)
  BY DEF Protocol, At
<1>2. ~s.opening
  BY <1>1 DEF Named, Acks, Reads
<1>3. QED
  BY <1>1, <1>2 DEF Named

LEMMA ServeSound ==
    ASSUME TypeOK, Room, InOrder, Sound, NEW id \in Local, Serve(id)
    PROVE  Sound'
<1>1. PICK peer \in [Local -> Remote \cup {0}] : Protocol(peer)
  BY DEF Sound, Serve
<1>2. id \in DOMAIN streams /\ inq' = inq /\ client' = client /\ next' = next
  BY DEF Serve, Exists
<1>3. PICK s \in Stream : s = streams[id]
  BY <1>2 DEF TypeOK
<1>4. PICK k : k = Taken(id)
  OBVIOUS
<1>5. PICK v : v = service[id]
  OBVIOUS
<1>6. /\ outq' \in Seq(Packet)
      /\ \A i \in DOMAIN outq : i \in DOMAIN outq' /\ outq'[i] = outq[i]
      /\ \A i \in DOMAIN outq' \ DOMAIN outq :
           \/ outq'[i] = Okay(id, s.remote) /\ Acks(s, k)
           \/ outq'[i] = Write(id, s.remote, 1) /\ Reads(s) /\ v.output > 0
           \/ outq'[i] = Close(id, s.remote) /\ Ends(s, v, k)
      /\ \A i, j \in DOMAIN outq' \ DOMAIN outq :
           outq'[i].command = "WRTE" /\ outq'[j].command = "WRTE" => i = j
  BY <1>2, <1>3, <1>4, <1>5, ServeOutput
<1>7. Acks(s, k) \/ Reads(s) => s.remote = peer[id] /\ peer[id] # 0
  BY <1>1, <1>2, <1>3, <1>4, ServedRemote
<1>8. \A i \in DOMAIN outq' \ DOMAIN outq :
        /\ outq'[i].command \in {"OKAY", "WRTE", "CLSE"}
        /\ outq'[i].command # "CLSE" =>
            outq'[i].from = id /\ outq'[i].to = peer[id] /\ outq'[i].to # 0
        /\ outq'[i].command = "WRTE" => Reads(s) /\ v.output > 0
  BY <1>6, <1>7 DEF Okay, Write, Close
<1>9. At(peer, id)
  BY <1>1, <1>2 DEF Protocol
<1>10. PICK l \in Nat : l = Len(delivered[id])
  BY LenProperties DEF TypeOK
<1>11. /\ \A j \in Local : j # id => delivered'[j] = delivered[j]
       /\ s.pending = <<>> => delivered'[id] = delivered[id]
  BY <1>2, <1>3, <1>4, <1>9, <1>10, Flushed DEF At
<1>12. CASE id \notin DOMAIN streams'
  <2>1. streams' = WithoutStream(id)
    <3>1. CASE Ends(s, v, k)
      BY <1>3, <1>4, <1>5, <3>1 DEF Serve, Drop
    <3>2. CASE ~Ends(s, v, k)
      <4>1. DOMAIN streams' = DOMAIN streams
        BY <1>3, <1>4, <1>5, <3>2 DEF Serve, TypeOK
      <4>2. QED
        BY <1>2, <1>12, <4>1
    <3>3. QED
      BY <3>1, <3>2
  <2>2. peer[id] = 0 \/ streams[id].pending # <<>> \/ delivered'[id] = delivered[id]
    BY <1>3, <1>11
  <2>3. \A i \in DOMAIN outq' \ DOMAIN outq :
            /\ outq'[i].command \in {"OKAY", "WRTE", "CLSE"}
            /\ outq'[i].command # "CLSE" =>
                outq'[i].from = id /\ outq'[i].to = peer[id] /\ outq'[i].to # 0
    BY <1>8
  <2>4. Protocol(peer)'
    BY <1>1, <1>2, <1>6, <1>11, <2>1, <2>2, <2>3, DropSound
  <2>5. QED
    BY <2>4 DEF Sound
<1>13. CASE id \in DOMAIN streams'
  <2>1. /\ DOMAIN streams' = DOMAIN streams
        /\ \A j \in DOMAIN streams : j # id => streams'[j] = streams[j]
        /\ streams'[id] \in Stream
        /\ streams'[id].remote = s.remote
        /\ streams'[id].opening = s.opening
        /\ streams'[id].closing = s.closing
        /\ streams'[id].waiting <=> s.waiting \/ (Reads(s) /\ v.output > 0)
        /\ s.pending = <<>> => streams'[id].pending = <<>>
        /\ Numbered(id)' /\ Accepted(id)' = Accepted(id)
    BY <1>1, <1>2, <1>3, <1>4, <1>5, <1>13, ServedStream
  <2>2. /\ Used' = Used /\ Used \subseteq Local
        /\ \A i \in DOMAIN inq : i \in Nat
        /\ \A i \in DOMAIN inq' : i \in Nat
        /\ \A i \in DOMAIN outq : i \in Nat
        /\ \A i \in DOMAIN outq' : i \in Nat
    BY <1>2, <1>6, Indices, LenProperties DEF Used
  <2>3. InputKept(id, 0) /\ OkaysKept(id, 0) /\ WritesKept(id, 0) /\ SameWriters(id)
    BY <1>2, <2>2, AllSameInput DEF SameInput, SameWriters, Writers
  <2>4. Named(peer, id)'
    <3>1. CASE s.opening
      BY <1>3, <1>9, <1>11, <2>1, <2>2, <3>1 DEF At, Named
    <3>2. CASE ~s.opening
      BY <1>3, <1>9, <2>1, <2>2, <3>2 DEF At, Named
    <3>3. QED
      BY <3>1, <3>2
  <2>5. Expected(id)' /\ Gapless(id)'
    BY <1>3, <1>9, <2>1, <2>2, <2>3, SameExpected, SameGapless DEF At
  <2>6. OneOutput(id)'
    <3>1. CASE ~(Reads(s) /\ v.output > 0)
      <4>1. SameOutput(id, 0)
        BY <1>6, <1>8, <2>2, <3>1 DEF SameOutput
      <4>2. streams[id].waiting => streams'[id].waiting
        BY <1>3, <2>1
      <4>3. streams'[id].opening = streams[id].opening
        BY <1>3, <2>1
      <4>4. OneOutput(id)
        BY <1>9 DEF At
      <4>5. QED
        BY <2>2, <2>3, <4>1, <4>2, <4>3, <4>4, SameOneOutput
    <3>2. CASE Reads(s) /\ v.output > 0
      <4>1. ~s.waiting /\ ~s.opening /\ streams'[id].waiting /\ ~streams'[id].opening
        BY <2>1, <3>2 DEF Reads
      <4>2. Okays(id) = {}
        BY <1>3, <1>9, <4>1 DEF At, Expected, Okays
      <4>3. Okays(id)' = {}
        BY <1>2, <4>2 DEF Okays
      <4>4. Unacked(id)' /\ ~Unacked(id)
        BY <1>3, <4>1, <4>3 DEF Unacked
      <4>5. \A i \in DOMAIN outq : ~(outq[i].command = "WRTE" /\ outq[i].from = id)
        BY <1>9, <4>4 DEF At, OneOutput
      <4>6. \A r \in Writers(id) : ~client[r].owes
        BY <1>9, <4>4 DEF At, OneOutput
      <4>7. \A i, j \in DOMAIN outq' : outq'[i].command = "WRTE" /\ outq'[i].from = id
                 /\ outq'[j].command = "WRTE" /\ outq'[j].from = id => i = j
        BY <1>6, <4>5
      <4>8. \A r \in Writers(id)' : ~client'[r].owes
        BY <1>2, <4>6 DEF Writers
      <4>9. QED
        BY <4>4, <4>7, <4>8 DEF OneOutput
    <3>3. QED
      BY <3>1, <3>2
  <2>7. At(peer, id)'
    BY <2>1, <2>4, <2>5, <2>6 DEF At
  <2>8. ASSUME NEW r \in Remote, peer[id] = r PROVE Knows(peer, r)'
    <3>1. Knows(peer, r)
      BY <1>1 DEF Protocol
    <3>2. CASE client[r].state = "idle"
      BY <1>2, <3>1, <3>2 DEF Knows
    <3>3. CASE client[r].state = "opening"
      <4>1. /\ client[r] = [Idle EXCEPT !.state = "opening"]
            /\ s.pending = <<>> /\ ~s.opening /\ ~s.closing /\ delivered[id] = <<>>
        BY <1>2, <1>3, <2>8, <3>1, <3>3 DEF Knows
      <4>2. delivered'[id] = <<>>
        BY <1>11, <4>1
      <4>3. ~streams'[id].opening /\ ~streams'[id].closing /\ streams'[id].pending = <<>>
        BY <2>1, <4>1
      <4>4. \A j \in Local : peer[j] = r => j = id
        BY <1>1, <2>8, ConstantTypes DEF Protocol, Names
      <4>5. \A i \in DOMAIN inq' : inq'[i].to # id
        BY <1>2, <2>8, <3>1, <3>3 DEF Knows
      <4>6. QED
        BY <1>2, <3>3, <4>1, <4>2, <4>3, <4>4, <4>5 DEF Knows
    <3>4. CASE client[r].state = "open"
      <4>1. client[r].local \in Used /\ client[r].local \in Local /\ peer[client[r].local] = r
        BY <2>2, <3>1, <3>4 DEF Knows
      <4>2. client[r].local = id
        BY <1>1, <2>8, <4>1, ConstantTypes DEF Protocol, Names
      <4>3. /\ \A i \in DOMAIN inq : inq[i].command = "CLSE" => inq[i].to # id
            /\ ~s.closing
            /\ s.opening => Okays(id) # {}
        BY <1>2, <1>3, <3>1, <3>4, <4>2 DEF Knows
      <4>4. /\ \A i \in DOMAIN inq' : inq'[i].command = "CLSE" => inq'[i].to # id
            /\ ~streams'[id].closing
            /\ streams'[id].opening => Okays(id)' # {}
        BY <1>2, <2>1, <4>3 DEF Okays
      <4>5. client'[r] = client[r] /\ id \in Used' /\ peer[id] = r
        BY <1>2, <2>2, <4>1, <4>2
      <4>6. QED
        BY <3>4, <4>2, <4>4, <4>5 DEF Knows
    <3>5. CASE client[r].state \notin {"idle", "opening", "open"}
      BY <1>2, <3>5 DEF Knows
    <3>6. QED
      BY <3>2, <3>3, <3>4, <3>5
  <2>9. \A i \in DOMAIN outq' \ DOMAIN outq :
            /\ outq'[i].command \in {"OKAY", "WRTE", "CLSE"}
            /\ outq'[i].command # "CLSE" =>
                outq'[i].from = id /\ outq'[i].to = peer[id] /\ outq'[i].to # 0
    BY <1>8
  <2>10. Protocol(peer)'
    <3>1. DOMAIN streams' \subseteq DOMAIN streams
      BY <2>1
    <3>2. \A j \in DOMAIN streams' : j # id => streams'[j] = streams[j]
      BY <2>1
    <3>3. QED
      BY <1>1, <1>2, <1>3, <1>6, <1>11, <2>1, <2>7, <2>8, <2>9, <3>1, <3>2, ServiceFrame
  <2>11. QED
    BY <2>10 DEF Sound
<1>14. QED
  BY <1>12, <1>13

\* A stream of ours belongs to no client before it is answered.
LEMMA ReverseSound ==
    ASSUME TypeOK, Sound, ReverseAccept
    PROVE  Sound'
<1>1. PICK peer \in [Local -> Remote \cup {0}] : Protocol(peer)
  BY DEF Sound, ReverseAccept
<1>2. PICK n \in Local : n = next
  BY DEF ReverseAccept
<1>3. /\ inq' = inq /\ client' = client /\ delivered' = delivered
      /\ streams' = WithStream(n, NewStream(0, TRUE)) /\ Send(Open(n)) /\ next' = next + 1
  BY <1>2 DEF ReverseAccept
<1>4. /\ n \notin Used /\ n \notin DOMAIN streams /\ Used' = Used \cup {n}
      /\ peer[n] = 0 /\ delivered[n] = <<>>
      /\ \A i \in DOMAIN inq : inq[i].to # n
      /\ \A i \in DOMAIN outq : outq[i].command # "CLSE" => outq[i].from # n
      /\ Writers(n) = {}
  BY <1>1, <1>2, <1>3, Unused
<1>5. n \in Nat
  BY ConstantTypes DEF Local
<1>6. /\ DOMAIN streams' = DOMAIN streams \cup {n}
      /\ \A id \in DOMAIN streams : streams'[id] = streams[id]
      /\ streams'[n] = NewStream(0, TRUE)
  BY <1>3, <1>4 DEF WithStream
<1>7. PICK p \in Packet : p = Open(n)
  BY <1>5, PacketKinds
<1>8. p.command = "OPEN" /\ p.from = n /\ p.to = 0
  BY <1>7 DEF Open
<1>9. /\ \A i \in DOMAIN outq : i \in DOMAIN outq' /\ outq'[i] = outq[i]
      /\ \A i \in DOMAIN outq' \ DOMAIN outq : outq'[i] = p
      /\ \A i \in DOMAIN outq' : i \in Nat
      /\ \A i, j \in DOMAIN outq' \ DOMAIN outq : i = j
  <2>1. /\ \A i \in DOMAIN outq : i \in DOMAIN outq' /\ outq'[i] = outq[i]
        /\ \A i \in DOMAIN outq' \ DOMAIN outq : outq'[i] = p
        /\ \A i \in DOMAIN outq' : i \in Nat
    BY <1>3, <1>7, Appended
  <2>2. outq \in Seq(Packet) /\ outq' = Append(outq, p)
    BY <1>3, <1>7 DEF TypeOK, Send
  <2>3. DOMAIN outq = 1..Len(outq) /\ DOMAIN outq' = 1..(Len(outq) + 1) /\ Len(outq) \in Nat
    BY <2>2, AppendProperties, LenProperties
  <2>4. \A i, j \in DOMAIN outq' \ DOMAIN outq : i = j
    BY <2>3
  <2>5. QED
    BY <2>1, <2>4
<1>10. /\ \A i \in DOMAIN inq : i \in Nat
       /\ \A i \in DOMAIN inq' : i \in Nat
       /\ \A i \in DOMAIN outq : i \in Nat
       /\ Used \subseteq Local /\ Used \subseteq Used' /\ n \in Used'
  BY <1>3, <1>4, Indices
<1>11. Names(peer)' /\ Received(peer)'
  BY <1>1, <1>3, <1>4 DEF Protocol, Names, Received
<1>12. Sent(peer)'
  <2>1. ASSUME NEW i \in DOMAIN outq'
        PROVE  /\ outq'[i].command # "CLSE" => outq'[i].from \in Used'
               /\ outq'[i].command \in {"OKAY", "WRTE"} =>
                   peer[outq'[i].from] = outq'[i].to /\ outq'[i].to # 0
               /\ outq'[i].command = "OPEN" =>
                   /\ outq'[i].to = 0
                   /\ peer[outq'[i].from] = 0
                   /\ \A j \in DOMAIN inq' : inq'[j].to # outq'[i].from
                   /\ outq'[i].from \in DOMAIN streams' => ~streams'[outq'[i].from].closing
    <3>1. CASE i \in DOMAIN outq
      <4>1. outq'[i] = outq[i] /\ (outq[i].command # "CLSE" => outq[i].from \in Used)
        BY <1>1, <1>9, <3>1 DEF Protocol, Sent
      <4>2. outq[i].command = "OPEN" /\ outq[i].from \in DOMAIN streams' =>
                outq[i].from \in DOMAIN streams /\ ~streams'[outq[i].from].closing
        BY <1>1, <1>4, <1>6, <3>1, <4>1 DEF Protocol, Sent
      <4>3. QED
        BY <1>1, <1>3, <1>10, <3>1, <4>1, <4>2 DEF Protocol, Sent
    <3>2. CASE i \notin DOMAIN outq
      BY <1>3, <1>4, <1>6, <1>8, <1>9, <1>10, <3>2 DEF NewStream
    <3>3. QED
      BY <3>1, <3>2
  <2>2. ASSUME NEW i \in DOMAIN outq', NEW j \in DOMAIN outq', outq'[i].command = "OPEN",
               outq'[j].command = "OPEN", outq'[i].from = outq'[j].from
        PROVE  i = j
    <3>1. CASE i \in DOMAIN outq /\ j \in DOMAIN outq
      BY <1>1, <1>9, <2>2, <3>1 DEF Protocol, Sent
    <3>2. CASE i \in DOMAIN outq /\ j \notin DOMAIN outq
      BY <1>4, <1>8, <1>9, <2>2, <3>2
    <3>3. CASE i \notin DOMAIN outq /\ j \in DOMAIN outq
      BY <1>4, <1>8, <1>9, <2>2, <3>3
    <3>4. CASE i \notin DOMAIN outq /\ j \notin DOMAIN outq
      BY <1>9, <3>4
    <3>5. QED
      BY <3>1, <3>2, <3>3, <3>4
  <2>3. QED
    BY <2>1, <2>2 DEF Sent
<1>13. ASSUME NEW id \in Local PROVE SameInput(id, 0) /\ SameWriters(id) /\ SameOutput(id, 0)
  <2>1. SameInput(id, 0) /\ SameWriters(id)
    BY <1>3, <1>10, AllSameInput DEF SameWriters, Writers
  <2>2. SameOutput(id, 0)
    BY <1>8, <1>9 DEF SameOutput
  <2>3. QED
    BY <2>1, <2>2
<1>14. ASSUME NEW id \in DOMAIN streams PROVE At(peer, id)'
  <2>1. /\ id \in Local /\ At(peer, id)
        /\ streams'[id] = streams[id] /\ delivered'[id] = delivered[id]
    BY <1>1, <1>3, <1>6 DEF Protocol, TypeOK
  <2>2. SameInput(id, 0) /\ SameWriters(id) /\ SameOutput(id, 0)
    BY <1>13, <2>1
  <2>3. QED
    BY <1>9, <1>10, <2>1, <2>2, SameAt
<1>15. At(peer, n)'
  <2>1. /\ streams'[n].pending = <<>> /\ streams'[n].offset = 0
        /\ streams'[n].remote = 0 /\ streams'[n].opening
    BY <1>6 DEF NewStream
  <2>2. \A i \in DOMAIN inq' : inq'[i].to # n
    BY <1>3, <1>4
  <2>3. \A i \in DOMAIN outq' : outq'[i].command = "WRTE" => outq'[i].from # n
    BY <1>4, <1>8, <1>9
  <2>4. Writers(n)' = {}
    BY <1>3, <1>4 DEF Writers
  <2>5. delivered'[n] = <<>>
    BY <1>3, <1>4
  <2>6. QED
    BY <1>10, <2>1, <2>2, <2>3, <2>4, <2>5, FreshAt
<1>16. ASSUME NEW c \in Remote PROVE Knows(peer, c)'
  <2>1. \A id \in Local : peer[id] = c =>
            /\ SameInput(id, 0)
            /\ delivered'[id] = delivered[id]
            /\ id \in DOMAIN streams' => id \in DOMAIN streams /\ streams'[id] = streams[id]
    <3>1. \A id \in Local : peer[id] = c => id # n
      BY <1>4, ConstantTypes
    <3>2. QED
      BY <1>3, <1>6, <1>13, <3>1
  <2>2. Knows(peer, c) /\ client'[c] = client[c]
    BY <1>1, <1>3 DEF Protocol
  <2>3. QED
    BY <1>10, <2>1, <2>2, SameKnows
<1>17. Protocol(peer)'
  BY <1>6, <1>11, <1>12, <1>14, <1>15, <1>16 DEF Protocol
<1>18. QED
  BY <1>17 DEF Sound

-----------------------------------------------------------------------------
(* The client *)

\* A step of the client is sound if it is so for the stream and the id it is about.
LEMMA ClientFrame ==
    ASSUME TypeOK, NEW peer \in [Local -> Remote \cup {0}], Protocol(peer),
           NEW q \in [Local -> Remote \cup {0}],
           streams' = streams, next' = next, delivered' = delivered,
           NEW m \in {0, 1},
           \A i \in DOMAIN outq' : i \in Nat /\ i + m \in DOMAIN outq /\ outq'[i] = outq[i + m],
           NEW a, \A id \in Local : id # a =>
                q[id] = peer[id] /\ SameInput(id, 0) /\ SameWriters(id),
           \A i \in DOMAIN inq' : i \in Nat,
           NEW r, \A c \in Remote : c # r =>
                /\ client'[c] = client[c]
                /\ \A id \in Local : (q[id] = c <=> peer[id] = c) /\ (peer[id] = c => id # a),
           Names(q)', Received(q)', Sent(q)',
           a \in DOMAIN streams => At(q, a)',
           r \in Remote => Knows(q, r)'
    PROVE  Protocol(q)'
<1>1. /\ Used' = Used /\ Used \subseteq Local
      /\ \A i \in DOMAIN inq : i \in Nat
      /\ \A i \in DOMAIN outq : i \in Nat
  BY Indices DEF Used
<1>2. ASSUME NEW id \in DOMAIN streams, id # a PROVE At(q, id)'
  <2>1. id \in Local /\ At(peer, id)
    BY DEF Protocol, TypeOK
  <2>2. /\ q[id] = peer[id] /\ SameInput(id, 0) /\ SameWriters(id)
        /\ streams'[id] = streams[id] /\ delivered'[id] = delivered[id]
    BY <1>2, <2>1
  <2>3. SameOutput(id, m) /\ \A i \in DOMAIN outq' : i \in Nat
    BY DEF SameOutput
  <2>4. QED
    BY <1>1, <2>1, <2>2, <2>3, SameAt
<1>3. ASSUME NEW c \in Remote, c # r PROVE Knows(q, c)'
  <2>1. \A id \in Local : peer[id] = c =>
            /\ SameInput(id, 0)
            /\ delivered'[id] = delivered[id]
            /\ id \in DOMAIN streams' => id \in DOMAIN streams /\ streams'[id] = streams[id]
    BY <1>3
  <2>2. \A id \in Local : q[id] = c <=> peer[id] = c
    BY <1>3
  <2>3. Knows(peer, c) /\ client'[c] = client[c]
    BY <1>3 DEF Protocol
  <2>4. QED
    BY <1>1, <2>1, <2>2, <2>3, SameKnows
<1>4. QED
  BY <1>2, <1>3 DEF Protocol

LEMMA InputAppended ==
    ASSUME TypeOK, NEW p \in Packet, inq' = Append(inq, p), NEW n, n = Len(inq) + 1
    PROVE  /\ inq' \in Seq(Packet) /\ n \in Nat /\ n \notin DOMAIN inq
           /\ DOMAIN inq' = DOMAIN inq \cup {n} /\ inq'[n] = p
           /\ \A i \in DOMAIN inq : i \in Nat /\ i < n /\ inq'[i] = inq[i]
           /\ \A i \in DOMAIN inq' : i \in Nat
           /\ \A id : id # p.to => SameInput(id, 0)
<1>1. inq \in Seq(Packet) /\ Len(inq) \in Nat /\ DOMAIN inq = 1..Len(inq)
  BY LenProperties DEF TypeOK
<1>2. inq' \in Seq(Packet) /\ Len(inq') = n
  BY <1>1, AppendProperties
<1>3. DOMAIN inq' = 1..n
  BY <1>2, LenProperties
<1>4. /\ n \in Nat /\ n \notin DOMAIN inq /\ DOMAIN inq' = DOMAIN inq \cup {n}
      /\ \A i \in DOMAIN inq : i \in Nat /\ i < n
      /\ \A i \in DOMAIN inq' : i \in Nat
  BY <1>1, <1>3
<1>5. inq'[n] = p /\ \A i \in DOMAIN inq : inq'[i] = inq[i]
  BY <1>1, AppendProperties
<1>6. ASSUME NEW id, id # p.to PROVE SameInput(id, 0)
  <2>1. InputKept(id, 0)
    BY <1>4, <1>5, <1>6 DEF InputKept
  <2>2. OkaysKept(id, 0) /\ WritesKept(id, 0)
    BY <1>4, <1>5 DEF OkaysKept, WritesKept, Okays, Writes
  <2>3. QED
    BY <2>1, <2>2 DEF SameInput
<1>7. QED
  BY <1>2, <1>4, <1>5, <1>6

\* A packet for a stream, from the client it belongs to, and not after a close.
LEMMA ReceivedMore ==
    ASSUME TypeOK, NEW peer, Received(peer), NEW q, next' = next,
           NEW p \in Packet, inq' = Append(inq, p),
           \A c \in Remote : client'[c].state = "idle" => client[c].state = "idle",
           \A i \in DOMAIN inq :
                /\ inq[i].command # "OPEN" => q[inq[i].to] = peer[inq[i].to]
                /\ inq[i].command = "OPEN" => \A id \in Local : q[id] # inq[i].from
                /\ inq[i].command = "CLSE" => inq[i].to # p.to
                /\ inq[i].command = "OPEN" /\ p.command = "OPEN" => inq[i].from # p.from,
           IF p.command = "OPEN"
           THEN /\ p.from \in Remote /\ p.to = 0
                /\ client'[p.from].state # "idle"
                /\ \A id \in Local : q[id] # p.from
           ELSE p.to \in Used /\ p.from = q[p.to] /\ (p.command # "CLSE" => p.from # 0)
    PROVE  Received(q)'
<1>1. PICK n : n = Len(inq) + 1
  OBVIOUS
<1>2. /\ DOMAIN inq' = DOMAIN inq \cup {n} /\ inq'[n] = p /\ n \notin DOMAIN inq /\ n \in Nat
      /\ \A i \in DOMAIN inq : i \in Nat /\ i < n /\ inq'[i] = inq[i]
      /\ Used' = Used
  BY <1>1, InputAppended DEF Used
<1>3. ASSUME NEW i \in DOMAIN inq'
      PROVE  IF inq'[i].command = "OPEN"
             THEN /\ inq'[i].from \in Remote /\ inq'[i].to = 0
                  /\ client'[inq'[i].from].state # "idle"
                  /\ \A id \in Local : q[id] # inq'[i].from
             ELSE /\ inq'[i].to \in Used'
                  /\ inq'[i].from = q[inq'[i].to]
                  /\ inq'[i].command # "CLSE" => inq'[i].from # 0
  <2>1. CASE i = n
    BY <1>2, <2>1
  <2>2. CASE i \in DOMAIN inq
    BY <1>2, <2>2 DEF Received
  <2>3. QED
    BY <1>2, <2>1, <2>2
<1>4. ASSUME NEW i \in DOMAIN inq', NEW j \in DOMAIN inq'
      PROVE  /\ inq'[i].command = "OPEN" /\ inq'[j].command = "OPEN" /\ inq'[i].from = inq'[j].from
                 => i = j
             /\ i < j /\ inq'[i].command = "CLSE" => inq'[j].to # inq'[i].to
  <2>1. CASE i \in DOMAIN inq /\ j \in DOMAIN inq
    BY <1>2, <2>1 DEF Received
  <2>2. CASE i \in DOMAIN inq /\ j = n
    BY <1>2, <2>2
  <2>3. CASE i = n /\ j \in DOMAIN inq
    <3>1. j < n /\ i \in Nat /\ j \in Nat
      BY <1>2, <2>3
    <3>2. ~(i < j)
      BY <2>3, <3>1
    <3>3. QED
      BY <1>2, <2>3, <3>2
  <2>4. CASE i = n /\ j = n
    BY <1>2, <2>4
  <2>5. QED
    BY <1>2, <2>1, <2>2, <2>3, <2>4
<1>5. QED
  BY <1>3, <1>4 DEF Received

\* The output that is left is as it was.
LEMMA SentLess ==
    ASSUME NEW peer, NEW q, Sent(peer), next' = next, streams' = streams,
           NEW m \in {0, 1},
           \A i \in DOMAIN outq' : i \in Nat /\ i + m \in DOMAIN outq /\ outq'[i] = outq[i + m],
           \A i \in DOMAIN outq' : outq'[i].command # "CLSE" =>
                q[outq'[i].from] = peer[outq'[i].from],
           \A i \in DOMAIN outq', j \in DOMAIN inq' : outq'[i].command = "OPEN" =>
                inq'[j].to # outq'[i].from
    PROVE  Sent(q)'
<1>1. Used' = Used
  BY DEF Used
<1>2. ASSUME NEW i \in DOMAIN outq'
      PROVE  /\ outq'[i].command # "CLSE" => outq'[i].from \in Used'
             /\ outq'[i].command \in {"OKAY", "WRTE"} =>
                 q[outq'[i].from] = outq'[i].to /\ outq'[i].to # 0
             /\ outq'[i].command = "OPEN" =>
                 /\ outq'[i].to = 0
                 /\ q[outq'[i].from] = 0
                 /\ \A j \in DOMAIN inq' : inq'[j].to # outq'[i].from
                 /\ outq'[i].from \in DOMAIN streams' => ~streams'[outq'[i].from].closing
  BY <1>1 DEF Sent
<1>3. ASSUME NEW i \in DOMAIN outq', NEW j \in DOMAIN outq', outq'[i].command = "OPEN",
             outq'[j].command = "OPEN", outq'[i].from = outq'[j].from
      PROVE  i = j
  <2>1. i + m = j + m
    BY <1>3 DEF Sent
  <2>2. i \in Nat
    OBVIOUS
  <2>3. j \in Nat
    OBVIOUS
  <2>4. QED
    BY <2>1, <2>2, <2>3
<1>4. QED
  BY <1>2, <1>3 DEF Sent

\* A client sends a packet on a stream that is open to it.
Talks(r, a, p) ==
    /\ streams' = streams /\ next' = next /\ delivered' = delivered /\ outq' = outq
    /\ client[r].state = "open" /\ client[r].local = a
    /\ p.to = a /\ p.from = r /\ p.command \in {"OKAY", "WRTE", "CLSE"}
    /\ inq' = Append(inq, p)
    /\ DOMAIN client' = Remote
    /\ \A c \in Remote : c # r => client'[c] = client[c]
    /\ client'[r].state \in {"open", "closed"}
    /\ client'[r].state = "open" => client'[r].local = a /\ p.command # "CLSE"

LEMMA TalkFacts ==
    ASSUME TypeOK, NEW peer \in [Local -> Remote \cup {0}], Protocol(peer),
           NEW r \in Remote, NEW a, NEW p \in Packet, Talks(r, a, p)
    PROVE  /\ a \in Local /\ a \in Used /\ peer[a] = r /\ Used' = Used
           /\ \A i \in DOMAIN inq : inq[i].command = "CLSE" => inq[i].to # a
           /\ a \in DOMAIN streams =>
                ~streams[a].closing /\ (streams[a].opening => Okays(a) # {})
           /\ \A c \in Writers(a) : c = r
           /\ \A c \in Writers(a)' : c = r
<1>1. /\ a \in Used /\ peer[a] = r
      /\ \A i \in DOMAIN inq : inq[i].command = "CLSE" => inq[i].to # a
      /\ a \in DOMAIN streams =>
           ~streams[a].closing /\ (streams[a].opening => Okays(a) # {})
  BY DEF Protocol, Knows, Talks
<1>2. a \in Local /\ Used' = Used
  BY <1>1, Indices DEF Used, Talks
<1>3. \A c \in Writers(a) : c = r
  BY <1>1 DEF Protocol, Knows, Writers
<1>4. \A c \in Writers(a)' : c = r
  BY <1>3 DEF Writers, Talks
<1>5. QED
  BY <1>1, <1>2, <1>3, <1>4

LEMMA TalkSound ==
    ASSUME TypeOK, NEW peer \in [Local -> Remote \cup {0}], Protocol(peer),
           NEW r \in Remote, NEW a, NEW p \in Packet, Talks(r, a, p),
           a \in DOMAIN streams => Expected(a)' /\ Gapless(a)' /\ OneOutput(a)'
    PROVE  Protocol(peer)'
<1>1. /\ a \in Local /\ a \in Used /\ peer[a] = r /\ Used' = Used
      /\ \A i \in DOMAIN inq : inq[i].command = "CLSE" => inq[i].to # a
      /\ a \in DOMAIN streams =>
           ~streams[a].closing /\ (streams[a].opening => Okays(a) # {})
  BY TalkFacts
<1>2. PICK n : n = Len(inq) + 1
  OBVIOUS
<1>3. /\ inq' = Append(inq, p) /\ outq' = outq /\ streams' = streams /\ next' = next
      /\ delivered' = delivered
      /\ p.to = a /\ p.from = r /\ p.command \in {"OKAY", "WRTE", "CLSE"}
  BY DEF Talks
<1>4. /\ DOMAIN inq' = DOMAIN inq \cup {n} /\ inq'[n] = p
      /\ \A i \in DOMAIN inq : inq'[i] = inq[i]
      /\ \A i \in DOMAIN inq' : i \in Nat
      /\ \A id : id # a => SameInput(id, 0)
  BY <1>2, <1>3, InputAppended
<1>5. a # 0 /\ r # 0
  BY <1>1, ConstantTypes DEF Local
<1>6. Received(peer)'
  <2>1. \A c \in Remote : client'[c].state = "idle" => client[c].state = "idle"
    BY DEF Talks
  <2>2. Received(peer)
    BY DEF Protocol
  <2>3. \A i \in DOMAIN inq :
            /\ inq[i].command = "OPEN" => \A id \in Local : peer[id] # inq[i].from
            /\ inq[i].command = "CLSE" => inq[i].to # p.to
            /\ inq[i].command = "OPEN" /\ p.command = "OPEN" => inq[i].from # p.from
    BY <1>1, <1>3, <2>2 DEF Received
  <2>4. p.command # "OPEN" /\ p.to \in Used /\ p.from = peer[p.to] /\ p.from # 0
    BY <1>1, <1>3, <1>5
  <2>5. QED
    BY <1>3, <2>1, <2>2, <2>3, <2>4, ReceivedMore
<1>7. \A i \in DOMAIN outq' : i \in Nat /\ i + 0 \in DOMAIN outq /\ outq'[i] = outq[i + 0]
  BY <1>3, Indices
<1>8. Sent(peer)'
  <2>1. ASSUME NEW i \in DOMAIN outq', NEW j \in DOMAIN inq', outq'[i].command = "OPEN"
        PROVE  inq'[j].to # outq'[i].from
    <3>1. peer[outq[i].from] = 0 /\ \A k \in DOMAIN inq : inq[k].to # outq[i].from
      BY <1>3, <2>1 DEF Protocol, Sent
    <3>2. a # outq[i].from
      BY <1>1, <1>5, <3>1
    <3>3. QED
      BY <1>3, <1>4, <3>1, <3>2
  <2>2. Sent(peer)
    BY DEF Protocol
  <2>3. QED
    BY <1>3, <1>7, <2>1, <2>2, SentLess
<1>9. Names(peer)'
  BY <1>1, <1>3 DEF Protocol, Names
<1>10. a \in DOMAIN streams => At(peer, a)'
  BY <1>1, <1>3 DEF At, Protocol, Named, Numbered, Written
<1>11. Knows(peer, r)'
  <2>1. CASE client'[r].state = "closed"
    BY <2>1 DEF Knows
  <2>2. CASE client'[r].state = "open"
    <3>1. client'[r].local = a
      BY <2>2 DEF Talks
    <3>2. p.command # "CLSE" => \A i \in DOMAIN inq' : inq'[i].command = "CLSE" => inq'[i].to # a
      BY <1>1, <1>4
    <3>3. a \in DOMAIN streams => Okays(a) \subseteq Okays(a)'
      BY <1>4 DEF Okays
    <3>4. CASE p.command # "CLSE"
      BY <1>1, <1>3, <2>2, <3>1, <3>2, <3>3, <3>4 DEF Knows
    <3>5. QED
      BY <2>2, <3>4 DEF Talks
  <2>3. QED
    BY <2>1, <2>2 DEF Talks
<1>12. \A id \in Local : id # a => peer[id] = peer[id] /\ SameInput(id, 0) /\ SameWriters(id)
  BY <1>4 DEF SameWriters, Writers, Talks
<1>13. \A c \in Remote : c # r =>
         /\ client'[c] = client[c]
         /\ \A id \in Local : (peer[id] = c <=> peer[id] = c) /\ (peer[id] = c => id # a)
  BY <1>1 DEF Talks
<1>14. QED
  BY <1>3, <1>4, <1>6, <1>7, <1>8, <1>9, <1>10, <1>11, <1>12, <1>13, ClientFrame

\* What a packet does to what its stream expects.
LEMMA TalkExpected ==
    ASSUME TypeOK, NEW peer \in [Local -> Remote \cup {0}], Protocol(peer),
           NEW r \in Remote, NEW a \in DOMAIN streams, NEW p \in Packet, Talks(r, a, p),
           p.command = "OKAY" => Unacked(a)
    PROVE  Expected(a)'
<1>1. ~streams[a].closing /\ (streams[a].opening => Okays(a) # {})
  BY TalkFacts
<1>2. PICK n : n = Len(inq) + 1
  OBVIOUS
<1>3. streams' = streams /\ inq' = Append(inq, p) /\ p.to = a
  BY DEF Talks
<1>4. /\ DOMAIN inq' = DOMAIN inq \cup {n} /\ inq'[n] = p
      /\ \A i \in DOMAIN inq : inq'[i] = inq[i] /\ i < n
  BY <1>2, <1>3, InputAppended
<1>5. Okays(a) \subseteq Okays(a)'
  BY <1>4 DEF Okays
<1>6. Expected(a)
  BY DEF Protocol, At
<1>7. \A i, j \in Okays(a)' : i = j
  <2>1. CASE p.command = "OKAY"
    <3>1. Okays(a) = {}
      BY <2>1 DEF Unacked
    <3>2. Okays(a)' \subseteq {n}
      BY <1>4, <3>1 DEF Okays
    <3>3. QED
      BY <3>2
  <2>2. CASE p.command # "OKAY"
    <3>1. Okays(a)' \subseteq Okays(a)
      BY <1>4, <2>2 DEF Okays
    <3>2. QED
      BY <1>6, <3>1 DEF Expected
  <2>3. QED
    BY <2>1, <2>2
<1>8. ASSUME NEW i \in DOMAIN inq', inq'[i].to = a
      PROVE  /\ ~streams[a].closing
             /\ IF inq'[i].command = "OKAY"
                THEN streams[a].opening \/ streams[a].waiting
                ELSE streams[a].opening => inq'[i].from = 0 \/ \E j \in Okays(a)' : j < i
  <2>1. CASE i \in DOMAIN inq
    BY <1>4, <1>5, <1>6, <1>8, <2>1 DEF Expected
  <2>2. CASE i = n /\ p.command = "OKAY"
    BY <1>1, <1>4, <2>2 DEF Unacked
  <2>3. CASE i = n /\ p.command # "OKAY"
    <3>1. \A j \in Okays(a) : j \in Okays(a)' /\ j < n
      BY <1>4, <1>5 DEF Okays
    <3>2. QED
      BY <1>1, <1>4, <2>3, <3>1
  <2>4. QED
    BY <1>4, <2>1, <2>2, <2>3
<1>9. QED
  BY <1>3, <1>7, <1>8 DEF Expected

\* No more data, nothing more written.
LEMMA TalkGapless ==
    ASSUME TypeOK, NEW peer \in [Local -> Remote \cup {0}], Protocol(peer),
           NEW r \in Remote, NEW a \in DOMAIN streams, NEW p \in Packet, Talks(r, a, p),
           ~Data(p, a), client'[r].state = "open" => client'[r].wrote = client[r].wrote
    PROVE  Gapless(a)'
<1>1. PICK n : n = Len(inq) + 1
  OBVIOUS
<1>2. streams' = streams /\ delivered' = delivered /\ inq' = Append(inq, p)
  BY DEF Talks
<1>3. /\ DOMAIN inq' = DOMAIN inq \cup {n} /\ inq'[n] = p
      /\ \A i \in DOMAIN inq : inq'[i] = inq[i]
      /\ n \notin DOMAIN inq
  BY <1>1, <1>2, InputAppended
<1>4. PICK w : w = Writes(a)
  OBVIOUS
<1>5. Writes(a)' = w /\ \A i \in w : inq'[i] = inq[i]
  BY <1>3, <1>4 DEF Writes
<1>6. Accepted(a)' = Accepted(a)
  BY <1>2 DEF Accepted, Written
<1>7. \A c \in Writers(a)' : c \in Writers(a) /\ client'[c].wrote = client[c].wrote
  BY DEF Writers, Talks
<1>8. Gapless(a)
  BY DEF Protocol, At
<1>9. QED
  BY <1>4, <1>5, <1>6, <1>7, <1>8 DEF Gapless

\* The next data.
LEMMA TalkData ==
    ASSUME TypeOK, NEW peer \in [Local -> Remote \cup {0}], Protocol(peer),
           NEW r \in Remote, NEW a \in DOMAIN streams, NEW p \in Packet, Talks(r, a, p),
           Data(p, a), p.data = client[r].wrote + 1, client'[r].wrote = client[r].wrote + 1
    PROVE  Gapless(a)'
<1>1. PICK n : n = Len(inq) + 1
  OBVIOUS
<1>2. streams' = streams /\ delivered' = delivered /\ inq' = Append(inq, p)
  BY DEF Talks
<1>3. /\ DOMAIN inq' = DOMAIN inq \cup {n} /\ inq'[n] = p /\ n \in Nat
      /\ \A i \in DOMAIN inq : inq'[i] = inq[i] /\ i < n /\ i \in Nat
      /\ n \notin DOMAIN inq
  BY <1>1, <1>2, InputAppended
<1>4. PICK w : w = Writes(a)
  OBVIOUS
<1>5. /\ Writes(a)' = w \cup {n} /\ inq'[n].data = client[r].wrote + 1
      /\ \A i \in w : inq'[i] = inq[i] /\ i < n /\ i \in Nat
  BY <1>3, <1>4 DEF Writes
<1>6. PICK x \in Nat : x = client[r].wrote
  BY DEF TypeOK
<1>7. PICK y : y = Accepted(a)
  OBVIOUS
<1>8. y \in Nat
  <2>1. Len(delivered[a]) \in Nat /\ Len(streams[a].pending) \in Nat
    BY LenProperties DEF TypeOK, Stream
  <2>2. PICK h \in Nat : h = Len(delivered[a])
    BY <2>1
  <2>3. h \div 2 \in Nat
    OBVIOUS
  <2>4. PICK m \in Nat : m = Len(streams[a].pending)
    BY <2>1
  <2>5. y = h \div 2 + m
    BY <1>7, <2>2, <2>4 DEF Accepted, Written
  <2>6. QED
    BY <2>3, <2>5
<1>9. r \in Writers(a) /\ Gapless(a)
  BY DEF Writers, Talks, Protocol, At
<1>10. /\ y <= x
       /\ \A i \in w : /\ inq[i].data <= x /\ inq[i].data > y
                       /\ \A j \in w : i < j => inq[i].data < inq[j].data
                       /\ \A k \in (y + 1)..(inq[i].data - 1) : \E j \in w : j < i /\ inq[j].data = k
       /\ \A k \in (y + 1)..x : \E j \in w : inq[j].data = k
  BY <1>4, <1>6, <1>7, <1>9 DEF Gapless
<1>11. \A i \in w : inq[i].data \in Nat
  <2>1. \A i \in DOMAIN inq : inq[i] \in Packet
    BY DEF TypeOK
  <2>2. QED
    BY <1>4, <2>1, PacketFields DEF Writes, Data
<1>12. ASSUME NEW i \in w \cup {n}
       PROVE  /\ inq'[i].data > y
              /\ inq'[i].data <= x + 1
              /\ \A j \in w \cup {n} : i < j => inq'[i].data < inq'[j].data
              /\ \A k \in (y + 1)..(inq'[i].data - 1) :
                    \E j \in w \cup {n} : j < i /\ inq'[j].data = k
  <2>1. CASE i \in w
    <3>1. inq'[i] = inq[i] /\ i \in Nat /\ inq[i].data \in Nat
      BY <1>5, <1>11, <2>1
    <3>2. inq'[i].data > y /\ inq'[i].data <= x /\ inq'[i].data < x + 1
      BY <1>10, <2>1, <3>1
    <3>3. ASSUME NEW j \in w \cup {n}, i < j PROVE inq'[i].data < inq'[j].data
      <4>1. CASE j \in w
        BY <1>5, <1>10, <2>1, <3>3, <4>1
      <4>2. CASE j = n
        BY <1>5, <1>6, <3>2, <4>2
      <4>3. QED
        BY <4>1, <4>2
    <3>4. \A k \in (y + 1)..(inq'[i].data - 1) : \E j \in w : j < i /\ inq'[j].data = k
      BY <1>5, <1>10, <2>1, <3>1
    <3>5. inq'[i].data <= x + 1
      BY <3>1, <3>2
    <3>6. QED
      BY <3>2, <3>3, <3>4, <3>5
  <2>2. CASE i = n
    <3>1. inq'[i].data = x + 1
      BY <1>5, <1>6, <2>2
    <3>2. x + 1 > y /\ x + 1 <= x + 1 /\ x + 1 - 1 = x
      BY <1>8, <1>10
    <3>3. \A j \in w \cup {n} : ~(i < j)
      BY <1>3, <1>5, <2>2
    <3>4. \A k \in (y + 1)..x : \E j \in w : j < i /\ inq'[j].data = k
      BY <1>5, <1>10, <2>2
    <3>5. QED
      BY <3>1, <3>2, <3>3, <3>4
  <2>3. QED
    BY <2>1, <2>2
<1>13. ASSUME NEW c \in Writers(a)'
       PROVE  /\ y <= client'[c].wrote
              /\ \A i \in w \cup {n} : inq'[i].data <= client'[c].wrote
              /\ \A k \in (y + 1)..client'[c].wrote : \E j \in w \cup {n} : inq'[j].data = k
  <2>1. c = r
    BY TalkFacts
  <2>2. client'[c].wrote = x + 1
    BY <1>6, <2>1
  <2>3. y <= x + 1
    BY <1>8, <1>10
  <2>4. ASSUME NEW k \in (y + 1)..(x + 1) PROVE \E j \in w \cup {n} : inq'[j].data = k
    <3>1. CASE k = x + 1
      BY <1>5, <1>6, <3>1
    <3>2. CASE k # x + 1
      <4>1. k \in (y + 1)..x
        BY <1>8, <2>4, <3>2
      <4>2. QED
        BY <1>5, <1>10, <4>1
    <3>3. QED
      BY <3>1, <3>2
  <2>5. QED
    BY <1>12, <2>2, <2>3, <2>4
<1>14. Accepted(a)' = y
  BY <1>2, <1>7 DEF Accepted, Written
<1>15. QED
  BY <1>5, <1>12, <1>13, <1>14 DEF Gapless

\* The outputs, when the client acknowledges them as it must.
LEMMA TalkOutput ==
    ASSUME TypeOK, NEW peer \in [Local -> Remote \cup {0}], Protocol(peer),
           NEW r \in Remote, NEW a \in DOMAIN streams, NEW p \in Packet, Talks(r, a, p),
           p.command = "OKAY" => client[r].owes /\ ~client'[r].owes,
           client'[r].state = "open" /\ client'[r].owes => client[r].owes
    PROVE  OneOutput(a)'
<1>1. streams' = streams /\ outq' = outq /\ inq' = Append(inq, p)
  BY DEF Talks
<1>2. PICK n : n = Len(inq) + 1
  OBVIOUS
<1>3. DOMAIN inq' = DOMAIN inq \cup {n} /\ inq'[n] = p /\ \A i \in DOMAIN inq : inq'[i] = inq[i]
  BY <1>1, <1>2, InputAppended
<1>4. OneOutput(a)
  BY DEF Protocol, At
<1>5. CASE p.command = "OKAY"
  <2>1. r \in Writers(a) /\ client[r].owes
    BY <1>5 DEF Writers, Talks
  <2>2. \A i \in DOMAIN outq' : outq'[i].command = "WRTE" => outq'[i].from # a
    BY <1>1, <1>4, <2>1 DEF OneOutput
  <2>3. \A c \in Writers(a)' : ~client'[c].owes
    BY <1>5, TalkFacts
  <2>4. QED
    BY <2>2, <2>3 DEF OneOutput
<1>6. CASE p.command # "OKAY"
  <2>1. Okays(a) = {} => Okays(a)' = {}
    BY <1>3, <1>6 DEF Okays
  <2>2. Unacked(a) => Unacked(a)'
    BY <1>1, <2>1 DEF Unacked
  <2>3. \A c \in Writers(a)' : client'[c].owes => c \in Writers(a) /\ client[c].owes
    BY DEF Writers, Talks
  <2>4. QED
    BY <1>1, <1>4, <2>2, <2>3 DEF OneOutput
<1>7. QED
  BY <1>5, <1>6

\* ClientWrites, ClientAcknowledges and ClientCloses send the packets of an open stream.
LEMMA ClientTalks ==
    ASSUME TypeOK, Sound, NEW r \in Remote,
           ClientWrites(r) \/ ClientAcknowledges(r) \/ ClientCloses(r)
    PROVE  Sound'
<1>1. PICK peer \in [Local -> Remote \cup {0}] : Protocol(peer)
  BY DEF Sound, ClientWrites, ClientAcknowledges, ClientCloses, ClientSends
<1>2. client[r].state = "open"
  BY DEF ClientWrites, ClientAcknowledges, ClientCloses
<1>3. PICK a : a = client[r].local
  OBVIOUS
<1>4. a \in Used /\ a \in Nat /\ r \in Nat
  <2>1. a \in Used
    BY <1>1, <1>2, <1>3 DEF Protocol, Knows
  <2>2. a \in Nat
    BY <2>1, Indices, ConstantTypes DEF Local
  <2>3. r \in Nat
    BY ConstantTypes
  <2>4. QED
    BY <2>1, <2>2, <2>3
<1>5. client[r] \in [state : {"idle", "opening", "open", "closed"},
                     local : Nat, wrote : Nat, blocked : BOOLEAN, owes : BOOLEAN]
      /\ DOMAIN client = Remote
  BY DEF TypeOK
<1>6. ASSUME NEW p \in Packet, NEW c, ClientSends(r, p, c), p.to = a, p.from = r,
             p.command \in {"OKAY", "WRTE", "CLSE"}, c.state \in {"open", "closed"},
             c.state = "open" => c.local = a /\ p.command # "CLSE"
      PROVE  Talks(r, a, p) /\ client'[r] = c
  <2>1. /\ streams' = streams /\ next' = next /\ delivered' = delivered /\ outq' = outq
        /\ inq' = Append(inq, p) /\ client' = [client EXCEPT ![r] = c]
    BY <1>6 DEF ClientSends
  <2>2. /\ client'[r] = c /\ DOMAIN client' = Remote
        /\ \A d \in Remote : d # r => client'[d] = client[d]
    BY <1>5, <2>1
  <2>3. QED
    BY <1>2, <1>3, <1>6, <2>1, <2>2 DEF Talks
<1>7. ASSUME ClientWrites(r) PROVE Protocol(peer)'
  <2>1. PICK w \in Nat : w = client[r].wrote
    BY <1>5
  <2>2. CASE ClientSends(r, Write(r, a, w + 1),
                         [client[r] EXCEPT !.wrote = w + 1, !.blocked = TRUE])
    <3>1. PICK p \in Packet : p = Write(r, a, w + 1)
      BY <1>4, PacketKinds
    <3>2. p.command = "WRTE" /\ p.to = a /\ p.from = r /\ p.data = w + 1
      BY <3>1 DEF Write
    <3>3. PICK c : c = [client[r] EXCEPT !.wrote = w + 1, !.blocked = TRUE]
      OBVIOUS
    <3>4. c.state = "open" /\ c.local = a /\ c.wrote = w + 1 /\ c.owes = client[r].owes
      BY <1>2, <1>3, <1>5, <3>3
    <3>5. Talks(r, a, p) /\ client'[r] = c
      BY <1>6, <2>2, <3>1, <3>2, <3>3, <3>4
    <3>6. Data(p, a)
      BY <3>2 DEF Data
    <3>7. a \in DOMAIN streams => Expected(a)' /\ Gapless(a)' /\ OneOutput(a)'
      BY <1>1, <2>1, <3>2, <3>4, <3>5, <3>6, TalkExpected, TalkData, TalkOutput
    <3>8. QED
      BY <1>1, <3>5, <3>7, TalkSound
  <2>3. CASE ClientSends(r, Write(r, a, 0), [client[r] EXCEPT !.blocked = TRUE])
    <3>1. PICK p \in Packet : p = Write(r, a, 0)
      BY <1>4, PacketKinds
    <3>2. p.command = "WRTE" /\ p.to = a /\ p.from = r /\ p.data = 0
      BY <3>1 DEF Write
    <3>3. PICK c : c = [client[r] EXCEPT !.blocked = TRUE]
      OBVIOUS
    <3>4. c.state = "open" /\ c.local = a /\ c.wrote = client[r].wrote /\ c.owes = client[r].owes
      BY <1>2, <1>3, <1>5, <3>3
    <3>5. Talks(r, a, p) /\ client'[r] = c
      BY <1>6, <2>3, <3>1, <3>2, <3>3, <3>4
    <3>6. ~Data(p, a)
      BY <3>2 DEF Data
    <3>7. a \in DOMAIN streams => Expected(a)' /\ Gapless(a)' /\ OneOutput(a)'
      BY <1>1, <3>2, <3>4, <3>5, <3>6, TalkExpected, TalkGapless, TalkOutput
    <3>8. QED
      BY <1>1, <3>5, <3>7, TalkSound
  <2>4. QED
    BY <1>3, <1>7, <2>1, <2>2, <2>3 DEF ClientWrites
<1>8. ASSUME ClientAcknowledges(r) PROVE Protocol(peer)'
  <2>1. PICK p \in Packet : p = Okay(r, a)
    BY <1>4, PacketKinds
  <2>2. p.command = "OKAY" /\ p.to = a /\ p.from = r
    BY <2>1 DEF Okay
  <2>3. PICK c : c = [client[r] EXCEPT !.owes = FALSE]
    OBVIOUS
  <2>4. c.state = "open" /\ c.local = a /\ c.wrote = client[r].wrote /\ ~c.owes
    BY <1>2, <1>3, <1>5, <2>3
  <2>5. ClientSends(r, p, c) /\ client[r].owes
    BY <1>3, <1>8, <2>1, <2>3 DEF ClientAcknowledges
  <2>6. Talks(r, a, p) /\ client'[r] = c
    BY <1>6, <2>2, <2>4, <2>5
  <2>7. ~Data(p, a)
    BY <2>2 DEF Data
  <2>8. a \in DOMAIN streams => Unacked(a)
    BY <1>1, <1>2, <1>3, <2>5 DEF Protocol, At, OneOutput, Writers
  <2>9. a \in DOMAIN streams => Expected(a)' /\ Gapless(a)' /\ OneOutput(a)'
    BY <1>1, <2>2, <2>4, <2>5, <2>6, <2>7, <2>8, TalkExpected, TalkGapless, TalkOutput
  <2>10. QED
    BY <1>1, <2>6, <2>9, TalkSound
<1>9. ASSUME ClientCloses(r) PROVE Protocol(peer)'
  <2>1. PICK p \in Packet : p = Close(r, a)
    BY <1>4, PacketKinds
  <2>2. p.command = "CLSE" /\ p.to = a /\ p.from = r
    BY <2>1 DEF Close
  <2>3. Closed.state = "closed"
    BY DEF Closed, Idle
  <2>4. ClientSends(r, p, Closed)
    BY <1>3, <1>9, <2>1 DEF ClientCloses
  <2>5. Talks(r, a, p) /\ client'[r] = Closed
    BY <1>6, <2>2, <2>3, <2>4
  <2>6. ~Data(p, a)
    BY <2>2 DEF Data
  <2>7. a \in DOMAIN streams => Expected(a)' /\ Gapless(a)' /\ OneOutput(a)'
    BY <1>1, <2>2, <2>3, <2>5, <2>6, TalkExpected, TalkGapless, TalkOutput
  <2>8. QED
    BY <1>1, <2>5, <2>7, TalkSound
<1>10. QED
  BY <1>7, <1>8, <1>9, <1>1 DEF Sound

\* ClientOpens: an id that no stream has.
LEMMA ClientOpensSound ==
    ASSUME TypeOK, Sound, NEW r \in Remote, ClientOpens(r)
    PROVE  Sound'
<1>1. PICK peer \in [Local -> Remote \cup {0}] : Protocol(peer)
  BY DEF Sound, ClientOpens, ClientSends
<1>2. r \in Nat /\ r # 0 /\ 0 \notin Local
  BY ConstantTypes DEF Local
<1>3. PICK p \in Packet : p = Open(r)
  BY <1>2, PacketKinds
<1>4. p.command = "OPEN" /\ p.from = r /\ p.to = 0
  BY <1>3 DEF Open
<1>5. /\ streams' = streams /\ next' = next /\ delivered' = delivered /\ outq' = outq
      /\ inq' = Append(inq, p)
      /\ client' = [client EXCEPT ![r] = [client[r] EXCEPT !.state = "opening"]]
      /\ client[r].state = "idle"
  BY <1>3 DEF ClientOpens, ClientSends, NextRemote
<1>6. client[r] = Idle /\ \A id \in Local : peer[id] # r
  BY <1>1, <1>5 DEF Protocol, Knows
<1>7. /\ client'[r] = [Idle EXCEPT !.state = "opening"]
      /\ \A c \in Remote : c # r => client'[c] = client[c]
  BY <1>5, <1>6 DEF TypeOK
<1>8. client'[r].state = "opening"
  BY <1>7 DEF Idle
<1>9. /\ \A i \in DOMAIN inq' : i \in Nat
      /\ \A id : id # 0 => SameInput(id, 0)
      /\ \A i \in DOMAIN inq' : (i \in DOMAIN inq /\ inq'[i] = inq[i]) \/ inq'[i] = p
  BY <1>4, <1>5, InputAppended
<1>10. Received(peer)'
  <2>1. Received(peer)
    BY <1>1 DEF Protocol
  <2>2. \A i \in DOMAIN inq :
            /\ inq[i].command = "OPEN" => \A id \in Local : peer[id] # inq[i].from
            /\ inq[i].command = "CLSE" => inq[i].to # p.to
            /\ inq[i].command = "OPEN" /\ p.command = "OPEN" => inq[i].from # p.from
    BY <1>2, <1>4, <1>5, <2>1 DEF Received, Used
  <2>3. /\ p.from \in Remote /\ p.to = 0
        /\ client'[p.from].state # "idle"
        /\ \A id \in Local : peer[id] # p.from
    BY <1>4, <1>6, <1>8
  <2>4. \A c \in Remote : client'[c].state = "idle" => client[c].state = "idle"
    BY <1>7, <1>8
  <2>5. QED
    BY <1>4, <1>5, <2>1, <2>2, <2>3, <2>4, ReceivedMore
<1>11. \A i \in DOMAIN outq' : i \in Nat /\ i + 0 \in DOMAIN outq /\ outq'[i] = outq[i + 0]
  BY <1>5, Indices
<1>12. Sent(peer)'
  <2>1. ASSUME NEW i \in DOMAIN outq', NEW j \in DOMAIN inq', outq'[i].command = "OPEN"
        PROVE  inq'[j].to # outq'[i].from
    <3>1. outq[i].from # 0 /\ \A k \in DOMAIN inq : inq[k].to # outq[i].from
      BY <1>1, <1>2, <1>5, <2>1 DEF Protocol, Sent, Used
    <3>2. QED
      BY <1>4, <1>5, <1>9, <3>1
  <2>2. Sent(peer)
    BY <1>1 DEF Protocol
  <2>3. QED
    BY <1>5, <1>11, <2>1, <2>2, SentLess
<1>13. Names(peer)'
  BY <1>1, <1>5 DEF Protocol, Names, Used
<1>14. Knows(peer, r)'
  BY <1>6, <1>7, <1>8 DEF Knows
<1>15. \A id \in Local : id # 0 => peer[id] = peer[id] /\ SameInput(id, 0) /\ SameWriters(id)
  <2>1. \A id \in Local : SameWriters(id)
    BY <1>7, <1>8 DEF SameWriters, Writers
  <2>2. QED
    BY <1>9, <2>1
<1>16. \A c \in Remote : c # r =>
         /\ client'[c] = client[c]
         /\ \A id \in Local : (peer[id] = c <=> peer[id] = c) /\ (peer[id] = c => id # 0)
  BY <1>2, <1>7
<1>17. 0 \notin DOMAIN streams
  BY <1>2 DEF TypeOK
<1>18. Protocol(peer)'
  BY <1>1, <1>5, <1>9, <1>10, <1>11, <1>12, <1>13, <1>14, <1>15, <1>16, <1>17, ClientFrame
<1>19. QED
  BY <1>18 DEF Sound

\* What the client takes from the output.
LEMMA OutputTaken ==
    ASSUME TypeOK, outq # <<>>, outq' = Tail(outq)
    PROVE  /\ outq' \in Seq(Packet) /\ Head(outq) \in Packet
           /\ 1 \in DOMAIN outq /\ outq[1] = Head(outq)
           /\ \A i \in DOMAIN outq' :
                i \in Nat /\ i >= 1 /\ i + 1 \in DOMAIN outq /\ outq'[i] = outq[i + 1]
<1>1. outq \in Seq(Packet) /\ Len(outq) \in Nat /\ DOMAIN outq = 1..Len(outq)
  BY LenProperties DEF TypeOK
<1>2. Len(outq) # 0
  BY <1>1, EmptySeq
<1>3. /\ Head(outq) \in Packet /\ outq' \in Seq(Packet)
      /\ Len(outq') = Len(outq) - 1
      /\ \A i \in 1..Len(outq') : outq'[i] = outq[i + 1]
  BY <1>1, HeadTailProperties
<1>4. DOMAIN outq' = 1..(Len(outq) - 1)
  BY <1>3, LenProperties
<1>5. Head(outq) = outq[1]
  BY <1>1, <1>2
<1>6. QED
  BY <1>1, <1>2, <1>3, <1>4, <1>5

\* ClientIgnores changes nothing but the output.
LEMMA ClientIgnoresSound ==
    ASSUME TypeOK, Sound, ClientIgnores
    PROVE  Sound'
<1>1. PICK peer \in [Local -> Remote \cup {0}] : Protocol(peer)
  BY DEF Sound, ClientIgnores
<1>2. /\ streams' = streams /\ next' = next /\ delivered' = delivered /\ inq' = inq
      /\ client' = client /\ outq # <<>> /\ outq' = Tail(outq)
  BY DEF ClientIgnores
<1>3. \A i \in DOMAIN outq' : i \in Nat /\ i + 1 \in DOMAIN outq /\ outq'[i] = outq[i + 1]
  BY <1>2, OutputTaken
<1>4. 0 \notin Local /\ 0 \notin Remote /\ 0 \notin DOMAIN streams
  BY ConstantTypes DEF Local, TypeOK
<1>5. Names(peer)' /\ Received(peer)'
  BY <1>1, <1>2 DEF Protocol, Names, Received, Used
<1>6. Sent(peer)'
  BY <1>1, <1>2, <1>3, SentLess DEF Protocol, Sent
<1>7. \A i \in DOMAIN inq : i \in Nat
  BY Indices
<1>8. \A id \in Local : SameInput(id, 0) /\ SameWriters(id)
  BY <1>2, <1>7, AllSameInput DEF SameWriters, Writers
<1>9. \A c \in Remote : client'[c] = client[c] /\ \A id \in Local : peer[id] = c => id # 0
  BY <1>2, <1>4
<1>10. Protocol(peer)'
  BY <1>1, <1>2, <1>3, <1>4, <1>5, <1>6, <1>7, <1>8, <1>9, ClientFrame
<1>11. QED
  BY <1>10 DEF Sound

\* ClientReceives: what the client learns is about the stream that is its own.
LEMMA ClientReceivesSound ==
    ASSUME TypeOK, Sound, ClientReceives
    PROVE  Sound'
<1>1. PICK peer \in [Local -> Remote \cup {0}] : Protocol(peer)
  BY DEF Sound, ClientReceives
<1>2. PICK h \in Packet : h = Head(outq)
  BY OutputTaken DEF ClientReceives
<1>3. PICK r \in Remote : r = h.to
  BY <1>2 DEF ClientReceives
<1>4. /\ streams' = streams /\ next' = next /\ delivered' = delivered /\ inq' = inq
      /\ outq # <<>> /\ outq' = Tail(outq)
      /\ client' = [client EXCEPT ![r] = Told(client[r], h)]
  BY <1>2, <1>3 DEF ClientReceives
<1>5. /\ \A i \in DOMAIN outq' : i \in Nat /\ i >= 1 /\ i + 1 \in DOMAIN outq /\ outq'[i] = outq[i + 1]
      /\ 1 \in DOMAIN outq /\ outq[1] = h
  BY <1>2, <1>4, OutputTaken
<1>6. /\ client'[r] = Told(client[r], h)
      /\ \A c \in Remote : c # r => client'[c] = client[c]
      /\ client[r] \in [state : {"idle", "opening", "open", "closed"},
                        local : Nat, wrote : Nat, blocked : BOOLEAN, owes : BOOLEAN]
  BY <1>4 DEF TypeOK
<1>7. r # 0 /\ 0 \notin Local /\ 0 \notin DOMAIN streams
  BY ConstantTypes DEF Local, TypeOK
<1>8. h.command \in {"OKAY", "WRTE", "CLSE"}
  BY <1>1, <1>3, <1>5, <1>7, PacketFields DEF Protocol, Sent
<1>9. h.command # "CLSE" => h.from \in Used /\ peer[h.from] = r
  BY <1>1, <1>3, <1>5, <1>8 DEF Protocol, Sent
<1>10. Knows(peer, r) /\ Used \subseteq Local /\ Used' = Used
  BY <1>1, <1>4, Indices DEF Protocol, Used
<1>11. client[r].state = "open" /\ h.command # "CLSE" => client[r].local = h.from
  BY <1>1, <1>7, <1>9, <1>10 DEF Knows, Protocol, Names
<1>12. client'[r].state = "idle" => client[r].state = "idle"
  BY <1>6, <1>8 DEF Told, Closed, Idle
<1>13. Names(peer)'
  BY <1>1, <1>4 DEF Protocol, Names, Used
<1>14. Received(peer)'
  <2>1. \A c \in Remote : client'[c].state = "idle" => client[c].state = "idle"
    BY <1>6, <1>12
  <2>2. QED
    BY <1>1, <1>4, <1>10, <2>1 DEF Protocol, Received
<1>15. Sent(peer)'
  <2>1. \A i \in DOMAIN outq' : i \in Nat /\ i + 1 \in DOMAIN outq /\ outq'[i] = outq[i + 1]
    BY <1>5
  <2>2. \A i \in DOMAIN outq', j \in DOMAIN inq' : outq'[i].command = "OPEN" =>
            inq'[j].to # outq'[i].from
    BY <1>1, <1>4, <1>5 DEF Protocol, Sent
  <2>3. QED
    BY <1>1, <1>4, <2>1, <2>2, SentLess DEF Protocol
<1>16. \A i \in DOMAIN inq : i \in Nat
  BY Indices
<1>17. \A id \in Local : SameInput(id, 0)
  BY <1>4, <1>16, AllSameInput
<1>18. PICK a : a = IF h.command = "CLSE" THEN 0 ELSE h.from
  OBVIOUS
<1>19. \A id \in Local : peer[id] = r => id = a \/ h.command = "CLSE"
  BY <1>1, <1>7, <1>9, <1>10, <1>18 DEF Protocol, Names
<1>20. \A id \in Local : id # a => SameWriters(id)
  <2>1. ASSUME NEW id \in Local, id # a, client'[r].state = "open", client'[r].local = id
        PROVE  FALSE
    <3>1. h.command # "CLSE"
      BY <1>6, <2>1 DEF Told, Closed, Idle
    <3>2. client'[r].local = h.from
      BY <1>6, <1>8, <1>11, <2>1, <3>1 DEF Told
    <3>3. QED
      BY <1>18, <2>1, <3>1, <3>2
  <2>2. QED
    BY <1>6, <2>1 DEF SameWriters, Writers
<1>21. Knows(peer, r)'
  <2>1. CASE h.command = "CLSE"
    <3>1. client'[r].state = "closed"
      BY <1>6, <2>1 DEF Told, Closed, Idle
    <3>2. QED
      BY <3>1 DEF Knows
  <2>2. CASE h.command = "OKAY" /\ client[r].state = "opening"
    <3>1. client'[r].state = "open" /\ client'[r].local = h.from
      BY <1>6, <2>2 DEF Told
    <3>2. /\ \A i \in DOMAIN inq : inq[i].to # h.from
          /\ h.from \in DOMAIN streams => ~streams[h.from].opening /\ ~streams[h.from].closing
      BY <1>9, <1>10, <2>2 DEF Knows
    <3>3. QED
      BY <1>4, <1>9, <1>10, <2>2, <3>1, <3>2 DEF Knows
  <2>3. CASE h.command \in {"OKAY", "WRTE"} /\ client[r].state = "open"
    <3>1. client'[r].state = "open" /\ client'[r].local = client[r].local
      BY <1>6, <2>3 DEF Told
    <3>2. QED
      BY <1>4, <1>10, <2>3, <3>1 DEF Knows, Okays
  <2>4. CASE /\ h.command \in {"OKAY", "WRTE"}
             /\ ~(h.command = "OKAY" /\ client[r].state = "opening")
             /\ client[r].state # "open"
    <3>1. client'[r] = client[r]
      BY <1>6, <2>4 DEF Told
    <3>2. \A i \in DOMAIN inq' : i \in Nat
      BY <1>4, <1>16
    <3>3. QED
      BY <1>4, <1>10, <1>16, <1>17, <3>1, <3>2, SameKnows
  <2>5. QED
    BY <1>8, <2>1, <2>2, <2>3, <2>4
<1>22. ASSUME a \in DOMAIN streams PROVE At(peer, a)'
  <2>1. /\ a \in Local /\ At(peer, a) /\ a = h.from /\ h.command # "CLSE"
        /\ a \in Used /\ peer[a] = r
    BY <1>1, <1>7, <1>9, <1>18, <1>22 DEF Protocol, TypeOK
  <2>2. Named(peer, a)' /\ Numbered(a)' /\ Accepted(a)' = Accepted(a)
    BY <1>4, <1>10, <2>1 DEF At, Named, Numbered, Accepted, Written
  <2>3. Expected(a)'
    BY <1>4, <2>1 DEF At, Expected, Okays
  <2>4. Writes(a)' = Writes(a) /\ Okays(a)' = Okays(a)
    BY <1>4 DEF Writes, Okays
  <2>5. \A c \in Writers(a) : c = r
    BY <1>1, <2>1 DEF Protocol, Knows, Writers
  <2>6. \A c \in Writers(a)' : c = r
    BY <1>6, <2>5 DEF Writers
  <2>7. CASE client[r].state = "opening" /\ h.command = "OKAY"
    <3>1. /\ delivered[a] = <<>> /\ streams[a].pending = <<>>
          /\ \A i \in DOMAIN inq : inq[i].to # a
          /\ client[r] = [Idle EXCEPT !.state = "opening"]
      BY <1>10, <1>22, <2>1, <2>7 DEF Knows
    <3>2. client'[r].wrote = 0 /\ ~client'[r].owes
      BY <1>6, <2>7, <3>1 DEF Told, Idle
    <3>3. Accepted(a)' = 0
      BY <1>4, <3>1 DEF Accepted, Written
    <3>4. Writes(a)' = {}
      BY <1>4, <3>1 DEF Writes, Data
    <3>5. Gapless(a)'
      BY <2>6, <3>2, <3>3, <3>4 DEF Gapless
    <3>6. Unacked(a)' = Unacked(a)
      BY <1>4, <2>4 DEF Unacked
    <3>7. OneOutput(a)
      BY <2>1 DEF At
    <3>8. SameOutput(a, 1) /\ \A i \in DOMAIN outq' : i \in Nat
      BY <1>5 DEF SameOutput
    <3>9. ASSUME NEW i \in DOMAIN outq', outq'[i].command = "WRTE", outq'[i].from = a
          PROVE  /\ Unacked(a)'
                 /\ \A j \in DOMAIN outq' : outq'[j].command = "WRTE" /\ outq'[j].from = a => i = j
      <4>1. Unacked(a)'
        BY <3>6, <3>7, <3>8, <3>9 DEF OneOutput, SameOutput
      <4>2. ASSUME NEW j \in DOMAIN outq', outq'[j].command = "WRTE", outq'[j].from = a
            PROVE  i = j
        <5>1. i + 1 = j + 1
          BY <3>7, <3>8, <3>9, <4>2 DEF OneOutput, SameOutput
        <5>2. i \in Nat
          BY <3>8
        <5>3. j \in Nat
          BY <3>8
        <5>4. QED
          BY <5>1, <5>2, <5>3
      <4>3. QED
        BY <4>1, <4>2
    <3>10. \A c \in Writers(a)' : ~client'[c].owes
      BY <2>6, <3>2
    <3>11. OneOutput(a)'
      BY <3>9, <3>10 DEF OneOutput
    <3>12. QED
      BY <2>2, <2>3, <3>5, <3>11 DEF At
  <2>8. CASE ~(client[r].state = "opening" /\ h.command = "OKAY")
    <3>1. /\ client'[r].state = client[r].state
          /\ client'[r].local = client[r].local
          /\ client'[r].wrote = client[r].wrote
          /\ client'[r].owes => client[r].owes \/ (h.command = "WRTE" /\ client[r].state = "open")
      BY <1>6, <1>8, <2>1, <2>8 DEF Told
    <3>2. \A c \in Writers(a)' : c \in Writers(a) /\ client'[c].wrote = client[c].wrote
      BY <1>6, <3>1 DEF Writers
    <3>3. Gapless(a)'
      BY <1>4, <2>1, <2>2, <2>4, <3>2 DEF At, Gapless
    <3>4. CASE ~(h.command = "WRTE" /\ client[r].state = "open")
      <4>1. SameWriters(a)
        BY <1>6, <2>6, <3>1, <3>2, <3>4 DEF SameWriters
      <4>2. SameOutput(a, 1) /\ \A i \in DOMAIN outq' : i \in Nat
        BY <1>5 DEF SameOutput
      <4>3. InputKept(a, 0) /\ \A i \in DOMAIN inq' : i \in Nat
        BY <1>4, <1>16, <1>17, <2>1 DEF SameInput
      <4>4. \A i \in DOMAIN outq : i \in Nat
        BY Indices
      <4>5. OneOutput(a)'
        BY <1>4, <1>16, <2>1, <4>1, <4>2, <4>3, <4>4, SameOneOutput DEF At
      <4>6. QED
        BY <2>2, <2>3, <3>3, <4>5 DEF At
    <3>5. CASE h.command = "WRTE" /\ client[r].state = "open"
      <4>1. Unacked(a) /\ \A j \in DOMAIN outq : outq[j].command = "WRTE" /\ outq[j].from = a => 1 = j
        BY <1>5, <2>1, <3>5 DEF At, OneOutput
      <4>2. Unacked(a)'
        BY <1>4, <2>4, <4>1 DEF Unacked
      <4>3. ASSUME NEW i \in DOMAIN outq' PROVE ~(outq'[i].command = "WRTE" /\ outq'[i].from = a)
        <5>1. i + 1 \in DOMAIN outq /\ outq'[i] = outq[i + 1] /\ i + 1 # 1
          BY <1>5
        <5>2. QED
          BY <4>1, <5>1
      <4>4. OneOutput(a)'
        BY <4>2, <4>3 DEF OneOutput
      <4>5. QED
        BY <2>2, <2>3, <3>3, <4>4 DEF At
    <3>6. QED
      BY <3>4, <3>5
  <2>9. QED
    BY <2>7, <2>8
<1>23. \A c \in Remote : c # r => \A id \in Local : peer[id] = c => id # a
  BY <1>7, <1>9, <1>18
<1>24. Protocol(peer)'
  <2>1. \A i \in DOMAIN outq' : i \in Nat /\ i + 1 \in DOMAIN outq /\ outq'[i] = outq[i + 1]
    BY <1>5
  <2>2. \A i \in DOMAIN inq' : i \in Nat
    BY <1>4, <1>16
  <2>3. QED
    BY <1>1, <1>4, <1>6, <1>13, <1>14, <1>15, <1>17, <1>20, <1>21, <1>22, <1>23,
       <2>1, <2>2, ClientFrame
<1>25. QED
  BY <1>24 DEF Sound

\* ClientAccepts: a stream of ours gets an id that no stream has, or is refused.
LEMMA ClientAcceptsSound ==
    ASSUME TypeOK, Sound, ClientAccepts
    PROVE  Sound'
<1>1. PICK peer \in [Local -> Remote \cup {0}] : Protocol(peer)
  BY DEF Sound, ClientAccepts
<1>2. PICK h \in Packet : h = Head(outq)
  BY OutputTaken DEF ClientAccepts
<1>3. PICK a : a = h.from
  OBVIOUS
<1>4. /\ streams' = streams /\ next' = next /\ delivered' = delivered
      /\ outq # <<>> /\ outq' = Tail(outq) /\ h.command = "OPEN"
  BY <1>2 DEF ClientAccepts
<1>5. /\ \A i \in DOMAIN outq' : i \in Nat /\ i >= 1 /\ i + 1 \in DOMAIN outq /\ outq'[i] = outq[i + 1]
      /\ 1 \in DOMAIN outq /\ outq[1] = h
  BY <1>2, <1>4, OutputTaken
<1>6. /\ a \in Used /\ peer[a] = 0 /\ \A i \in DOMAIN inq : inq[i].to # a
      /\ a \in DOMAIN streams => ~streams[a].closing
  BY <1>1, <1>3, <1>4, <1>5 DEF Protocol, Sent
<1>7. Used \subseteq Local /\ Used' = Used /\ a \in Local /\ a \in Nat /\ a # 0
  BY <1>4, <1>6, Indices, ConstantTypes DEF Used, Local
<1>8. \A i \in DOMAIN outq' : i \in Nat /\ i + 1 \in DOMAIN outq /\ outq'[i] = outq[i + 1]
  BY <1>5
<1>9. \A i \in DOMAIN outq' : outq'[i].command # "CLSE" => outq'[i].from # a
  <2>1. ASSUME NEW i \in DOMAIN outq', outq'[i].command # "CLSE", outq'[i].from = a PROVE FALSE
    <3>1. i + 1 \in DOMAIN outq /\ outq'[i] = outq[i + 1] /\ i + 1 # 1
      BY <1>5
    <3>2. outq[i + 1].command \notin {"OKAY", "WRTE"}
      BY <1>1, <1>6, <2>1, <3>1 DEF Protocol, Sent
    <3>3. outq[i + 1] \in Packet
      BY <3>1 DEF TypeOK
    <3>4. outq[i + 1].command = "OPEN"
      BY <2>1, <3>1, <3>2, <3>3, PacketFields
    <3>5. QED
      BY <1>1, <1>3, <1>4, <1>5, <2>1, <3>1, <3>4 DEF Protocol, Sent
  <2>2. QED
    BY <2>1
<1>10. Writers(a) = {}
  BY <1>1, <1>6, ConstantTypes DEF Protocol, Knows, Writers
<1>11. ASSUME a \in DOMAIN streams
       PROVE  /\ At(peer, a) /\ streams[a].opening /\ streams[a].remote = 0
              /\ streams[a].pending = <<>> /\ delivered[a] = <<>>
  BY <1>1, <1>6, <1>11 DEF Protocol, At, Named
<1>12. ASSUME NEW r \in Remote, NextRemote(r), inq' = Append(inq, Okay(r, a)),
              client' = [client EXCEPT ![r].state = "open", ![r].local = a]
       PROVE  Sound'
  <2>1. r \in Nat /\ r # 0
    BY ConstantTypes
  <2>2. PICK p \in Packet : p = Okay(r, a)
    BY <1>7, <2>1, PacketKinds
  <2>3. p.command = "OKAY" /\ p.from = r /\ p.to = a /\ inq' = Append(inq, p)
    BY <1>12, <2>2 DEF Okay
  <2>4. PICK n : n = Len(inq) + 1
    OBVIOUS
  <2>5. /\ DOMAIN inq' = DOMAIN inq \cup {n} /\ inq'[n] = p
        /\ \A i \in DOMAIN inq : inq'[i] = inq[i]
        /\ \A i \in DOMAIN inq' : i \in Nat
        /\ \A id : id # a => SameInput(id, 0)
    BY <2>3, <2>4, InputAppended
  <2>6. client[r].state = "idle" /\ client[r] = Idle /\ \A id \in Local : peer[id] # r
    BY <1>1, <1>12 DEF NextRemote, Protocol, Knows
  <2>7. /\ client'[r].state = "open" /\ client'[r].local = a
        /\ client'[r].wrote = 0 /\ ~client'[r].owes
        /\ \A c \in Remote : c # r => client'[c] = client[c]
    BY <1>12, <2>6 DEF TypeOK, Idle
  <2>8. PICK q \in [Local -> Remote \cup {0}] :
            \A id \in Local : q[id] = IF id = a THEN r ELSE peer[id]
    <3>1. [id \in Local |-> IF id = a THEN r ELSE peer[id]] \in [Local -> Remote \cup {0}]
      OBVIOUS
    <3>2. QED
      BY <3>1
  <2>9. q[a] = r /\ \A id \in Local : id # a => q[id] = peer[id]
    BY <1>7, <2>8
  <2>10. Names(q)'
    <3>1. \A x, y \in Local : q[x] = q[y] /\ q[x] # 0 => x = y
      BY <1>1, <2>6, <2>9 DEF Protocol, Names
    <3>2. \A x \in Local \ Used' : q[x] = 0 /\ delivered'[x] = <<>>
      BY <1>1, <1>4, <1>6, <1>7, <2>9 DEF Protocol, Names
    <3>3. QED
      BY <3>1, <3>2 DEF Names
  <2>11. Received(q)'
    <3>1. Received(peer)
      BY <1>1 DEF Protocol
    <3>2. \A c \in Remote : client'[c].state = "idle" => client[c].state = "idle"
      BY <2>7
    <3>3. ASSUME NEW i \in DOMAIN inq
          PROVE  /\ inq[i].command # "OPEN" => q[inq[i].to] = peer[inq[i].to]
                 /\ inq[i].command = "OPEN" => \A id \in Local : q[id] # inq[i].from
                 /\ inq[i].command = "CLSE" => inq[i].to # p.to
      <4>1. inq[i].to # a
        BY <1>6
      <4>2. inq[i].command # "OPEN" => inq[i].to \in Local
        BY <1>7, <3>1 DEF Received
      <4>3. inq[i].command = "OPEN" => inq[i].from # r /\ \A id \in Local : peer[id] # inq[i].from
        BY <2>6, <3>1 DEF Received
      <4>4. QED
        BY <2>3, <2>9, <4>1, <4>2, <4>3
    <3>4. p.to \in Used /\ p.from = q[p.to] /\ p.from # 0
      BY <1>6, <2>1, <2>3, <2>9
    <3>5. QED
      BY <1>4, <2>3, <3>1, <3>2, <3>3, <3>4, ReceivedMore
  <2>12. Sent(q)'
    <3>1. \A i \in DOMAIN outq' : outq'[i].command # "CLSE" =>
            q[outq'[i].from] = peer[outq'[i].from]
      <4>1. \A i \in DOMAIN outq' : outq'[i].command # "CLSE" => outq'[i].from \in Local
        BY <1>1, <1>5, <1>7 DEF Protocol, Sent
      <4>2. QED
        BY <1>9, <2>9, <4>1
    <3>2. \A i \in DOMAIN outq', j \in DOMAIN inq' : outq'[i].command = "OPEN" =>
            inq'[j].to # outq'[i].from
      BY <1>1, <1>5, <1>9, <2>3, <2>5 DEF Protocol, Sent
    <3>3. QED
      BY <1>1, <1>4, <1>8, <3>1, <3>2, SentLess DEF Protocol
  <2>13. Knows(q, r)'
    <3>1. \A i \in DOMAIN inq' : inq'[i].command = "CLSE" => inq'[i].to # a
      BY <1>6, <2>3, <2>5
    <3>2. n \in Okays(a)'
      BY <2>3, <2>5 DEF Okays
    <3>3. QED
      BY <1>4, <1>6, <1>7, <2>7, <2>9, <3>1, <3>2 DEF Knows
  <2>14. ASSUME a \in DOMAIN streams PROVE At(q, a)'
    <3>1. /\ At(peer, a) /\ streams[a].opening /\ streams[a].remote = 0
          /\ streams[a].pending = <<>> /\ delivered[a] = <<>> /\ ~streams[a].closing
      BY <1>6, <1>11, <2>14
    <3>2. Named(q, a)' /\ Numbered(a)'
      BY <1>4, <1>6, <1>7, <3>1 DEF At, Named, Numbered, Written
    <3>3. \A i \in DOMAIN inq' : inq'[i].to = a => i = n /\ inq'[i].command = "OKAY"
      BY <1>6, <2>3, <2>5
    <3>4. Expected(a)'
      BY <1>4, <3>1, <3>3 DEF Expected, Okays
    <3>5. Writes(a)' = {}
      BY <3>3 DEF Writes, Data
    <3>6. Accepted(a)' = 0
      BY <1>4, <3>1 DEF Accepted, Written
    <3>7. \A c \in Writers(a)' : c = r
      BY <1>10, <2>7 DEF Writers
    <3>8. Gapless(a)'
      BY <2>7, <3>5, <3>6, <3>7 DEF Gapless
    <3>9. OneOutput(a)'
      BY <1>9, <2>7, <3>7 DEF OneOutput
    <3>10. QED
      BY <3>2, <3>4, <3>8, <3>9 DEF At
  <2>15. \A c \in Remote : c # r =>
            /\ client'[c] = client[c]
            /\ \A id \in Local : (q[id] = c <=> peer[id] = c) /\ (peer[id] = c => id # a)
    <3>1. \A c \in Remote : c # 0
      BY ConstantTypes
    <3>2. QED
      BY <1>6, <2>7, <2>9, <3>1
  <2>16. \A id \in Local : id # a => q[id] = peer[id] /\ SameInput(id, 0) /\ SameWriters(id)
    <3>1. \A id \in Local : id # a => SameWriters(id)
      BY <2>7 DEF SameWriters, Writers
    <3>2. \A id \in Local : id # a => SameInput(id, 0)
      BY <2>5
    <3>3. \A id \in Local : id # a => q[id] = peer[id]
      BY <2>9
    <3>4. QED
      BY <3>1, <3>2, <3>3, Zenon
  <2>17. Protocol(q)'
    <3>1. \A i \in DOMAIN inq' : i \in Nat
      BY <2>5
    <3>2. streams' = streams /\ next' = next /\ delivered' = delivered
      BY <1>4
    <3>3. r \in Remote => Knows(q, r)'
      BY <2>13
    <3>4. QED
      BY <1>1, <1>8, <2>10, <2>11, <2>12, <2>14, <2>15, <2>16, <3>1, <3>2, <3>3, ClientFrame
  <2>18. QED
    BY <2>17 DEF Sound
<1>13. ASSUME inq' = Append(inq, Close(0, a)), client' = client
       PROVE  Sound'
  <2>1. PICK p \in Packet : p = Close(0, a)
    BY <1>7, PacketKinds
  <2>2. p.command = "CLSE" /\ p.from = 0 /\ p.to = a /\ inq' = Append(inq, p)
    BY <1>13, <2>1 DEF Close
  <2>3. PICK n : n = Len(inq) + 1
    OBVIOUS
  <2>4. /\ DOMAIN inq' = DOMAIN inq \cup {n} /\ inq'[n] = p
        /\ \A i \in DOMAIN inq : inq'[i] = inq[i]
        /\ \A i \in DOMAIN inq' : i \in Nat
        /\ \A id : id # a => SameInput(id, 0)
    BY <2>2, <2>3, InputAppended
  <2>5. Names(peer)'
    BY <1>1, <1>4, <1>7 DEF Protocol, Names
  <2>6. Received(peer)'
    <3>1. Received(peer)
      BY <1>1 DEF Protocol
    <3>2. \A i \in DOMAIN inq :
            /\ inq[i].command = "OPEN" => \A id \in Local : peer[id] # inq[i].from
            /\ inq[i].command = "CLSE" => inq[i].to # p.to
      BY <1>6, <2>2, <3>1 DEF Received
    <3>3. p.to \in Used /\ p.from = peer[p.to]
      BY <1>6, <2>2
    <3>4. \A c \in Remote : client'[c].state = "idle" => client[c].state = "idle"
      BY <1>13
    <3>5. QED
      BY <1>4, <2>2, <3>1, <3>2, <3>3, <3>4, ReceivedMore
  <2>7. Sent(peer)'
    <3>1. \A i \in DOMAIN outq', j \in DOMAIN inq' : outq'[i].command = "OPEN" =>
            inq'[j].to # outq'[i].from
      BY <1>1, <1>5, <1>9, <2>2, <2>4 DEF Protocol, Sent
    <3>2. QED
      BY <1>1, <1>4, <1>8, <3>1, SentLess DEF Protocol
  <2>8. ASSUME a \in DOMAIN streams PROVE At(peer, a)'
    <3>1. /\ At(peer, a) /\ streams[a].opening /\ streams[a].remote = 0
          /\ streams[a].pending = <<>> /\ delivered[a] = <<>> /\ ~streams[a].closing
      BY <1>6, <1>11, <2>8
    <3>2. Named(peer, a)' /\ Numbered(a)'
      BY <1>4, <1>6, <1>7, <3>1 DEF At, Named, Numbered, Written
    <3>3. \A i \in DOMAIN inq' : inq'[i].to = a =>
            i = n /\ inq'[i].command = "CLSE" /\ inq'[i].from = 0
      BY <1>6, <2>2, <2>4
    <3>4. Expected(a)'
      BY <1>4, <3>1, <3>3 DEF Expected, Okays
    <3>5. Writes(a)' = {}
      BY <3>3 DEF Writes, Data
    <3>6. Writers(a)' = {}
      BY <1>10, <1>13 DEF Writers
    <3>7. Gapless(a)' /\ OneOutput(a)'
      BY <1>9, <3>5, <3>6 DEF Gapless, OneOutput
    <3>8. QED
      BY <3>2, <3>4, <3>7 DEF At
  <2>9. \A id \in Local : id # a => SameInput(id, 0) /\ SameWriters(id)
    BY <1>13, <2>4 DEF SameWriters, Writers
  <2>10. 0 \notin Remote
    BY ConstantTypes
  <2>11. \A c \in Remote : c # 0 =>
            client'[c] = client[c] /\ \A id \in Local : peer[id] = c => id # a
    BY <1>6, <1>13, <2>10
  <2>12. Protocol(peer)'
    BY <1>1, <1>4, <1>8, <2>4, <2>5, <2>6, <2>7, <2>8, <2>9, <2>10, <2>11, ClientFrame
  <2>13. QED
    BY <2>12 DEF Sound
<1>14. \/ \E r \in Remote :
            /\ NextRemote(r) /\ inq' = Append(inq, Okay(r, a))
            /\ client' = [client EXCEPT ![r].state = "open", ![r].local = a]
       \/ inq' = Append(inq, Close(0, a)) /\ client' = client
  BY <1>2, <1>3 DEF ClientAccepts
<1>15. QED
  BY <1>12, <1>13, <1>14
=============================================================================
