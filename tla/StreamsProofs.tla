---------------------------- MODULE StreamsProofs ----------------------------
(***************************************************************************)
(* The streams of a connection: the types, and the theorems that follow    *)
(* from the invariant of StreamsProtocol.                                  *)
(***************************************************************************)
EXTENDS StreamsProtocol

-----------------------------------------------------------------------------
(* Types *)

USE DEF FarEnd

\* A stream that is added, changed or taken out leaves a table of streams.
LEMMA TableWith ==
    ASSUME TypeOK, NEW id \in Local, NEW s \in Stream, streams' = WithStream(id, s)
    PROVE  DOMAIN streams' \subseteq Local /\ streams' \in [DOMAIN streams' -> Stream]
BY DEF TypeOK, WithStream

LEMMA TableChanged ==
    ASSUME TypeOK, NEW id \in DOMAIN streams, NEW s \in Stream,
           streams' = [streams EXCEPT ![id] = s]
    PROVE  DOMAIN streams' \subseteq Local /\ streams' \in [DOMAIN streams' -> Stream]
BY DEF TypeOK

LEMMA TableWithout ==
    ASSUME TypeOK, NEW id \in DOMAIN streams, Drop(id)
    PROVE  /\ DOMAIN streams' \subseteq Local /\ streams' \in [DOMAIN streams' -> Stream]
           /\ service' \in [Local -> FarEnd]
           /\ \A j \in Local : service'[j] = service[j] \/ service'[j] = Gone
<1>1. Gone \in FarEnd
  BY DEF Gone
<1>2. QED
  BY <1>1 DEF TypeOK, Drop, WithoutStream, Restrict

LEMMA NewStreamType ==
    ASSUME NEW r \in Remote \cup {0}, NEW o \in BOOLEAN
    PROVE  NewStream(r, o) \in Stream
<1>1. <<>> \in Seq(Nat)
  BY EmptySeq
<1>2. QED
  BY <1>1 DEF NewStream, Stream

\* A stream that starts with a service.
LEMMA StartTypes ==
    ASSUME TypeOK, next \in Local, NEW s \in {Process, Peer, Answer},
           service' = [service EXCEPT ![next] = s], next' = next + 1
    PROVE  /\ next' \in 1..(MaxLocal + 1)
           /\ service' \in [Local -> FarEnd]
           /\ \A j \in Local : service'[j] = service[j] \/ service'[j].unread = 0
<1>1. /\ Process \in FarEnd
      /\ Process.unread = 0
      /\ Peer \in FarEnd /\ Peer.unread = 0
      /\ Answer \in FarEnd
      /\ Answer.unread = 0
  BY DEF Process, Peer, Answer, Gone
<1>2. next' \in 1..(MaxLocal + 1)
  BY ConstantTypes DEF Local
<1>3. QED
  BY <1>1, <1>2 DEF TypeOK

LEMMA HandleOpenTypes ==
    ASSUME TypeOK, NEW p \in Packet, HandleOpen(p), p.from \in Remote
    PROVE  /\ DOMAIN streams' \subseteq Local /\ streams' \in [DOMAIN streams' -> Stream]
           /\ next' \in 1..(MaxLocal + 1)
           /\ service' \in [Local -> FarEnd]
           /\ outq' \in Seq(Packet)
           /\ \A j \in Local : service'[j] = service[j] \/ service'[j].unread = 0
<1>1. CASE /\ UNCHANGED <<streams, next, service>>
           /\ outq' = outq \/ Send(Close(0, p.from))
  <2>1. 0 \in Nat /\ p.from \in Nat
    BY PacketFields
  <2>2. Close(0, p.from) \in Packet
    BY <2>1, PacketKinds
  <2>3. outq' \in Seq(Packet)
    <3>1. outq \in Seq(Packet)
      BY DEF TypeOK
    <3>2. QED
      BY <1>1, <2>2, <3>1, AppendProperties DEF Send
  <2>4. QED
    BY <1>1, <2>3 DEF TypeOK
<1>2. CASE /\ next \in Local
           /\ streams' = WithStream(next, NewStream(p.from, FALSE))
           /\ \E s \in {Process, Answer} : service' = [service EXCEPT ![next] = s]
           /\ next' = next + 1
           /\ Send(Okay(next, p.from))
  <2>1. NewStream(p.from, FALSE) \in Stream
    BY NewStreamType
  <2>2. DOMAIN streams' \subseteq Local /\ streams' \in [DOMAIN streams' -> Stream]
    BY <1>2, <2>1, TableWith
  <2>3. next \in Nat /\ p.from \in Nat
    BY <1>2, PacketFields, ConstantTypes DEF Local
  <2>4. Okay(next, p.from) \in Packet
    BY <2>3, PacketKinds
  <2>5. outq' \in Seq(Packet)
    BY <1>2, <2>4, Appended
  <2>6. QED
    BY <1>2, <2>2, <2>5, StartTypes
<1>3. QED
  BY <1>1, <1>2 DEF HandleOpen, Fail

\* What a packet that is not an OPEN makes of its stream.
LEMMA HandleOthersTypes ==
    ASSUME TypeOK, NEW p \in Packet,
           p.command = "OKAY" /\ Exists(p.to) => p.from \in Remote,
           HandleOkay(p) \/ HandleWrite(p) \/ HandleClose(p)
    PROVE  /\ DOMAIN streams' \subseteq Local /\ streams' \in [DOMAIN streams' -> Stream]
           /\ next' = next /\ service' = service
           /\ outq' \in Seq(Packet)
<1>1. outq \in Seq(Packet) /\ p.from \in Nat /\ p.to \in Nat
  BY PacketFields DEF TypeOK
<1>2. Okay(p.to, p.from) \in Packet /\ Close(p.to, p.from) \in Packet
  BY <1>1, PacketKinds
<1>3. /\ Append(outq, Okay(p.to, p.from)) \in Seq(Packet)
      /\ Append(outq, Close(p.to, p.from)) \in Seq(Packet)
  BY <1>1, <1>2, AppendProperties
<1>4. CASE HandleOkay(p)
  <2>1. PICK s : s = streams[p.to]
    OBVIOUS
  <2>2. ASSUME Exists(p.to)
        PROVE  /\ [s EXCEPT !.opening = FALSE, !.remote = p.from] \in Stream
               /\ [s EXCEPT !.waiting = FALSE] \in Stream
    <3>1. s \in Stream
      BY <2>1, <2>2 DEF TypeOK, Exists
    <3>2. p.from \in Remote
      BY <1>4, <2>2 DEF HandleOkay
    <3>3. QED
      BY <3>1, <3>2 DEF Stream
  <2>3. /\ next' = next /\ service' = service /\ outq' = outq
        /\ \/ streams' = streams
           \/ /\ Exists(p.to)
              /\ \/ streams' = [streams EXCEPT ![p.to] =
                                    [s EXCEPT !.opening = FALSE, !.remote = p.from]]
                 \/ streams' = [streams EXCEPT ![p.to] = [s EXCEPT !.waiting = FALSE]]
    BY <1>4, <2>1 DEF HandleOkay, Fail
  <2>4. CASE streams' = streams
    BY <1>1, <2>3, <2>4 DEF TypeOK
  <2>5. CASE /\ Exists(p.to)
             /\ streams' = [streams EXCEPT ![p.to] =
                                [s EXCEPT !.opening = FALSE, !.remote = p.from]]
    BY <1>1, <2>2, <2>3, <2>5, TableChanged DEF Exists
  <2>6. CASE /\ Exists(p.to)
             /\ streams' = [streams EXCEPT ![p.to] = [s EXCEPT !.waiting = FALSE]]
    BY <1>1, <2>2, <2>3, <2>6, TableChanged DEF Exists
  <2>7. QED
    BY <2>3, <2>4, <2>5, <2>6
<1>5. CASE HandleWrite(p)
  <2>1. ASSUME Exists(p.to)
        PROVE  [streams[p.to] EXCEPT !.pending = Append(@, p.data)] \in Stream
    <3>1. streams[p.to] \in Stream /\ p.data \in Nat
      BY <1>5, <2>1, PacketFields DEF TypeOK, Exists, HandleWrite
    <3>2. Append(streams[p.to].pending, p.data) \in Seq(Nat)
      BY <3>1, AppendProperties DEF Stream
    <3>3. QED
      BY <3>1, <3>2 DEF Stream
  <2>2. /\ next' = next /\ service' = service
        /\ \/ outq' = outq
           \/ outq' = Append(outq, Okay(p.to, p.from))
           \/ outq' = Append(outq, Close(p.to, p.from))
        /\ \/ streams' = streams
           \/ /\ Exists(p.to)
              /\ streams' = [streams EXCEPT ![p.to] =
                                [streams[p.to] EXCEPT !.pending = Append(@, p.data)]]
    BY <1>5 DEF HandleWrite, Fail, Send
  <2>3. DOMAIN streams' \subseteq Local /\ streams' \in [DOMAIN streams' -> Stream]
    <3>1. CASE streams' = streams
      BY <3>1 DEF TypeOK
    <3>2. QED
      BY <2>1, <2>2, <3>1, TableChanged DEF Exists
  <2>4. QED
    BY <1>1, <1>3, <2>2, <2>3
<1>6. CASE HandleClose(p)
  <2>1. ASSUME Exists(p.to) PROVE [streams[p.to] EXCEPT !.closing = TRUE] \in Stream
    <3>1. streams[p.to] \in Stream
      BY <2>1 DEF TypeOK, Exists
    <3>2. QED
      BY <3>1 DEF Stream
  <2>2. /\ next' = next /\ service' = service /\ outq' = outq
        /\ \/ streams' = streams
           \/ /\ Exists(p.to)
              /\ streams' = [streams EXCEPT ![p.to] = [streams[p.to] EXCEPT !.closing = TRUE]]
    BY <1>6 DEF HandleClose, Fail
  <2>3. CASE streams' = streams
    BY <1>1, <2>2, <2>3 DEF TypeOK
  <2>4. QED
    BY <1>1, <2>1, <2>2, <2>3, TableChanged DEF Exists
<1>7. QED
  BY <1>4, <1>5, <1>6

LEMMA HandleTypes ==
    ASSUME IInv, Handle
    PROVE  TypeOK' /\ Room'
<1>1. PICK peer \in [Local -> Remote \cup {0}] : Protocol(peer)
  BY DEF IInv, Sound, Handle
<1>2. TypeOK /\ Room /\ inq # <<>>
  BY DEF IInv, Handle
<1>3. PICK p \in Packet : p = Head(inq)
  BY <1>2, HeadOfInput
<1>4. /\ p.command = "OPEN" => p.from \in Remote
      /\ p.command = "OKAY" /\ Exists(p.to) => p.from \in Remote
      /\ p.command = "WRTE" => p.from \in Remote
  BY <1>1, <1>2, <1>3, LegalInput
<1>5. /\ inq' \in Seq(Packet) /\ client' = client /\ delivered' = delivered /\ dead' \in BOOLEAN
  <2>1. inq' = Tail(inq) /\ client' = client
    BY DEF Handle
  <2>2. delivered' = delivered /\ dead' \in BOOLEAN
    BY <1>2 DEF Handle, HandleOpen, HandleOkay, HandleWrite, HandleClose, Fail, TypeOK
  <2>3. QED
    BY <1>2, <2>1, <2>2, HeadOfInput
<1>6. /\ DOMAIN streams' \subseteq Local /\ streams' \in [DOMAIN streams' -> Stream]
      /\ next' \in 1..(MaxLocal + 1)
      /\ service' \in [Local -> FarEnd]
      /\ outq' \in Seq(Packet)
      /\ \A j \in Local : service'[j] = service[j] \/ service'[j].unread = 0
  <2>1. CASE HandleOpen(p)
    <3>1. p.from \in Remote
      BY <1>4, <2>1 DEF HandleOpen
    <3>2. QED
      BY <1>2, <2>1, <3>1, HandleOpenTypes
  <2>2. CASE HandleOkay(p) \/ HandleWrite(p) \/ HandleClose(p)
    <3>1. /\ DOMAIN streams' \subseteq Local /\ streams' \in [DOMAIN streams' -> Stream]
          /\ next' = next /\ service' = service
          /\ outq' \in Seq(Packet)
      BY <1>2, <1>4, <2>2, HandleOthersTypes
    <3>2. QED
      BY <1>2, <3>1 DEF TypeOK
  <2>3. QED
    BY <1>3, <2>1, <2>2 DEF Handle
<1>7. TypeOK'
  BY <1>2, <1>5, <1>6 DEF TypeOK
<1>8. Room'
  <2>1. ASSUME NEW j \in Local PROVE service'[j].unread <= SocketSize
    <3>1. CASE service'[j] = service[j]
      BY <1>2, <2>1, <3>1 DEF Room
    <3>2. CASE service'[j].unread = 0
      BY <3>2, ConstantTypes
    <3>3. QED
      BY <1>6, <3>1, <3>2
  <2>2. QED
    BY <2>1 DEF Room
<1>9. QED
  BY <1>7, <1>8

\* What a pass leaves of a service: the units written to its socket, the output read.
LEMMA ServedService ==
    ASSUME TypeOK, Room, NEW id \in DOMAIN streams, Numbered(id), Serve(id), id \in DOMAIN streams'
    PROVE  /\ service' \in [Local -> FarEnd]
           /\ \A j \in Local : j # id => service'[j] = service[j]
           /\ service'[id].unread <= SocketSize
<1>1. id \in Local /\ service[id] \in FarEnd
  BY DEF TypeOK
<1>2. PICK k \in Nat : k = Taken(id) /\ service[id].unread + k <= SocketSize
  BY TakenFits
<1>3. ~Ends(streams[id], service[id], k)
  <2>1. CASE Ends(streams[id], service[id], k)
    <3>1. Drop(id)
      BY <1>2, <2>1 DEF Serve
    <3>2. QED
      BY <3>1 DEF Drop, WithoutStream, Restrict
  <2>2. QED
    BY <2>1
<1>4. PICK b : b = IF Reads(streams[id]) /\ service[id].output > 0
                   THEN <<Write(id, streams[id].remote, 1)>> ELSE <<>>
  OBVIOUS
<1>5. service' = [service EXCEPT ![id].unread = @ + k, ![id].output = @ - Len(b)]
  BY <1>2, <1>3, <1>4 DEF Serve
<1>6. PICK n \in 0..1 : Len(b) = n /\ n <= service[id].output
  <2>1. CASE Reads(streams[id]) /\ service[id].output > 0
    <3>1. Len(b) = 1
      BY <1>4, <2>1
    <3>2. 1 <= service[id].output
      BY <1>1, <2>1
    <3>3. QED
      BY <3>1, <3>2
  <2>2. CASE ~(Reads(streams[id]) /\ service[id].output > 0)
    <3>1. Len(b) = 0
      BY <1>4, <2>2, EmptySeq
    <3>2. 0 <= service[id].output
      BY <1>1
    <3>3. QED
      BY <3>1, <3>2
  <2>3. QED
    BY <2>1, <2>2
<1>7. service' = [service EXCEPT ![id].unread = @ + k, ![id].output = @ - n]
  BY <1>5, <1>6
<1>8. /\ service[id].unread + k \in Nat
      /\ service[id].output - n \in Nat
  BY <1>1, <1>2, <1>6
<1>9. /\ service'[id] = [service[id] EXCEPT !.unread = @ + k, !.output = @ - n]
      /\ service'[id] \in FarEnd
      /\ service'[id].unread = service[id].unread + k
  BY <1>1, <1>7, <1>8 DEF TypeOK
<1>10. service' \in [Local -> FarEnd]
  BY <1>1, <1>7, <1>9 DEF TypeOK
<1>11. \A j \in Local : j # id => service'[j] = service[j]
  BY <1>1, <1>7 DEF TypeOK
<1>12. QED
  BY <1>2, <1>9, <1>10, <1>11

LEMMA ServeTypes ==
    ASSUME IInv, NEW id \in Local, Serve(id)
    PROVE  TypeOK' /\ Room' /\ InOrder'
<1>1. TypeOK /\ Room /\ InOrder
  BY DEF IInv
<1>2. PICK peer \in [Local -> Remote \cup {0}] : Protocol(peer)
  BY DEF IInv, Sound, Serve
<1>3. /\ id \in DOMAIN streams
      /\ next' = next /\ dead' = dead /\ inq' = inq /\ client' = client
  BY DEF Serve, Exists
<1>4. Numbered(id)
  BY <1>2, <1>3 DEF Protocol, At
<1>5. outq' \in Seq(Packet)
  BY <1>1, <1>3, ServeOutput
<1>6. delivered' \in [Local -> Seq(Nat)] /\ InOrder'
  <2>1. PICK l \in Nat : l = Len(delivered[id])
    BY <1>1, LenProperties DEF TypeOK
  <2>2. QED
    BY <1>1, <1>3, <1>4, <2>1, Flushed
<1>7. /\ DOMAIN streams' \subseteq Local /\ streams' \in [DOMAIN streams' -> Stream]
      /\ service' \in [Local -> FarEnd]
      /\ \A j \in Local : service'[j].unread <= SocketSize
  <2>1. CASE id \in DOMAIN streams'
    <3>1. PICK s \in Stream : s = streams[id]
      BY <1>1, <1>3 DEF TypeOK
    <3>2. streams'[id] \in Stream /\ ~Ends(s, service[id], Taken(id))
      BY <1>1, <1>2, <1>3, <2>1, <3>1, ServedStream
    <3>3. /\ service' \in [Local -> FarEnd]
          /\ \A j \in Local : j # id => service'[j] = service[j]
          /\ service'[id].unread <= SocketSize
      BY <1>1, <1>3, <1>4, <2>1, ServedService
    <3>4. \E t : streams' = [streams EXCEPT ![id] = t]
      BY <3>1, <3>2 DEF Serve
    <3>5. DOMAIN streams' \subseteq Local /\ streams' \in [DOMAIN streams' -> Stream]
      BY <1>1, <1>3, <3>2, <3>4 DEF TypeOK
    <3>6. \A j \in Local : service'[j].unread <= SocketSize
      BY <1>1, <3>3 DEF Room
    <3>7. QED
      BY <3>3, <3>5, <3>6
  <2>2. CASE id \notin DOMAIN streams'
    <3>1. Drop(id)
      BY <1>3, <2>2 DEF Serve
    <3>2. Gone.unread = 0
      BY DEF Gone
    <3>3. \A j \in Local : service'[j] = service[j] \/ service'[j].unread = 0
      BY <1>1, <1>3, <3>1, <3>2, TableWithout
    <3>4. \A j \in Local : service'[j].unread <= SocketSize
      BY <1>1, <3>3, ConstantTypes DEF Room
    <3>5. QED
      BY <1>1, <1>3, <3>1, <3>4, TableWithout
  <2>3. QED
    BY <2>1, <2>2
<1>8. TypeOK'
  BY <1>1, <1>3, <1>5, <1>6, <1>7 DEF TypeOK
<1>9. Room'
  BY <1>7 DEF Room
<1>10. QED
  BY <1>6, <1>8, <1>9

\* Expire and WriteFails.
LEMMA EndedTypes ==
    ASSUME TypeOK, Room, NEW id \in DOMAIN streams, Drop(id),
           Send(Close(id, streams[id].remote)),
           next' = next, dead' = dead, delivered' = delivered, inq' = inq, client' = client
    PROVE  TypeOK' /\ Room'
<1>1. id \in Nat /\ streams[id].remote \in Nat
  BY NamedRemote
<1>2. Close(id, streams[id].remote) \in Packet
  BY <1>1, PacketKinds
<1>3. outq' \in Seq(Packet)
  BY <1>2, Appended
<1>4. TypeOK'
  BY <1>3, TableWithout DEF TypeOK
<1>5. Gone.unread = 0
  BY DEF Gone
<1>6. \A j \in Local : service'[j] = service[j] \/ service'[j].unread = 0
  BY <1>5, TableWithout
<1>7. Room'
  BY <1>6, ConstantTypes DEF Room
<1>8. QED
  BY <1>4, <1>7

LEMMA ReverseTypes ==
    ASSUME TypeOK, Room, ReverseAccept
    PROVE  TypeOK' /\ Room'
<1>1. /\ next \in Local /\ next' = next + 1 /\ Peer \in {Process, Peer, Answer}
      /\ service' = [service EXCEPT ![next] = Peer]
      /\ streams' = WithStream(next, NewStream(0, TRUE)) /\ Send(Open(next))
      /\ UNCHANGED <<dead, delivered, inq, client>>
  BY DEF ReverseAccept
<1>2. NewStream(0, TRUE) \in Stream
  BY NewStreamType
<1>3. DOMAIN streams' \subseteq Local /\ streams' \in [DOMAIN streams' -> Stream]
  BY <1>1, <1>2, TableWith
<1>4. /\ next' \in 1..(MaxLocal + 1)
      /\ service' \in [Local -> FarEnd]
      /\ \A j \in Local : service'[j] = service[j] \/ service'[j].unread = 0
  BY <1>1, StartTypes
<1>5. next \in Nat
  BY <1>1, ConstantTypes DEF Local
<1>6. Open(next) \in Packet
  BY <1>5, PacketKinds
<1>7. outq' \in Seq(Packet)
  BY <1>1, <1>6, Appended
<1>8. TypeOK'
  BY <1>1, <1>3, <1>4, <1>7 DEF TypeOK
<1>9. Room'
  BY <1>4, ConstantTypes DEF Room
<1>10. QED
  BY <1>8, <1>9

\* What only the services touch is no part of the protocol.
LEMMA UntouchedSound ==
    ASSUME Sound, UNCHANGED <<streams, next, dead, delivered, inq, outq, client>>
    PROVE  Sound'
<1>1. ASSUME ~dead' PROVE Sound'
  <2>1. PICK peer \in [Local -> Remote \cup {0}] : Protocol(peer)
    BY <1>1 DEF Sound
  <2>2. /\ Used' = Used /\ \A j : Okays(j)' = Okays(j) /\ Writes(j)' = Writes(j)
        /\ \A j : Writers(j)' = Writers(j) /\ Accepted(j)' = Accepted(j)
    BY DEF Used, Okays, Writes, Writers, Accepted, Written
  <2>3. Names(peer)' /\ Received(peer)' /\ Sent(peer)'
    BY <2>1, <2>2 DEF Protocol, Names, Received, Sent
  <2>4. ASSUME NEW j \in DOMAIN streams PROVE At(peer, j)'
    <3>1. At(peer, j)
      BY <2>1 DEF Protocol
    <3>2. Named(peer, j)' /\ Numbered(j)'
      BY <2>2, <3>1 DEF At, Named, Numbered, Written
    <3>3. Expected(j)'
      BY <2>2, <3>1 DEF At, Expected
    <3>4. Gapless(j)'
      BY <2>2, <3>1 DEF At, Gapless
    <3>5. OneOutput(j)'
      BY <2>2, <3>1 DEF At, OneOutput, Unacked
    <3>6. QED
      BY <3>2, <3>3, <3>4, <3>5 DEF At
  <2>5. ASSUME NEW r \in Remote PROVE Knows(peer, r)'
    BY <2>1, <2>2 DEF Protocol, Knows
  <2>6. Protocol(peer)'
    BY <2>3, <2>4, <2>5 DEF Protocol
  <2>7. QED
    BY <2>6 DEF Sound
<1>2. QED
  BY <1>1 DEF Sound

\* The services on their own.
LEMMA ServiceSteps ==
    ASSUME IInv, NEW id \in Local,
           ServiceReads(id) \/ ServiceWrites(id) \/ ServiceExits(id) \/ PeerShutsWrite(id)
    PROVE  IInv'
<1>1. TypeOK /\ Room /\ InOrder /\ Sound
  BY DEF IInv
<1>2. UNCHANGED <<streams, next, dead, delivered, inq, outq, client>>
  BY DEF ServiceReads, ServiceWrites, ServiceExits, PeerShutsWrite
<1>3. service[id] \in FarEnd
  BY <1>1 DEF TypeOK
<1>4. PICK v : /\ v \in FarEnd
               /\ service' = [service EXCEPT ![id] = v] /\ v.unread <= service[id].unread
  <2>1. CASE ServiceReads(id)
    <3>1. service[id].unread - 1 \in Nat /\ service[id].unread - 1 <= service[id].unread
      BY <1>3, <2>1 DEF ServiceReads
    <3>2. PICK v : v = [service[id] EXCEPT !.unread = @ - 1]
      OBVIOUS
    <3>3. service' = [service EXCEPT ![id] = v]
      BY <2>1, <3>2 DEF ServiceReads
    <3>4. /\ v \in FarEnd
          /\ v.unread <= service[id].unread
      BY <1>3, <3>1, <3>2
    <3>5. QED
      BY <3>3, <3>4
  <2>2. CASE ServiceWrites(id)
    <3>1. service[id].made + 1 \in Nat /\ service[id].output + 1 \in Nat
      BY <1>3
    <3>2. PICK v : v = [service[id] EXCEPT !.made = @ + 1, !.output = @ + 1]
      OBVIOUS
    <3>3. service' = [service EXCEPT ![id] = v]
      BY <2>2, <3>2 DEF ServiceWrites
    <3>4. v \in FarEnd
      BY <1>3, <3>1, <3>2
    <3>5. v.unread = service[id].unread /\ v.unread \in Nat
      BY <1>3, <3>2
    <3>6. v.unread <= service[id].unread
      BY <3>5
    <3>7. QED
      BY <3>3, <3>4, <3>6
  <2>3. CASE ServiceExits(id)
    <3>1. PICK v : v = [Gone EXCEPT !.output = service[id].output]
      OBVIOUS
    <3>2. service' = [service EXCEPT ![id] = v]
      BY <2>3, <3>1 DEF ServiceExits
    <3>3. v = [unread |-> 0, output |-> service[id].output, made |-> 0,
                open |-> FALSE, reverse |-> FALSE, shut |-> FALSE]
      BY <3>1 DEF Gone
    <3>4. service[id].output \in Nat /\ service[id].unread \in Nat
      BY <1>3
    <3>5. v \in FarEnd
      BY <3>3, <3>4
    <3>6. v.unread <= service[id].unread
      BY <3>3, <3>4
    <3>7. QED
      BY <3>2, <3>5, <3>6
  <2>4. CASE PeerShutsWrite(id)
    <3>1. PICK v : v = [service[id] EXCEPT !.shut = TRUE]
      OBVIOUS
    <3>2. service' = [service EXCEPT ![id] = v]
      BY <2>4, <3>1 DEF PeerShutsWrite
    <3>3. v \in FarEnd
      BY <1>3, <3>1
    <3>4. v.unread = service[id].unread /\ v.unread \in Nat
      BY <1>3, <3>1
    <3>5. v.unread <= service[id].unread
      BY <3>4
    <3>6. QED
      BY <3>2, <3>3, <3>5
  <2>5. QED
    BY <2>1, <2>2, <2>3, <2>4
<1>5. TypeOK' /\ service'[id] = v /\ \A j \in Local : j # id => service'[j] = service[j]
  BY <1>1, <1>2, <1>4 DEF TypeOK
<1>6. Room'
  <2>1. ASSUME NEW j \in Local PROVE service'[j].unread <= SocketSize
    <3>1. CASE j = id
      <4>1. service[id].unread <= SocketSize
        BY <1>1 DEF Room
      <4>2. v.unread \in Nat /\ service[id].unread \in Nat
        BY <1>3, <1>4
      <4>3. QED
        BY <1>4, <1>5, <3>1, <4>1, <4>2, ConstantTypes
    <3>2. CASE j # id
      BY <1>1, <1>5, <3>2 DEF Room
    <3>3. QED
      BY <3>1, <3>2
  <2>2. QED
    BY <2>1 DEF Room
<1>7. InOrder'
  BY <1>1, <1>2 DEF InOrder
<1>8. Sound'
  BY <1>1, <1>2, UntouchedSound
<1>9. QED
  BY <1>5, <1>6, <1>7, <1>8 DEF IInv

\* The client.
LEMMA ToldType ==
    ASSUME TypeOK, NEW r \in Remote, NEW p \in Packet
    PROVE  Told(client[r], p) \in [state : {"idle", "opening", "open", "closed"},
                                   local : Nat, wrote : Nat, blocked : BOOLEAN, owes : BOOLEAN]
<1>1. client[r] \in [state : {"idle", "opening", "open", "closed"},
                     local : Nat, wrote : Nat, blocked : BOOLEAN, owes : BOOLEAN]
  BY DEF TypeOK
<1>2. p.from \in Nat
  BY PacketFields
<1>3. PICK c : c = client[r]
  OBVIOUS
<1>4. /\ [c EXCEPT !.state = "open", !.local = p.from]
            \in [state : {"idle", "opening", "open", "closed"},
                 local : Nat, wrote : Nat, blocked : BOOLEAN, owes : BOOLEAN]
      /\ [c EXCEPT !.blocked = FALSE]
            \in [state : {"idle", "opening", "open", "closed"},
                 local : Nat, wrote : Nat, blocked : BOOLEAN, owes : BOOLEAN]
      /\ [c EXCEPT !.owes = TRUE]
            \in [state : {"idle", "opening", "open", "closed"},
                 local : Nat, wrote : Nat, blocked : BOOLEAN, owes : BOOLEAN]
  BY <1>1, <1>2, <1>3
<1>5. Closed \in [state : {"idle", "opening", "open", "closed"},
                  local : Nat, wrote : Nat, blocked : BOOLEAN, owes : BOOLEAN]
  BY DEF Closed, Idle
<1>6. \/ Told(c, p) = [c EXCEPT !.state = "open", !.local = p.from]
      \/ Told(c, p) = [c EXCEPT !.blocked = FALSE]
      \/ Told(c, p) = [c EXCEPT !.owes = TRUE]
      \/ Told(c, p) = Closed \/ Told(c, p) = c
  BY DEF Told
<1>7. QED
  BY <1>1, <1>3, <1>4, <1>5, <1>6

LEMMA ClientTypes ==
    ASSUME TypeOK, Client
    PROVE  /\ inq' \in Seq(Packet) /\ outq' \in Seq(Packet)
           /\ client' \in [Remote -> [state : {"idle", "opening", "open", "closed"},
                                      local : Nat, wrote : Nat, blocked : BOOLEAN,
                                      owes : BOOLEAN]]
<1> DEFINE Known == [state : {"idle", "opening", "open", "closed"},
                     local : Nat, wrote : Nat, blocked : BOOLEAN, owes : BOOLEAN]
<1>1. inq \in Seq(Packet) /\ outq \in Seq(Packet) /\ client \in [Remote -> Known]
  BY DEF TypeOK
<1>2. ASSUME NEW r \in Remote, NEW p \in Packet, NEW c \in Known, ClientSends(r, p, c)
      PROVE  inq' \in Seq(Packet) /\ outq' \in Seq(Packet) /\ client' \in [Remote -> Known]
  <2>1. Append(inq, p) \in Seq(Packet)
    BY <1>1, AppendProperties
  <2>2. client' \in [Remote -> Known]
    BY <1>1, <1>2 DEF ClientSends
  <2>3. QED
    BY <1>1, <1>2, <2>1, <2>2 DEF ClientSends
<1>3. ASSUME NEW r \in Remote
      PROVE  r \in Nat /\ client[r] \in Known /\ client[r].local \in Nat /\ client[r].wrote + 1 \in Nat
  BY <1>1, ConstantTypes
<1>4. ASSUME NEW r \in Remote, ClientOpens(r)
      PROVE  inq' \in Seq(Packet) /\ outq' \in Seq(Packet) /\ client' \in [Remote -> Known]
  <2>1. Open(r) \in Packet
    BY <1>3, PacketKinds
  <2>2. [client[r] EXCEPT !.state = "opening"] \in Known
    BY <1>3
  <2>3. QED
    BY <1>2, <1>4, <2>1, <2>2 DEF ClientOpens
<1>5. ASSUME NEW r \in Remote, ClientWrites(r)
      PROVE  inq' \in Seq(Packet) /\ outq' \in Seq(Packet) /\ client' \in [Remote -> Known]
  <2>1. /\ Write(r, client[r].local, client[r].wrote + 1) \in Packet
        /\ Write(r, client[r].local, 0) \in Packet
    BY <1>3, PacketKinds
  <2>2. /\ [client[r] EXCEPT !.wrote = @ + 1, !.blocked = TRUE] \in Known
        /\ [client[r] EXCEPT !.blocked = TRUE] \in Known
    BY <1>3
  <2>3. \/ ClientSends(r, Write(r, client[r].local, client[r].wrote + 1),
                       [client[r] EXCEPT !.wrote = @ + 1, !.blocked = TRUE])
        \/ ClientSends(r, Write(r, client[r].local, 0), [client[r] EXCEPT !.blocked = TRUE])
    BY <1>5 DEF ClientWrites
  <2>4. QED
    BY <1>2, <2>1, <2>2, <2>3
<1>6. ASSUME NEW r \in Remote, ClientAcknowledges(r) \/ ClientCloses(r)
      PROVE  inq' \in Seq(Packet) /\ outq' \in Seq(Packet) /\ client' \in [Remote -> Known]
  <2>1. Okay(r, client[r].local) \in Packet /\ Close(r, client[r].local) \in Packet
    BY <1>3, PacketKinds
  <2>2. [client[r] EXCEPT !.owes = FALSE] \in Known /\ Closed \in Known
    BY <1>3 DEF Closed, Idle
  <2>3. QED
    BY <1>2, <1>6, <2>1, <2>2 DEF ClientAcknowledges, ClientCloses
<1>7. ASSUME ClientReceives
      PROVE  inq' \in Seq(Packet) /\ outq' \in Seq(Packet) /\ client' \in [Remote -> Known]
  <2>1. outq # <<>> /\ outq' = Tail(outq) /\ inq' = inq /\ Head(outq).to \in Remote
    BY <1>7 DEF ClientReceives
  <2>2. outq' \in Seq(Packet) /\ Head(outq) \in Packet
    BY <2>1, OutputTaken
  <2>3. Told(client[Head(outq).to], Head(outq)) \in Known
    BY <2>1, <2>2, ToldType
  <2>4. client' \in [Remote -> Known]
    BY <1>1, <1>7, <2>1, <2>3 DEF ClientReceives
  <2>5. QED
    BY <1>1, <2>1, <2>2, <2>4
<1>8. ASSUME ClientAccepts
      PROVE  inq' \in Seq(Packet) /\ outq' \in Seq(Packet) /\ client' \in [Remote -> Known]
  <2>1. outq # <<>> /\ outq' = Tail(outq)
    BY <1>8 DEF ClientAccepts
  <2>2. outq' \in Seq(Packet) /\ Head(outq) \in Packet
    BY <2>1, OutputTaken
  <2>3. PICK a \in Nat : a = Head(outq).from
    BY <2>2, PacketFields
  <2>4. ASSUME NEW r \in Remote, inq' = Append(inq, Okay(r, a)),
               client' = [client EXCEPT ![r].state = "open", ![r].local = a]
        PROVE  inq' \in Seq(Packet) /\ client' \in [Remote -> Known]
    <3>1. Okay(r, a) \in Packet
      BY <1>3, PacketKinds
    <3>2. [client[r] EXCEPT !.state = "open", !.local = a] \in Known
      BY <1>3
    <3>3. client' = [client EXCEPT ![r] = [client[r] EXCEPT !.state = "open", !.local = a]]
      BY <1>1, <2>4
    <3>4. client' \in [Remote -> Known]
      BY <1>1, <3>2, <3>3
    <3>5. QED
      BY <1>1, <2>4, <3>1, <3>4, AppendProperties
  <2>5. ASSUME inq' = Append(inq, Close(0, a)), client' = client
        PROVE  inq' \in Seq(Packet) /\ client' \in [Remote -> Known]
    <3>1. 0 \in Nat
      OBVIOUS
    <3>2. Close(0, a) \in Packet
      BY <3>1, PacketKinds
    <3>3. QED
      BY <1>1, <2>5, <3>2, AppendProperties
  <2>6. QED
    BY <1>8, <2>2, <2>3, <2>4, <2>5 DEF ClientAccepts
<1>9. ASSUME ClientIgnores
      PROVE  inq' \in Seq(Packet) /\ outq' \in Seq(Packet) /\ client' \in [Remote -> Known]
  <2>1. outq # <<>> /\ outq' = Tail(outq) /\ inq' = inq /\ client' = client
    BY <1>9 DEF ClientIgnores
  <2>2. QED
    BY <1>1, <2>1, OutputTaken
<1>10. QED
  BY <1>4, <1>5, <1>6, <1>7, <1>8, <1>9 DEF Client

-----------------------------------------------------------------------------
(* The invariant *)

LEMMA ClientSteps ==
    ASSUME IInv, Client
    PROVE  IInv'
<1>1. TypeOK /\ Room /\ InOrder /\ Sound
  BY DEF IInv
<1>2. UNCHANGED <<streams, next, dead, service, delivered>>
  BY DEF Client, ClientOpens, ClientWrites, ClientAcknowledges, ClientCloses, ClientSends,
         ClientReceives, ClientAccepts, ClientIgnores
<1>3. TypeOK'
  BY <1>1, <1>2, ClientTypes DEF TypeOK
<1>4. Room' /\ InOrder'
  BY <1>1, <1>2 DEF Room, InOrder
<1>5. Sound'
  BY <1>1, ClientTalks, ClientOpensSound, ClientReceivesSound, ClientAcceptsSound,
     ClientIgnoresSound DEF Client
<1>6. QED
  BY <1>3, <1>4, <1>5 DEF IInv

LEMMA EndedSteps ==
    ASSUME IInv, NEW id \in Local, Expire(id) \/ WriteFails(id)
    PROVE  IInv'
<1>1. TypeOK /\ Room /\ InOrder /\ Sound
  BY DEF IInv
<1>2. /\ ~dead /\ id \in DOMAIN streams /\ Drop(id) /\ Send(Close(id, streams[id].remote))
      /\ next' = next /\ dead' = dead /\ delivered' = delivered
      /\ inq' = inq /\ client' = client
  BY DEF Expire, WriteFails, Exists
<1>3. TypeOK' /\ Room'
  BY <1>1, <1>2, EndedTypes
<1>4. Sound'
  BY <1>1, <1>2, EndedSound
<1>5. InOrder'
  BY <1>1, <1>2 DEF InOrder
<1>6. QED
  BY <1>3, <1>4, <1>5 DEF IInv

LEMMA InvariantKept == IInv /\ [Next]_vars => IInv'
<1> SUFFICES ASSUME IInv, [Next]_vars PROVE IInv'
  OBVIOUS
<1>1. TypeOK /\ Room /\ InOrder /\ Sound
  BY DEF IInv
<1>2. CASE Handle
  <2>1. delivered' = delivered
    BY <1>2 DEF Handle, HandleOpen, HandleOkay, HandleWrite, HandleClose
  <2>2. InOrder'
    BY <1>1, <2>1 DEF InOrder
  <2>3. QED
    BY <1>1, <1>2, <2>2, HandleTypes, HandleSound DEF IInv
<1>3. ASSUME NEW id \in Local, Serve(id) PROVE IInv'
  BY <1>1, <1>3, ServeTypes, ServeSound DEF IInv
<1>4. ASSUME NEW id \in Local, Expire(id) \/ WriteFails(id) PROVE IInv'
  BY <1>4, EndedSteps
<1>5. ASSUME NEW id \in Local, ServiceReads(id) \/ ServiceWrites(id)
                             \/ ServiceExits(id) \/ PeerShutsWrite(id)
      PROVE  IInv'
  BY <1>5, ServiceSteps
<1>6. CASE ReverseAccept
  <2>1. delivered' = delivered
    BY <1>6 DEF ReverseAccept
  <2>2. InOrder'
    BY <1>1, <2>1 DEF InOrder
  <2>3. QED
    BY <1>1, <1>6, <2>2, ReverseTypes, ReverseSound DEF IInv
<1>7. CASE Client
  BY <1>7, ClientSteps
<1>8. CASE UNCHANGED vars
  <2>1. TypeOK' /\ Room' /\ InOrder'
    BY <1>1, <1>8 DEF vars, TypeOK, Room, InOrder
  <2>2. Sound'
    BY <1>1, <1>8, UntouchedSound DEF vars
  <2>3. QED
    BY <2>1, <2>2 DEF IInv
<1>9. QED
  BY <1>2, <1>3, <1>4, <1>5, <1>6, <1>7, <1>8 DEF Next

LEMMA InvariantHolds == Spec => []IInv
BY InitHolds, InvariantKept, PTL DEF Spec

-----------------------------------------------------------------------------
(* Theorems *)

\* Every variable has the type of the Rust structure it stands for; the remote id
\* of a stream is one that a client has used, whatever packets cross.
THEOREM TypesHold == Spec => []TypeOK
<1>1. IInv => TypeOK
  BY DEF IInv
<1>2. QED
  BY <1>1, InvariantHolds, PTL

\* What `flush_pending` has written to a service is what the client wrote on that
\* stream: every packet whole, once and in order.
THEOREM DataInOrder == Spec => []InOrder
<1>1. IInv => InOrder
  BY DEF IInv
<1>2. QED
  BY <1>1, InvariantHolds, PTL

\* The device ends the connection only when a packet of data meets a full queue: the
\* error returns of `handle` for a second OPEN, an acknowledgement that nothing waits
\* for, a stream of another id or one that is closing are out of reach of a client that
\* keeps to the protocol.
THEOREM OnlyLimitsEnd == Spec => EndsOnlyPastLimits
<1> DEFINE Past == dead' /\ ~dead =>
        /\ Head(inq).command = "WRTE" /\ Head(inq).data # 0
        /\ \/ ~(Kept < TotalLimit)
           \/ /\ Exists(Head(inq).to)
              /\ Len(streams[Head(inq).to].pending) >= PendingLimit
<1>1. ASSUME IInv, Next, dead', ~dead PROVE Past
  <2>1. TypeOK /\ Sound
    BY <1>1 DEF IInv
  <2>2. PICK peer \in [Local -> Remote \cup {0}] : Protocol(peer)
    BY <1>1, <2>1 DEF Sound
  <2>3. Handle
    BY <1>1 DEF Next, Serve, Expire, WriteFails, ServiceReads, ServiceWrites, ServiceExits,
                PeerShutsWrite, ReverseAccept, Client, ClientOpens, ClientWrites, ClientAcknowledges,
                ClientCloses, ClientSends, ClientReceives, ClientAccepts, ClientIgnores
  <2>4. PICK p \in Packet : p = Head(inq)
    BY <2>1, <2>3, HeadOfInput DEF Handle
  <2>5. /\ p.command = "OPEN" => \A id \in DOMAIN streams : streams[id].remote # p.from
        /\ p.command = "OKAY" /\ Exists(p.to) =>
            IF streams[p.to].opening THEN streams[p.to].remote = 0
            ELSE streams[p.to].remote = p.from /\ streams[p.to].waiting
        /\ p.command = "WRTE" /\ Exists(p.to) =>
            /\ streams[p.to].remote = p.from
            /\ ~streams[p.to].opening /\ ~streams[p.to].closing
        /\ p.command = "CLSE" /\ Exists(p.to) =>
            \/ p.from = streams[p.to].remote
            \/ streams[p.to].opening /\ p.from = 0
    BY <2>1, <2>2, <2>3, <2>4, LegalInput DEF Handle
  <2>6. HandleWrite(p) /\ ~Writable(p)
    <3>1. ~HandleOpen(p)
      BY <1>1, <2>5 DEF HandleOpen
    <3>2. ~HandleOkay(p)
      BY <1>1, <2>5 DEF HandleOkay
    <3>3. ~HandleClose(p)
      BY <1>1, <2>5 DEF HandleClose
    <3>4. HandleWrite(p)
      BY <2>3, <2>4, <3>1, <3>2, <3>3 DEF Handle
    <3>5. QED
      BY <1>1, <3>4 DEF HandleWrite
  <2>7. p.command = "WRTE" /\ p.data # 0
    BY <2>5, <2>6 DEF Writable, HandleWrite
  <2>8. ~(Kept < TotalLimit) \/ (Exists(p.to) /\ ~(Len(streams[p.to].pending) < PendingLimit))
    BY <2>5, <2>6, <2>7 DEF Writable
  <2>9. ASSUME Exists(p.to), ~(Len(streams[p.to].pending) < PendingLimit)
        PROVE  Len(streams[p.to].pending) >= PendingLimit
    <3>1. streams[p.to].pending \in Seq(Nat)
      BY <2>1, <2>9 DEF TypeOK, Exists, Stream
    <3>2. Len(streams[p.to].pending) \in Nat
      BY <3>1, LenProperties
    <3>3. QED
      BY <2>9, <3>2, ConstantTypes
  <2>10. QED
    BY <2>4, <2>7, <2>8, <2>9
<1>2. IInv /\ [Next]_vars => [Past]_vars
  BY <1>1
<1>3. QED
  BY <1>2, InvariantHolds, PTL DEF Spec, EndsOnlyPastLimits

\* Where a step adds to the output.
LEMMA AddedAt ==
    ASSUME TypeOK, outq' \in Seq(Packet), NEW i \in DOMAIN Added
    PROVE  /\ Len(outq) + i \in DOMAIN outq' \ DOMAIN outq
           /\ Added[i] = outq'[Len(outq) + i]
<1>1. outq \in Seq(Packet)
  BY DEF TypeOK
<1>2. PICK m \in Nat, n \in Nat : m = Len(outq) /\ n = Len(outq')
  BY <1>1, LenProperties
<1>3. DOMAIN outq = 1..m /\ DOMAIN outq' = 1..n
  BY <1>1, <1>2, LenProperties
<1>4. \A j \in (m + 1)..n : outq'[j] \in Packet
  BY <1>3
<1>5. PICK t : t = SubSeq(outq', m + 1, n)
  OBVIOUS
<1>6. /\ t \in Seq(Packet)
      /\ Len(t) = IF m + 1 <= n THEN n - (m + 1) + 1 ELSE 0
      /\ \A j \in 1..(n - (m + 1) + 1) : t[j] = outq'[m + 1 + j - 1]
  <2>1. m + 1 \in Int /\ n \in Int
    OBVIOUS
  <2>2. QED
    BY <1>4, <1>5, <2>1, SubSeqProperties
<1>7. DOMAIN t = 1..Len(t) /\ i \in DOMAIN t
  BY <1>2, <1>5, <1>6, LenProperties DEF Added
<1>8. i \in Nat /\ i >= 1 /\ i <= n - m /\ m + 1 <= n
  BY <1>6, <1>7
<1>9. i \in 1..(n - (m + 1) + 1) /\ m + 1 + i - 1 = m + i /\ m + i \in 1..n /\ m + i \notin 1..m
  BY <1>8
<1>10. t[i] = outq'[m + i]
  BY <1>6, <1>9
<1>11. QED
  BY <1>2, <1>3, <1>5, <1>9, <1>10 DEF Added

\* The pass over a stream acknowledges data only when all that the stream has received
\* is with the service: the acknowledgement is the back-pressure.
THEOREM AcknowledgesDrained == Spec => AcknowledgedWhenDrained
<1> DEFINE Drained == \A id \in DOMAIN streams, i \in DOMAIN Added :
        inq' = inq /\ Added[i].command = "OKAY" /\ Added[i].from = id =>
            Len(delivered'[id]) = Len(delivered[id]) + Backlog(streams[id])
<1>1. ASSUME IInv, Next,
             NEW id \in DOMAIN streams, NEW i \in DOMAIN Added,
             inq' = inq, Added[i].command = "OKAY", Added[i].from = id
      PROVE  Len(delivered'[id]) = Len(delivered[id]) + Backlog(streams[id])
  <2>1. TypeOK /\ Room /\ InOrder /\ Sound
    BY <1>1 DEF IInv
  <2>2. PICK n : n = Len(outq) + i
    OBVIOUS
  <2>3. n \in DOMAIN outq' \ DOMAIN outq /\ Added[i] = outq'[n]
    <3>1. TypeOK'
      BY <1>1, InvariantKept DEF IInv
    <3>2. outq' \in Seq(Packet)
      BY <3>1 DEF TypeOK
    <3>3. QED
      BY <1>1, <2>1, <2>2, <3>2, AddedAt
  <2>4. ~Handle
    <3>1. ASSUME Handle PROVE FALSE
      <4>1. inq # <<>> /\ inq' = Tail(inq)
        BY <3>1 DEF Handle
      <4>2. Len(Tail(inq)) = Len(inq) - 1 /\ Len(inq) \in Nat
        BY <2>1, <4>1, HeadOfInput, LenProperties DEF TypeOK
      <4>3. QED
        BY <1>1, <4>1, <4>2
    <3>2. QED
      BY <3>1
  <2>5. outq' # outq /\ ~(outq # <<>> /\ outq' = Tail(outq))
    <3>1. ASSUME outq # <<>>, outq' = Tail(outq) PROVE FALSE
      <4>1. outq \in Seq(Packet) /\ Len(outq) \in Nat /\ Len(outq') = Len(outq) - 1
        BY <2>1, <3>1, HeadTailProperties, LenProperties DEF TypeOK
      <4>2. DOMAIN outq = 1..Len(outq) /\ DOMAIN outq' = 1..Len(outq')
        BY <2>1, <3>1, <4>1, OutputTaken, LenProperties
      <4>3. QED
        BY <2>3, <4>1, <4>2
    <3>2. QED
      BY <2>3, <3>1
  <2>6. ~Client
    BY <2>5 DEF Client, ClientOpens, ClientWrites, ClientAcknowledges, ClientCloses,
                ClientSends, ClientReceives, ClientAccepts, ClientIgnores
  <2>7. ASSUME NEW p \in Packet, Send(p) PROVE p.command = "OKAY"
    BY <1>1, <2>1, <2>3, <2>7, Appended
  <2>8. ~ReverseAccept
    <3>1. ASSUME ReverseAccept PROVE FALSE
      <4>1. next \in Nat /\ Send(Open(next))
        BY <3>1, ConstantTypes DEF ReverseAccept, Local
      <4>2. Open(next) \in Packet
        BY <4>1, PacketKinds
      <4>3. QED
        BY <2>7, <4>1, <4>2 DEF Open
    <3>2. QED
      BY <3>1
  <2>9. ASSUME NEW j \in Local, Expire(j) \/ WriteFails(j) PROVE FALSE
    <3>1. j \in DOMAIN streams /\ Send(Close(j, streams[j].remote))
      BY <2>9 DEF Expire, WriteFails, Exists
    <3>2. j \in Nat /\ streams[j].remote \in Nat
      BY <2>1, <3>1, NamedRemote
    <3>3. Close(j, streams[j].remote) \in Packet
      BY <3>2, PacketKinds
    <3>4. QED
      BY <2>7, <3>1, <3>3 DEF Close
  <2>10. PICK j \in Local : Serve(j)
    BY <1>1, <2>4, <2>5, <2>6, <2>8, <2>9 DEF Next, ServiceReads, ServiceWrites,
                                                 ServiceExits, PeerShutsWrite
  <2>11. PICK k : k = Taken(j)
    OBVIOUS
  <2>12. /\ j \in DOMAIN streams
         /\ outq'[n] = Okay(j, streams[j].remote) /\ Acks(streams[j], k)
    <3>1. j \in DOMAIN streams
      BY <2>10 DEF Serve, Exists
    <3>2. \/ outq'[n] = Okay(j, streams[j].remote) /\ Acks(streams[j], k)
          \/ outq'[n] = Write(j, streams[j].remote, 1)
          \/ outq'[n] = Close(j, streams[j].remote)
      BY <2>1, <2>3, <2>10, <2>11, <3>1, ServeOutput
    <3>3. QED
      BY <1>1, <2>3, <3>1, <3>2 DEF Write, Close
  <2>13. id = j /\ k = Backlog(streams[id])
    BY <1>1, <2>3, <2>12 DEF Okay, Acks
  <2>14. Numbered(id)
    <3>1. ~dead
      BY <2>10 DEF Serve
    <3>2. QED
      BY <2>1, <3>1 DEF Sound, Protocol, At
  <2>15. PICK l \in Nat : l = Len(delivered[id])
    BY <1>1, <2>1, LenProperties DEF TypeOK
  <2>16. Len(delivered'[id]) = l + k
    BY <2>1, <2>10, <2>11, <2>13, <2>14, <2>15, Flushed
  <2>17. QED
    BY <2>13, <2>15, <2>16
<1>2. IInv /\ [Next]_vars => [Drained]_vars
  BY <1>1
<1>3. QED
  BY <1>2, InvariantHolds, PTL DEF Spec, AcknowledgedWhenDrained

\* A stream that goes while its far end still reads has handed over all that it
\* accepted, unless it was closed by the client and its socket had no room when the
\* second after CLSE had passed, or its far end had ended the output first: no CLSE
\* overtakes the writes before it, and no other error return or deadline of
\* `services` meets a stream with data for a service that reads.
THEOREM ClosesDrained == Spec => DrainedBeforeClose
<1> DEFINE Drained == \A id \in DOMAIN streams \ DOMAIN streams' :
        service[id].open /\ (streams[id].closing \/ ~service[id].shut) =>
            \/ Len(delivered'[id]) = Len(delivered[id]) + Backlog(streams[id])
            \/ streams[id].closing /\ service[id].unread = SocketSize
<1>1. ASSUME IInv, Next, NEW id \in DOMAIN streams \ DOMAIN streams',
             service[id].open, streams[id].closing \/ ~service[id].shut
      PROVE  \/ Len(delivered'[id]) = Len(delivered[id]) + Backlog(streams[id])
             \/ streams[id].closing /\ service[id].unread = SocketSize
  <2>1. TypeOK /\ Room /\ InOrder /\ Sound /\ id \in Local
    BY <1>1 DEF IInv, TypeOK
  <2>2. \E j \in Local : Serve(j) \/ Expire(j) \/ WriteFails(j)
    <3>1. CASE Handle
      <4>1. DOMAIN streams \subseteq DOMAIN streams'
        BY <3>1 DEF Handle, HandleOpen, HandleOkay, HandleWrite, HandleClose, Fail, WithStream
      <4>2. QED
        BY <1>1, <4>1
    <3>2. CASE ReverseAccept
      BY <1>1, <3>2 DEF ReverseAccept, WithStream
    <3>3. CASE Client
      BY <1>1, <3>3 DEF Client, ClientOpens, ClientWrites, ClientAcknowledges, ClientCloses,
                        ClientSends, ClientReceives, ClientAccepts, ClientIgnores
    <3>4. QED
      BY <1>1, <3>1, <3>2, <3>3 DEF Next, ServiceReads, ServiceWrites,
                                                 ServiceExits, PeerShutsWrite
  <2>3. PICK j \in Local : Serve(j) \/ Expire(j) \/ WriteFails(j)
    BY <2>2
  <2>4. ~dead /\ id = j
    <3>1. \/ streams' = WithoutStream(j)
          \/ \E t : streams' = [streams EXCEPT ![j] = t]
      BY <2>3 DEF Serve, Expire, WriteFails, Drop
    <3>2. QED
      BY <1>1, <2>3, <3>1 DEF WithoutStream, Restrict, Serve, Expire, WriteFails
  <2>5. PICK peer \in [Local -> Remote \cup {0}] : Protocol(peer)
    BY <2>1, <2>4 DEF Sound
  <2>6. Named(peer, id) /\ Numbered(id)
    BY <1>1, <2>5 DEF Protocol, At
  <2>7. PICK k \in Nat : k = Taken(id)
    BY <1>1, <2>1, <2>6, TakenFits
  <2>8. PICK l \in Nat : l = Len(delivered[id])
    BY <2>1, LenProperties DEF TypeOK
  <2>9. PICK b \in Nat : /\ b = Backlog(streams[id])
                         /\ b > 0 /\ k = 0 => service[id].unread = SocketSize
    <3>1. /\ Backlog(streams[id]) \in Nat /\ service[id].unread \in Nat
          /\ service[id].unread + k <= SocketSize
          /\ Backlog(streams[id]) > 0 /\ k = 0 => ~(service[id].unread < SocketSize)
      BY <1>1, <2>1, <2>6, <2>7, TakenFits
    <3>2. QED
      BY <3>1, ConstantTypes
  <2>10. CASE Serve(id)
    <3>1. Len(delivered'[id]) = l + k
      BY <1>1, <2>1, <2>6, <2>7, <2>8, <2>10, Flushed
    <3>2. Ends(streams[id], service[id], k)
      <4>1. CASE ~Ends(streams[id], service[id], k)
        <5>1. \E t : streams' = [streams EXCEPT ![id] = t]
          BY <2>7, <2>10, <4>1 DEF Serve
        <5>2. QED
          BY <1>1, <5>1
      <4>2. QED
        BY <4>1
    <3>3. k = b
      <4>1. ~(Reads(streams[id]) /\ AtEnd(service[id]))
        BY <1>1 DEF Reads, AtEnd
      <4>2. QED
        BY <2>9, <3>2, <4>1 DEF Ends
    <3>4. QED
      BY <2>8, <2>9, <3>1, <3>3
  <2>11. CASE Expire(id)
    <3>1. delivered' = delivered
      BY <2>11 DEF Expire
    <3>2. CASE streams[id].opening
      <4>1. streams[id].pending = <<>> /\ streams[id].offset = 0
        <5>1. streams[id].pending = <<>> /\ streams[id].offset # 1
          BY <2>6, <3>2 DEF Named, Numbered
        <5>2. streams[id].offset \in 0..1
          BY <1>1, <2>1 DEF TypeOK, Stream
        <5>3. QED
          BY <5>1, <5>2
      <4>2. b = 0
        BY <2>9, <4>1, EmptySeq DEF Backlog
      <4>3. QED
        BY <2>8, <2>9, <3>1, <4>2
    <3>3. CASE ~streams[id].opening
      <4>1. streams[id].closing /\ b > 0 /\ k = 0
        BY <2>7, <2>9, <2>11, <3>3 DEF Expire
      <4>2. QED
        BY <2>9, <4>1
    <3>4. QED
      BY <3>2, <3>3
  <2>12. CASE WriteFails(id)
    BY <1>1, <2>12 DEF WriteFails
  <2>13. QED
    BY <2>3, <2>4, <2>10, <2>11, <2>12
<1>2. IInv /\ [Next]_vars => [Drained]_vars
  BY <1>1
<1>3. QED
  BY <1>2, InvariantHolds, PTL DEF Spec, DrainedBeforeClose
=============================================================================
