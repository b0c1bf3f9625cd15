---------------------------- MODULE PairingProofs ---------------------------
(***************************************************************************)
(* What Pairing promises for any number of hosts, windows and attempts:    *)
(* who is told of success is saved, no code outlives its window, the       *)
(* worker's window is the supervisor's, or about to end, the guesses at a  *)
(* code are limited, and so are attempts while calls are answered in time. *)
(***************************************************************************)
EXTENDS Pairing, FiniteSetTheorems, SequenceTheorems, TLAPS

\* The messages and results under way make sense: a window announced was opened,
\* a key confirmed is saved, a result names the window of its attempt.
Sensible ==
    /\ \A i \in DOMAIN toWorker :
        /\ toWorker[i].type = "PairStart" => toWorker[i].epoch <= epoch
        /\ toWorker[i].type = "Reply" /\ toWorker[i].commit /\ toWorker[i].ok
            => toWorker[i].attempt \in committed
    /\ \A i \in DOMAIN toSup :
        toSup[i].attempt <= accepted /\ toSup[i].epoch = of[toSup[i].attempt]
    /\ \A a \in Attempt : IF a > accepted THEN phase[a] = "none" ELSE of[a] # 0
    /\ listening => served # 0
    /\ ~alive => toWorker = <<>> /\ ~listening

\* A thread that may tell its client of success has been told itself.
Earned ==
    /\ ToldIsSaved
    /\ \A a \in Attempt :
        /\ phase[a] = "telling" => a \in committed
        /\ phase[a] = "committing" /\ answer[a] = "ok" => a \in committed

\* A message from a place on ends the window of the worker.
EndsAfter(k) ==
    \E i \in DOMAIN toWorker : i > k /\ toWorker[i].type \in {"PairStop", "PairCommitted"}
Agreed(e) == window # None /\ window.epoch = e

\* WindowsAgree, for the windows still to be served, too.
Agreement ==
    /\ listening => Agreed(served) \/ EndsAfter(0)
    /\ \A i \in DOMAIN toWorker :
        toWorker[i].type = "PairStart" => Agreed(toWorker[i].epoch) \/ EndsAfter(i)

-----------------------------------------------------------------------------
(* Types *)

\* A message in the socket to the worker.
LEMMA MessageTypes ==
    ASSUME NEW m \in Message
    PROVE  /\ m.type \in {"PairStart", "PairStop", "PairCommitted", "Reply"}
           /\ m.type = "PairStart" => m.epoch \in Epoch
           /\ m.type = "Reply" => m.attempt \in Attempt /\ m.commit \in BOOLEAN /\ m.ok \in BOOLEAN
BY DEF Message

LEMMA ResultTypes ==
    ASSUME NEW r \in Result
    PROVE  r.attempt \in Attempt /\ r.epoch \in Epoch /\ r.key \in Host \cup {None}
BY DEF Result

\* What Sent adds.
LEMMA SentTypes ==
    ASSUME TypeOK, NEW messages \in Seq(Message), Sent(messages)
    PROVE  /\ toWorker' \in Seq(Message)
           /\ toWorker' = toWorker \/ toWorker' = toWorker \o messages
BY ConcatProperties DEF Sent, TypeOK

LEMMA ReplyTypes ==
    ASSUME NEW r \in Result, NEW ok \in BOOLEAN
    PROVE  /\ Reply(r, ok) \in Message /\ PairStop \in Message
           /\ [type |-> "PairCommitted"] \in Message
           /\ <<Reply(r, ok)>> \in Seq(Message)
           /\ <<PairStop, Reply(r, ok)>> \in Seq(Message)
           /\ <<[type |-> "PairCommitted"], Reply(r, ok)>> \in Seq(Message)
<1>1. Reply(r, ok) \in Message
  BY ResultTypes DEF Reply, Message
<1>2. PairStop \in Message /\ [type |-> "PairCommitted"] \in Message
  BY DEF PairStop, Message
<1>3. QED
  BY <1>1, <1>2

LEMMA HeadResult ==
    ASSUME TypeOK, toSup # <<>>
    PROVE  Head(toSup) \in Result /\ Tail(toSup) \in Seq(Result)
BY HeadTailProperties DEF TypeOK

LEMMA HeadMessage ==
    ASSUME TypeOK, toWorker # <<>>
    PROVE  Head(toWorker) \in Message /\ Tail(toWorker) \in Seq(Message)
BY HeadTailProperties DEF TypeOK

LEMMA WindowTypes ==
    ASSUME TypeOK, window # None
    PROVE  /\ window \in Window /\ window.failures \in Nat /\ window.failures < MaxFailures
           /\ window.expired \in BOOLEAN /\ window.epoch = epoch /\ window.epoch \in Nat
BY DEF TypeOK, Window

LEMMA InitTypes == Init => TypeOK /\ Sensible
<1> SUFFICES ASSUME Init PROVE TypeOK /\ Sensible
  OBVIOUS
<1>1. <<>> \in Seq(Result) /\ <<>> \in Seq(Message)
  BY EmptySeq
<1>2. 0 \in 0..MaxEpochs /\ 0 \in 0..MaxAttempts /\ 0 \in 0..epoch /\ 0 \in 0..accepted
  BY ConstantsAssumption DEF Init
<1>3. TypeOK
  BY <1>1, <1>2 DEF Init, TypeOK, Phases
<1>4. Sensible
  BY DEF Init, Sensible
<1>5. QED
  BY <1>3, <1>4

\* One message makes sense.
SensibleMessage(m, e, saved) ==
    /\ m.type = "PairStart" => m.epoch <= e
    /\ m.type = "Reply" /\ m.commit /\ m.ok => m.attempt \in saved

LEMMA OneOrTwo ==
    ASSUME NEW m, NEW n, NEW e, NEW saved,
           SensibleMessage(m, e, saved), SensibleMessage(n, e, saved)
    PROVE  /\ \A j \in DOMAIN <<n>> : SensibleMessage(<<n>>[j], e, saved)
           /\ \A j \in DOMAIN <<m, n>> : SensibleMessage(<<m, n>>[j], e, saved)
BY DEF SensibleMessage

\* Messages that make sense may be added to those that do.
LEMMA SentSensible ==
    ASSUME TypeOK, Sensible, NEW messages \in Seq(Message), Sent(messages),
           epoch' \in Nat, epoch <= epoch', committed \subseteq committed',
           \A j \in DOMAIN messages : SensibleMessage(messages[j], epoch', committed')
    PROVE  \A i \in DOMAIN toWorker' : SensibleMessage(toWorker'[i], epoch', committed')
<1>1. \A i \in DOMAIN toWorker : SensibleMessage(toWorker[i], epoch, committed) /\ toWorker[i] \in Message
  BY ElementOfSeq, LenProperties DEF TypeOK, Sensible, SensibleMessage
<1>2. \A m \in Message :
        SensibleMessage(m, epoch, committed) => SensibleMessage(m, epoch', committed')
  BY MessageTypes DEF SensibleMessage, Epoch, TypeOK
<1>3. CASE toWorker' = toWorker
  BY <1>1, <1>2, <1>3 DEF SensibleMessage
<1>4. CASE toWorker' = toWorker \o messages
  <2> SUFFICES ASSUME NEW i \in DOMAIN toWorker' PROVE SensibleMessage(toWorker'[i], epoch', committed')
    OBVIOUS
  <2>1. /\ Len(toWorker') = Len(toWorker) + Len(messages)
        /\ \A k \in 1..Len(toWorker') :
              toWorker'[k] = IF k <= Len(toWorker) THEN toWorker[k] ELSE messages[k - Len(toWorker)]
    BY <1>4, ConcatProperties DEF TypeOK
  <2>2. i \in 1..Len(toWorker') /\ Len(toWorker) \in Nat /\ Len(messages) \in Nat
    BY SentTypes, LenProperties DEF TypeOK
  <2>3. CASE i <= Len(toWorker)
    <3>1. i \in DOMAIN toWorker /\ toWorker'[i] = toWorker[i]
      BY <2>1, <2>2, <2>3, LenProperties DEF TypeOK
    <3>2. QED
      BY <3>1, <1>1, <1>2 DEF SensibleMessage
  <2>4. CASE ~(i <= Len(toWorker))
    <3>1. i - Len(toWorker) \in DOMAIN messages /\ toWorker'[i] = messages[i - Len(toWorker)]
      BY <2>1, <2>2, <2>4, LenProperties
    <3>2. QED
      BY <3>1 DEF SensibleMessage
  <2>5. QED
    BY <2>3, <2>4
<1>5. QED
  BY <1>3, <1>4, SentTypes

\* The rest of a queue.
LEMMA TailPlaces ==
    ASSUME NEW S, NEW q \in Seq(S), q # <<>>
    PROVE  /\ Tail(q) \in Seq(S) /\ Head(q) = q[1] /\ 1 \in DOMAIN q /\ Head(q) \in S
           /\ \A i \in DOMAIN Tail(q) : i \in Nat \ {0} /\ i + 1 \in DOMAIN q /\ Tail(q)[i] = q[i + 1]
           /\ \A i \in DOMAIN q : i \in Nat \ {0} /\ (i > 1 => i - 1 \in DOMAIN Tail(q))
BY HeadTailProperties, LenProperties, EmptySeq

\* The supervisor's steps that need no result.
LEMMA WindowSteps ==
    ASSUME TypeOK, Sensible,
           \/ OpenWindow
           \/ ExpireWindow
           \/ CloseWindow
           \/ \E h \in Host : Revoke(h)
    PROVE  TypeOK' /\ Sensible'
<1>0. epoch \in Nat /\ epoch <= epoch
  BY ConstantsAssumption DEF TypeOK
<1>s. PairStop \in Message /\ <<PairStop>> \in Seq(Message)
  BY DEF PairStop, Message
<1>1. CASE ExpireWindow
  <2>1. window' \in Window /\ window'.epoch = epoch /\ window'.failures < MaxFailures
    BY <1>1, WindowTypes DEF ExpireWindow, Window
  <2>2. QED
    BY <1>1, <2>1 DEF ExpireWindow, TypeOK, Sensible, mainVars, threadVars
<1>2. CASE CloseWindow
  <2>1. toWorker' \in Seq(Message)
    BY <1>s, <1>2, SentTypes DEF CloseWindow
  <2>2. \A i \in DOMAIN toWorker' : SensibleMessage(toWorker'[i], epoch', committed')
    <3>1. \A j \in DOMAIN <<PairStop>> : SensibleMessage(<<PairStop>>[j], epoch', committed')
      BY DEF SensibleMessage, PairStop
    <3>2. QED
      BY <1>0, <1>s, <1>2, <3>1, SentSensible DEF CloseWindow, history
  <2>3. QED
    BY <1>2, <2>1, <2>2
       DEF CloseWindow, TypeOK, Sensible, SensibleMessage, mainVars, threadVars, history, Sent
<1>3. CASE OpenWindow
  <2>1. CASE window' = None /\ Sent(<<PairStop>>) /\ UNCHANGED epoch /\ Fault
    <3>1. toWorker' \in Seq(Message)
      BY <1>s, <2>1, SentTypes
    <3>2. \A i \in DOMAIN toWorker' : SensibleMessage(toWorker'[i], epoch', committed')
      <4>1. \A j \in DOMAIN <<PairStop>> : SensibleMessage(<<PairStop>>[j], epoch', committed')
        BY DEF SensibleMessage, PairStop
      <4>2. QED
        BY <1>0, <1>s, <1>3, <2>1, <4>1, SentSensible DEF OpenWindow, history
    <3>3. TypeOK'
      BY <1>3, <2>1, <3>1 DEF OpenWindow, Fault, TypeOK, mainVars, threadVars, history
    <3>4. Sensible'
      BY <1>3, <2>1, <3>2
         DEF OpenWindow, Sensible, SensibleMessage, mainVars, threadVars, history, Sent
    <3>5. QED
      BY <3>3, <3>4
  <2>2. CASE /\ alive /\ epoch < MaxEpochs
             /\ epoch' = epoch + 1
             /\ window' = [epoch |-> epoch + 1, failures |-> 0, expired |-> FALSE, noticed |-> FALSE]
             /\ UNCHANGED faults
             /\ Sent(<<PairStop, [type |-> "PairStart", epoch |-> epoch + 1]>>)
    <3> DEFINE start == [type |-> "PairStart", epoch |-> epoch + 1]
    <3>1. epoch + 1 \in Epoch /\ epoch + 1 \in 0..MaxEpochs
      BY <1>0, <2>2, ConstantsAssumption DEF Epoch
    <3>2. start \in Message /\ <<PairStop, start>> \in Seq(Message)
      BY <1>s, <3>1 DEF Message
    <3>3. toWorker' \in Seq(Message)
      BY <2>2, <3>2, SentTypes
    <3>4. \A i \in DOMAIN toWorker' : SensibleMessage(toWorker'[i], epoch', committed')
      <4>1. SensibleMessage(PairStop, epoch', committed')
        BY DEF SensibleMessage, PairStop
      <4>2. SensibleMessage(start, epoch', committed')
        BY <1>0, <2>2 DEF SensibleMessage
      <4>3. epoch' \in Nat /\ epoch <= epoch' /\ committed' = committed
        BY <1>0, <1>3, <2>2 DEF OpenWindow, history
      <4>4. \A j \in DOMAIN <<PairStop, start>> : SensibleMessage(<<PairStop, start>>[j], epoch', committed')
        BY <4>1, <4>2 DEF SensibleMessage
      <4>5. QED
        BY <2>2, <3>2, <4>3, <4>4, SentSensible
    <3>5. window' \in Window /\ window'.epoch = epoch' /\ window'.failures < MaxFailures
      BY <1>0, <2>2, ConstantsAssumption DEF Window
    <3>6. served' \in 0..epoch' /\ of' \in [Attempt -> 0..epoch']
      BY <1>0, <1>3, <2>2 DEF OpenWindow, TypeOK, mainVars, threadVars
    <3>7. TypeOK'
      BY <1>3, <2>2, <3>1, <3>3, <3>5, <3>6
         DEF OpenWindow, TypeOK, mainVars, threadVars, history
    <3>8. Sensible'
      BY <1>3, <2>2, <3>4
         DEF OpenWindow, Sensible, SensibleMessage, mainVars, threadVars, history
    <3>9. QED
      BY <3>7, <3>8
  <2>3. QED
    BY <1>3, <2>1, <2>2 DEF OpenWindow
<1>4. ASSUME NEW h \in Host, Revoke(h) PROVE TypeOK' /\ Sensible'
  BY <1>4 DEF Revoke, Fault, TypeOK, Sensible, mainVars, threadVars, history
<1>5. QED
  BY <1>1, <1>2, <1>3, <1>4

\* A result is answered, and the answer makes sense.
LEMMA ResultSteps ==
    ASSUME TypeOK, Sensible, HandleResult
    PROVE  TypeOK' /\ Sensible'
<1> DEFINE r == Head(toSup)
<1>1. r \in Result /\ toSup' \in Seq(Result) /\ r.attempt \in Attempt
  BY HeadResult, ResultTypes DEF HandleResult
<1>2. epoch \in Nat /\ epoch <= epoch /\ epoch' = epoch
  BY ConstantsAssumption DEF TypeOK, HandleResult
<1>3. \A i \in DOMAIN toSup' : toSup'[i].attempt <= accepted' /\ toSup'[i].epoch = of'[toSup'[i].attempt]
  BY TailPlaces DEF HandleResult, TypeOK, Sensible, threadVars
<1>4. /\ committed' \in SUBSET Attempt /\ committed \subseteq committed'
      /\ hosts' \in SUBSET Host
      /\ window' \in Window \cup {None}
      /\ window' # None => window'.epoch = epoch /\ window'.failures < MaxFailures
      /\ toWorker' \in Seq(Message)
      /\ \A i \in DOMAIN toWorker' : SensibleMessage(toWorker'[i], epoch', committed')
      /\ ~alive => toWorker' = toWorker
  <2>1. CASE RefuseResult(r)
    <3>1. \A j \in DOMAIN <<Reply(r, FALSE)>> :
            SensibleMessage(<<Reply(r, FALSE)>>[j], epoch', committed')
      BY DEF SensibleMessage, Reply
    <3>2. <<Reply(r, FALSE)>> \in Seq(Message) /\ Sent(<<Reply(r, FALSE)>>)
      BY <1>1, <2>1, ReplyTypes DEF RefuseResult
    <3>3. window' \in Window \cup {None}
      BY <2>1, WindowTypes DEF RefuseResult, TypeOK, Window
    <3>4. window' # None => window'.epoch = epoch /\ window'.failures < MaxFailures
      BY <2>1, WindowTypes DEF RefuseResult, TypeOK, Window
    <3>5. UNCHANGED <<hosts, committed>>
      BY <2>1 DEF RefuseResult
    <3>6. \A i \in DOMAIN toWorker' : SensibleMessage(toWorker'[i], epoch', committed')
      BY <1>2, <3>1, <3>2, <3>5, SentSensible
    <3>7. QED
      BY <3>2, <3>3, <3>4, <3>5, <3>6, SentTypes DEF Sent, TypeOK
  <2>2. CASE CommitResult(r)
    <3> DEFINE messages == <<[type |-> "PairCommitted"], Reply(r, TRUE)>>
    <3>1. messages \in Seq(Message) /\ Sent(messages)
      BY <1>1, <2>2, ReplyTypes DEF CommitResult
    <3>2. committed' = committed \cup {r.attempt} /\ window' = None /\ hosts' \in SUBSET Host
      BY <1>1, <2>2, ResultTypes DEF CommitResult, TypeOK
    <3>3. \A j \in DOMAIN messages : SensibleMessage(messages[j], epoch', committed')
      BY <3>2 DEF SensibleMessage, Reply
    <3>4. \A i \in DOMAIN toWorker' : SensibleMessage(toWorker'[i], epoch', committed')
      <4> HIDE DEF messages
      <4>1. QED
        BY <1>2, <3>1, <3>2, <3>3, SentSensible
    <3>5. QED
      BY <1>1, <3>1, <3>2, <3>4, SentTypes DEF Sent, TypeOK
  <2>3. CASE CountResult(r)
    <3>0. Accepts(r) /\ r.key = None /\ UNCHANGED <<hosts, committed>>
      BY <2>3 DEF CountResult
    <3>1. PICK messages \in {<<PairStop, Reply(r, TRUE)>>, <<Reply(r, TRUE)>>} :
            /\ Sent(messages)
            /\ \/ window' = None
               \/ window.failures + 1 < MaxFailures /\ window' = [window EXCEPT !.failures = @ + 1]
      <4>1. window.failures \in Nat /\ MaxFailures \in Nat
        BY <3>0, WindowTypes, ConstantsAssumption DEF Accepts
      <4>2. QED
        BY <2>3, <4>1 DEF CountResult
    <3>2. messages \in Seq(Message)
      BY <1>1, ReplyTypes
    <3>3. \A j \in DOMAIN messages : SensibleMessage(messages[j], epoch', committed')
      <4>1. SensibleMessage(Reply(r, TRUE), epoch', committed')
        BY <3>0 DEF SensibleMessage, Reply
      <4>2. SensibleMessage(PairStop, epoch', committed')
        BY DEF SensibleMessage, PairStop
      <4>3. /\ \A j \in DOMAIN <<Reply(r, TRUE)>> :
                    SensibleMessage(<<Reply(r, TRUE)>>[j], epoch', committed')
            /\ \A j \in DOMAIN <<PairStop, Reply(r, TRUE)>> :
                    SensibleMessage(<<PairStop, Reply(r, TRUE)>>[j], epoch', committed')
        BY <4>1, <4>2, OneOrTwo
      <4>4. QED
        BY <3>1, <4>3
    <3>4. window' \in Window \cup {None}
      BY <3>0, <3>1, WindowTypes DEF Window, Accepts
    <3>5. window' # None => window'.epoch = epoch /\ window'.failures < MaxFailures
      BY <3>0, <3>1, WindowTypes DEF Window, Accepts
    <3>6. \A i \in DOMAIN toWorker' : SensibleMessage(toWorker'[i], epoch', committed')
      BY <1>2, <3>0, <3>1, <3>2, <3>3, SentSensible
    <3>7. QED
      BY <3>0, <3>1, <3>2, <3>4, <3>5, <3>6, SentTypes DEF Sent, TypeOK
  <2>4. QED
    BY <2>1, <2>2, <2>3 DEF HandleResult
<1>5. TypeOK'
  BY <1>1, <1>4 DEF HandleResult, TypeOK, mainVars, threadVars
<1>6. Sensible'
  BY <1>3, <1>4 DEF HandleResult, Sensible, SensibleMessage, mainVars, threadVars
<1>7. QED
  BY <1>5, <1>6

\* A new worker, or none.
LEMMA WorkerSteps ==
    ASSUME TypeOK, Sensible, ReplaceWorker \/ WorkerDies
    PROVE  TypeOK' /\ Sensible'
<1>1. <<>> \in Seq(Result) /\ <<>> \in Seq(Message)
  BY EmptySeq
<1>2. NoWorker /\ UNCHANGED <<hosts, epoch, history>> /\ alive' \in BOOLEAN
  BY DEF ReplaceWorker, WorkerDies, supVars, history
<1>f. faults' \in Nat
  BY DEF ReplaceWorker, WorkerDies, Fault, TypeOK
<1>3. (toSup' = <<>> \/ toSup' = toSup) /\ (window' = None \/ window' = window)
  BY DEF ReplaceWorker, WorkerDies, supVars
<1>4. served' \in 0..epoch /\ active' \in 0..accepted /\ phase' \in [Attempt -> Phases]
      /\ answer' \in [Attempt -> {"none", "ok", "refused"}]
  BY <1>2, ConstantsAssumption DEF NoWorker, TypeOK, Phases
<1>5. TypeOK'
  BY <1>1, <1>2, <1>f, <1>3, <1>4 DEF NoWorker, TypeOK, history
<1>6. Sensible'
  BY <1>2, <1>3 DEF NoWorker, Sensible, history
<1>7. QED
  BY <1>5, <1>6

\* The worker's main thread takes a message.
LEMMA ReceiveSteps ==
    ASSUME TypeOK, Sensible, Receive
    PROVE  TypeOK' /\ Sensible'
<1> DEFINE m == Head(toWorker)
<1>1. m \in Message /\ toWorker' \in Seq(Message) /\ toWorker # <<>>
  BY HeadMessage DEF Receive
<1>2. UNCHANGED <<supVars, alive, accepted, of, phase, toSup, history, faults>>
  BY DEF Receive
<1>3. SensibleMessage(m, epoch, committed)
  BY <1>1, TailPlaces DEF Sensible, SensibleMessage, TypeOK
<1>4. \A i \in DOMAIN toWorker' : SensibleMessage(toWorker'[i], epoch, committed)
  BY <1>1, TailPlaces DEF Receive, Sensible, SensibleMessage, TypeOK
<1>5. /\ served' \in 0..epoch /\ listening' \in BOOLEAN /\ active' \in 0..accepted
      /\ answer' \in [Attempt -> {"none", "ok", "refused"}]
      /\ cut' \in SUBSET Attempt
      /\ listening' => served' # 0
  <2>1. CASE ReceiveStart(m)
    <3>1. m.epoch \in 0..epoch /\ 0 \in 0..accepted /\ m.epoch # 0
      BY <1>1, <1>3, <2>1, MessageTypes, ConstantsAssumption
         DEF ReceiveStart, SensibleMessage, Epoch, TypeOK
    <3>2. QED
      BY <2>1, <3>1 DEF ReceiveStart, DropWindow, Running, TypeOK
  <2>2. CASE ReceiveStop(m)
    <3>1. 0 \in 0..epoch /\ 0 \in 0..accepted
      BY ConstantsAssumption DEF TypeOK
    <3>2. QED
      BY <2>2, <3>1 DEF ReceiveStop, DropWindow, Running, TypeOK
  <2>3. CASE ReceiveCommitted(m)
    BY <2>3 DEF ReceiveCommitted, TypeOK
  <2>4. CASE ReceiveReply(m)
    <3>1. answer' \in [Attempt -> {"none", "ok", "refused"}]
      BY <1>1, <2>4, MessageTypes DEF ReceiveReply, TypeOK
    <3>2. QED
      BY <2>4, <3>1 DEF ReceiveReply, TypeOK, Sensible
  <2>5. QED
    BY <2>1, <2>2, <2>3, <2>4 DEF Receive
<1>6. TypeOK'
  BY <1>1, <1>2, <1>5 DEF TypeOK, supVars, history
<1>7. alive
  BY <1>1 DEF Sensible
<1>8. Sensible'
  BY <1>2, <1>4, <1>5, <1>7 DEF Sensible, SensibleMessage, supVars, history
<1>9. QED
  BY <1>6, <1>8

\* The rest of the main thread.
LEMMA MainSteps ==
    ASSUME TypeOK, Sensible, AcceptAttempt \/ ReapAttempt \/ CutAttempt
    PROVE  TypeOK' /\ Sensible'
<1>1. CASE AcceptAttempt
  <2>1. accepted \in Nat /\ accepted' = accepted + 1 /\ accepted' \in Attempt /\ accepted' \in 0..MaxAttempts
    BY <1>1, ConstantsAssumption DEF AcceptAttempt, TypeOK, Attempt
  <2>2. of' \in [Attempt -> 0..epoch] /\ phase' \in [Attempt -> Phases] /\ active' \in 0..accepted'
    BY <1>1, <2>1 DEF AcceptAttempt, TypeOK, Phases
  <2>3. TypeOK'
    BY <1>1, <2>1, <2>2 DEF AcceptAttempt, TypeOK, supVars, history
  <2>4. \A i \in DOMAIN toSup : toSup[i].attempt \in Attempt /\ toSup[i].attempt <= accepted
    BY ResultTypes, ElementOfSeq, LenProperties DEF TypeOK, Sensible
  <2>5. \A a \in Attempt : a <= accepted => of'[a] = of[a]
    BY <1>1, <2>1 DEF AcceptAttempt, TypeOK, Attempt
  <2>6. \A i \in DOMAIN toSup : toSup[i].attempt <= accepted' /\ toSup[i].epoch = of'[toSup[i].attempt]
    BY <2>1, <2>4, <2>5 DEF Sensible, Attempt
  <2>7. \A a \in Attempt : IF a > accepted' THEN phase'[a] = "none" ELSE of'[a] # 0
    BY <1>1, <2>1 DEF AcceptAttempt, TypeOK, Sensible, Attempt
  <2>8. Sensible'
    BY <1>1, <2>6, <2>7 DEF AcceptAttempt, Sensible, supVars, history
  <2>9. QED
    BY <2>3, <2>8
<1>2. CASE ReapAttempt
  BY <1>2, ConstantsAssumption DEF ReapAttempt, TypeOK, Sensible, supVars, threadVars, history
<1>3. CASE CutAttempt
  BY <1>3 DEF CutAttempt, TypeOK, Sensible, Running, supVars, mainVars, history
<1>4. QED
  BY <1>1, <1>2, <1>3

\* A thread's step reports what makes sense.
LEMMA ProceedTypes ==
    ASSUME TypeOK, Sensible, NEW a \in Attempt, phase[a] # "none", NEW next \in Phases, NEW results,
           Proceed(a, next, results), told' \in SUBSET Attempt, late' \in BOOLEAN,
           \/ results = <<>>
           \/ \E k \in Host \cup {None} :
                results = <<[attempt |-> a, epoch |-> of[a], key |-> k]>>
    PROVE  TypeOK' /\ Sensible'
<1>a. a <= accepted /\ a \in Nat /\ of[a] \in Epoch
  BY ConstantsAssumption DEF Sensible, Attempt, TypeOK, Epoch
<1>1. results \in Seq(Result)
      /\ \A j \in DOMAIN results : results[j].attempt = a /\ results[j].epoch = of[a]
  <2>1. CASE results = <<>>
    BY <2>1
  <2>2. ASSUME NEW k \in Host \cup {None}, results = <<[attempt |-> a, epoch |-> of[a], key |-> k]>>
        PROVE  results \in Seq(Result)
               /\ \A j \in DOMAIN results : results[j].attempt = a /\ results[j].epoch = of[a]
    <3>1. [attempt |-> a, epoch |-> of[a], key |-> k] \in Result
      BY <1>a DEF Result
    <3>2. QED
      BY <2>2, <3>1
  <2>3. QED
    BY <2>1, <2>2
<1>2. /\ toSup' \in Seq(Result) /\ Len(toSup') = Len(toSup) + Len(results)
      /\ \A k \in 1..Len(toSup') :
            toSup'[k] = IF k <= Len(toSup) THEN toSup[k] ELSE results[k - Len(toSup)]
  BY <1>1, ConcatProperties DEF Proceed, TypeOK
<1>3. phase' \in [Attempt -> Phases] /\ answer' \in [Attempt -> {"none", "ok", "refused"}]
      /\ cut' \in SUBSET Attempt
  BY DEF Proceed, TypeOK
<1>4. UNCHANGED <<supVars, mainVars, accepted, of, toWorker, committed, faults>>
  BY DEF Proceed
<1>5. TypeOK'
  BY <1>2, <1>3, <1>4 DEF TypeOK, supVars, mainVars
<1>6. \A i \in DOMAIN toSup' : toSup'[i].attempt <= accepted /\ toSup'[i].epoch = of[toSup'[i].attempt]
  <2> SUFFICES ASSUME NEW i \in DOMAIN toSup'
               PROVE  toSup'[i].attempt <= accepted /\ toSup'[i].epoch = of[toSup'[i].attempt]
    OBVIOUS
  <2>1. i \in 1..Len(toSup') /\ Len(toSup) \in Nat /\ Len(results) \in Nat
    BY <1>1, <1>2, LenProperties DEF TypeOK
  <2>2. CASE i <= Len(toSup)
    <3>1. i \in DOMAIN toSup /\ toSup'[i] = toSup[i]
      BY <1>2, <2>1, <2>2, LenProperties DEF TypeOK
    <3>2. QED
      BY <3>1 DEF Sensible
  <2>3. CASE ~(i <= Len(toSup))
    <3>1. i - Len(toSup) \in DOMAIN results /\ toSup'[i] = results[i - Len(toSup)]
      BY <1>1, <1>2, <2>1, <2>3, LenProperties
    <3>2. QED
      BY <1>1, <1>a, <3>1
  <2>4. QED
    BY <2>2, <2>3
<1>7. \A b \in Attempt : IF b > accepted THEN phase'[b] = "none" ELSE of[b] # 0
  BY <1>a DEF Proceed, Sensible, TypeOK, Attempt
<1>8. Sensible'
  BY <1>4, <1>6, <1>7 DEF Sensible, supVars, mainVars
<1>9. QED
  BY <1>5, <1>8

\* A step of a thread, by its next phase and what it reports.
LEMMA ThreadSteps ==
    ASSUME TypeOK, Sensible, NEW a \in Attempt, Thread(a)
    PROVE  TypeOK' /\ Sensible'
<1>0. /\ told' \in SUBSET Attempt /\ late' \in BOOLEAN /\ phase[a] # "none"
  BY DEF Thread, Prove, Fail, CommitAnswered, Tell, TellFails, FailureAnswered, CallTimeout, TypeOK
<1>1. ASSUME NEW h \in Host, Prove(a, h) PROVE TypeOK' /\ Sensible'
  BY <1>0, <1>1, ProceedTypes DEF Prove, Phases
<1>2. ASSUME NEW next \in {"failing", "done", "telling"}, NEW results \in {<<>>, <<Failure(a)>>},
             Proceed(a, next, results)
      PROVE  TypeOK' /\ Sensible'
  <2>1. next \in Phases
    BY DEF Phases
  <2>2. CASE results = <<>>
    BY <1>0, <1>2, <2>1, <2>2, ProceedTypes
  <2>3. CASE results = <<Failure(a)>>
    BY <1>0, <1>2, <2>1, <2>3, ProceedTypes DEF Failure
  <2>4. QED
    BY <2>2, <2>3
<1>3. CASE ~ \E h \in Host : Prove(a, h)
  <2>1. \E next \in {"failing", "done", "telling"}, results \in {<<>>, <<Failure(a)>>} :
            Proceed(a, next, results)
    BY <1>3 DEF Thread, Fail, CommitAnswered, Tell, TellFails, FailureAnswered, CallTimeout
  <2>2. QED
    BY <1>2, <2>1
<1>4. QED
  BY <1>1, <1>3

LEMMA StepTypes == TypeOK /\ Sensible /\ [Next]_vars => TypeOK' /\ Sensible'
<1>1. ASSUME TypeOK, Sensible, UNCHANGED vars PROVE TypeOK' /\ Sensible'
  BY <1>1 DEF vars, supVars, mainVars, threadVars, history, TypeOK, Sensible
<1>2. QED
  BY <1>1, WindowSteps, ResultSteps, WorkerSteps, ReceiveSteps, MainSteps, ThreadSteps DEF Next

LEMMA SensibleHolds == Spec => [](TypeOK /\ Sensible)
BY InitTypes, StepTypes, PTL DEF Spec

\* Types, for any number of hosts, windows and attempts (daemon.rs:497).
THEOREM TypesHold == Spec => []TypeOK
BY SensibleHolds, PTL

-----------------------------------------------------------------------------
(* Success *)

\* What one thread does leaves the others as they were.
LEMMA OthersStay ==
    ASSUME TypeOK, Earned, NEW a \in Attempt, Thread(a)
    PROVE  Earned'
<1>1. committed' = committed
  BY DEF Thread, Prove, Fail, CommitAnswered, Tell, TellFails, FailureAnswered, CallTimeout, Proceed
<1>2. \A b \in Attempt \ {a} : phase'[b] = phase[b] /\ answer'[b] = answer[b]
  BY DEF Thread, Prove, Fail, CommitAnswered, Tell, TellFails, FailureAnswered, CallTimeout,
         Proceed, TypeOK
<1>3. answer'[a] = "none"
  BY DEF Thread, Prove, Fail, CommitAnswered, Tell, TellFails, FailureAnswered, CallTimeout,
         Proceed, TypeOK
<1>4. phase'[a] = "telling" => a \in committed
  BY DEF Thread, Prove, Fail, CommitAnswered, Tell, TellFails, FailureAnswered, CallTimeout,
         Proceed, TypeOK, Earned
<1>5. told' = told \/ (told' = told \cup {a} /\ phase[a] = "telling")
  BY DEF Thread, Prove, Fail, CommitAnswered, Tell, TellFails, FailureAnswered, CallTimeout
<1>6. QED
  BY <1>1, <1>2, <1>3, <1>4, <1>5 DEF Earned, ToldIsSaved

\* A reply that confirms a key finds the key saved.
LEMMA RepliesEarn ==
    ASSUME TypeOK, Sensible, Earned, Receive
    PROVE  Earned'
<1> DEFINE m == Head(toWorker)
<1>1. UNCHANGED <<phase, history>>
  BY DEF Receive
<1>2. m \in Message /\ SensibleMessage(m, epoch, committed)
  BY TailPlaces DEF Receive, Sensible, SensibleMessage, TypeOK
<1>3. \A a \in Attempt : answer'[a] = "ok" /\ phase[a] = "committing"
            => answer[a] = "ok" \/ a \in committed
  BY <1>2, MessageTypes DEF Receive, ReceiveStart, ReceiveStop, ReceiveCommitted, ReceiveReply,
     SensibleMessage, TypeOK
<1>4. QED
  BY <1>1, <1>3 DEF Earned, ToldIsSaved, history

LEMMA EarnedStep == TypeOK /\ Sensible /\ Earned /\ [Next]_vars => Earned'
<1> SUFFICES ASSUME TypeOK, Sensible, Earned, [Next]_vars PROVE Earned'
  OBVIOUS
<1>1. CASE HandleResult
  <2>1. committed \subseteq committed' /\ UNCHANGED <<phase, answer, told>>
    BY <1>1 DEF HandleResult, RefuseResult, CommitResult, CountResult, threadVars
  <2>2. QED
    BY <2>1 DEF Earned, ToldIsSaved
<1>2. CASE ReplaceWorker \/ WorkerDies
  <2>1. UNCHANGED history /\ \A a \in Attempt : phase'[a] \in {"none", "done"}
    BY <1>2 DEF ReplaceWorker, WorkerDies, NoWorker
  <2>2. QED
    BY <2>1 DEF Earned, ToldIsSaved, history
<1>3. CASE AcceptAttempt
  BY <1>3 DEF AcceptAttempt, Earned, ToldIsSaved, history, TypeOK
<1>4. CASE OpenWindow \/ ExpireWindow \/ CloseWindow \/ ReapAttempt \/ CutAttempt
           \/ (\E h \in Host : Revoke(h)) \/ UNCHANGED vars
  BY <1>4 DEF OpenWindow, ExpireWindow, CloseWindow, ReapAttempt, CutAttempt, Revoke, vars,
     threadVars, history, Earned, ToldIsSaved
<1>5. QED
  BY <1>1, <1>2, <1>3, <1>4, OthersStay, RepliesEarn DEF Next

\* Nobody is told of success whose key is not saved, however calls time out and replies
\* come late (pairing.rs:62, daemon.rs:515).
THEOREM SuccessIsSaved == Spec => []ToldIsSaved
<1>1. Init => Earned
  BY DEF Init, Earned, ToldIsSaved
<1>2. QED
  BY <1>1, EarnedStep, SensibleHolds, PTL DEF Spec, Earned

\* A key is saved only for the window its attempt was accepted in, while that is open
\* (daemon.rs:505).
THEOREM CodesDieWithWindows == Spec => StaleCodesRefused
<1>1. ASSUME TypeOK, Sensible, [Next]_vars
      PROVE  [\A a \in committed' \ committed :
                window # None /\ of[a] = window.epoch /\ ~window.expired]_vars
  <2> SUFFICES ASSUME NEW a \in committed' \ committed
               PROVE  window # None /\ of[a] = window.epoch /\ ~window.expired
    OBVIOUS
  <2>1. HandleResult
    BY <1>1 DEF Next, vars, history, OpenWindow, ExpireWindow, CloseWindow, Revoke, ReplaceWorker,
       WorkerDies, Receive, AcceptAttempt, ReapAttempt, CutAttempt, Thread, Prove, Fail,
       CommitAnswered, Tell, TellFails, FailureAnswered, CallTimeout, Proceed
  <2>2. CommitResult(Head(toSup)) /\ a = Head(toSup).attempt
    BY <2>1 DEF HandleResult, RefuseResult, CommitResult, CountResult
  <2>3. Head(toSup).epoch = of[Head(toSup).attempt]
    BY <1>1, <2>1, TailPlaces DEF HandleResult, Sensible, TypeOK
  <2>4. QED
    BY <2>2, <2>3 DEF CommitResult, Accepts
<1>2. QED
  BY <1>1, SensibleHolds, PTL DEF StaleCodesRefused, Spec

-----------------------------------------------------------------------------
(* The windows of both sides *)

\* Messages that are added end nothing later than what was there ended.
LEMMA EndsStay ==
    ASSUME TypeOK, NEW messages \in Seq(Message), toWorker' = toWorker \o messages,
           NEW k \in Nat
    PROVE  /\ EndsAfter(k) => EndsAfter(k)'
           /\ k <= Len(toWorker)
              /\ (\E j \in DOMAIN messages : messages[j].type \in {"PairStop", "PairCommitted"})
              => EndsAfter(k)'
<1>1. /\ Len(toWorker) \in Nat /\ DOMAIN toWorker = 1..Len(toWorker)
      /\ Len(messages) \in Nat /\ DOMAIN messages = 1..Len(messages)
      /\ DOMAIN toWorker' = 1..(Len(toWorker) + Len(messages))
      /\ \A i \in 1..(Len(toWorker) + Len(messages)) :
            toWorker'[i] = IF i <= Len(toWorker) THEN toWorker[i] ELSE messages[i - Len(toWorker)]
  BY ConcatProperties, LenProperties DEF TypeOK
<1>2. EndsAfter(k) => EndsAfter(k)'
  BY <1>1 DEF EndsAfter
<1>3. ASSUME k <= Len(toWorker), NEW j \in DOMAIN messages,
             messages[j].type \in {"PairStop", "PairCommitted"}
      PROVE  EndsAfter(k)'
  <2>1. /\ Len(toWorker) + j \in DOMAIN toWorker' /\ Len(toWorker) + j > k
        /\ toWorker'[Len(toWorker) + j] = messages[j]
    BY <1>1, <1>3
  <2>2. QED
    BY <1>3, <2>1 DEF EndsAfter
<1>4. QED
  BY <1>2, <1>3

\* What the supervisor sends keeps the agreement: it keeps its window, or ends the
\* worker's, and announces the window that it has.
LEMMA SentAgreement ==
    ASSUME TypeOK, Sensible, Agreement, NEW messages \in Seq(Message), Sent(messages),
           UNCHANGED <<served, listening>>,
           \A j \in DOMAIN messages : messages[j].type = "PairStart" => Agreed(messages[j].epoch)',
           \/ window # None => window' # None /\ window'.epoch = window.epoch
           \/ \E j \in DOMAIN messages : messages[j].type \in {"PairStop", "PairCommitted"}
    PROVE  Agreement'
<1>1. CASE ~alive
  BY <1>1 DEF Sent, Sensible, Agreement
<1>2. CASE alive
  <2>1. toWorker' = toWorker \o messages
    BY <1>2 DEF Sent
  <2>2. /\ Len(toWorker) \in Nat /\ DOMAIN toWorker = 1..Len(toWorker)
        /\ Len(messages) \in Nat /\ DOMAIN messages = 1..Len(messages)
        /\ DOMAIN toWorker' = 1..(Len(toWorker) + Len(messages))
        /\ \A i \in 1..(Len(toWorker) + Len(messages)) :
              toWorker'[i] = IF i <= Len(toWorker) THEN toWorker[i] ELSE messages[i - Len(toWorker)]
    BY <2>1, ConcatProperties, LenProperties DEF TypeOK
  <2>3. ASSUME NEW e, NEW k \in 0..Len(toWorker), Agreed(e) \/ EndsAfter(k)
        PROVE  Agreed(e)' \/ EndsAfter(k)'
    <3>1. k \in Nat /\ k <= Len(toWorker)
      BY <2>2
    <3>2. CASE EndsAfter(k)
      BY <2>1, <3>1, <3>2, EndsStay
    <3>3. CASE \E j \in DOMAIN messages : messages[j].type \in {"PairStop", "PairCommitted"}
      BY <2>1, <3>1, <3>3, EndsStay
    <3>4. CASE Agreed(e) /\ (window # None => window' # None /\ window'.epoch = window.epoch)
      BY <3>4 DEF Agreed
    <3>5. QED
      BY <2>3, <3>2, <3>3, <3>4
  <2>4. listening' => Agreed(served)' \/ EndsAfter(0)'
    <3>1. listening => Agreed(served) \/ EndsAfter(0)
      BY DEF Agreement
    <3>2. 0 \in 0..Len(toWorker)
      BY <2>2
    <3>3. listening => Agreed(served)' \/ EndsAfter(0)'
      BY <2>3, <3>1, <3>2 DEF Agreed
    <3>4. QED
      BY <3>3
  <2>5. ASSUME NEW i \in DOMAIN toWorker', toWorker'[i].type = "PairStart"
        PROVE  Agreed(toWorker[i].epoch)' \/ EndsAfter(i)'
    <3>1. CASE i <= Len(toWorker)
      <4>1. i \in DOMAIN toWorker /\ toWorker'[i] = toWorker[i] /\ i \in 0..Len(toWorker)
        BY <2>2, <3>1
      <4>2. Agreed(toWorker[i].epoch) \/ EndsAfter(i)
        BY <2>5, <4>1 DEF Agreement
      <4>3. \A e : e = toWorker[i].epoch => Agreed(e)' \/ EndsAfter(i)'
        BY <2>3, <4>1, <4>2
      <4>4. QED
        BY <4>1, <4>3 DEF Agreed
    <3>2. CASE ~(i <= Len(toWorker))
      <4>1. i - Len(toWorker) \in DOMAIN messages /\ toWorker'[i] = messages[i - Len(toWorker)]
        BY <2>2, <3>2
      <4>2. QED
        BY <2>5, <4>1 DEF Agreed
    <3>3. QED
      BY <3>1, <3>2
  <2>6. QED
    BY <2>4, <2>5 DEF Agreement
<1>3. QED
  BY <1>1, <1>2 DEF TypeOK

LEMMA SupervisorAgreement ==
    ASSUME TypeOK, Sensible, Agreement, OpenWindow \/ CloseWindow \/ HandleResult
    PROVE  Agreement'
<1>1. UNCHANGED <<served, listening>>
  BY DEF OpenWindow, CloseWindow, HandleResult, mainVars
<1>2. CASE CloseWindow
  <2>1. Sent(<<PairStop>>) /\ <<PairStop>> \in Seq(Message)
    BY <1>2 DEF CloseWindow, PairStop, Message
  <2>2. /\ \A j \in DOMAIN <<PairStop>> : <<PairStop>>[j].type # "PairStart"
        /\ 1 \in DOMAIN <<PairStop>> /\ <<PairStop>>[1].type = "PairStop"
    BY DEF PairStop
  <2>3. QED
    BY <1>1, <2>1, <2>2, SentAgreement
<1>3. CASE OpenWindow
  <2>1. CASE Sent(<<PairStop>>)
    <3>1. <<PairStop>> \in Seq(Message)
      BY DEF PairStop, Message
    <3>2. /\ \A j \in DOMAIN <<PairStop>> : <<PairStop>>[j].type # "PairStart"
          /\ 1 \in DOMAIN <<PairStop>> /\ <<PairStop>>[1].type = "PairStop"
      BY DEF PairStop
    <3>3. QED
      BY <1>1, <2>1, <3>1, <3>2, SentAgreement
  <2>2. ASSUME epoch < MaxEpochs,
               NEW messages, messages = <<PairStop, [type |-> "PairStart", epoch |-> epoch + 1]>>,
               Sent(messages),
               window' = [epoch |-> epoch + 1, failures |-> 0, expired |-> FALSE, noticed |-> FALSE]
        PROVE  Agreement'
    <3>1. messages \in Seq(Message)
      <4>1. epoch + 1 \in Epoch
        BY <2>2, ConstantsAssumption DEF Epoch, TypeOK
      <4>2. QED
        BY <2>2, <4>1 DEF PairStop, Message
    <3>2. /\ DOMAIN messages = 1..2 /\ messages[1] = PairStop /\ messages[1].type = "PairStop"
          /\ messages[2].epoch = epoch + 1
      BY <2>2 DEF PairStop
    <3>3. window' # None /\ window'.epoch = epoch + 1
      <4>1. window' \in Window
        BY <2>2, ConstantsAssumption DEF Window, TypeOK
      <4>2. QED
        BY <2>2, <4>1, ConstantsAssumption
    <3>4. \A j \in DOMAIN messages : messages[j].type = "PairStart" => Agreed(messages[j].epoch)'
      BY <3>2, <3>3 DEF Agreed
    <3>5. \E j \in DOMAIN messages : messages[j].type \in {"PairStop", "PairCommitted"}
      BY <3>2
    <3>6. Sent(messages)
      BY <2>2
    <3>7. QED
      BY <1>1, <3>1, <3>4, <3>5, <3>6, SentAgreement
  <2>3. QED
    BY <1>3, <2>1, <2>2 DEF OpenWindow
<1>4. CASE HandleResult
  <2> DEFINE r == Head(toSup)
  <2>1. r \in Result
    BY <1>4, HeadResult DEF HandleResult
  <2>2. CASE RefuseResult(r)
    <3>1. Sent(<<Reply(r, FALSE)>>) /\ <<Reply(r, FALSE)>> \in Seq(Message)
      BY <2>1, <2>2, ReplyTypes DEF RefuseResult
    <3>2. window # None => window' # None /\ window'.epoch = window.epoch
      BY <2>2, WindowTypes, ConstantsAssumption DEF RefuseResult, Window
    <3>3. \A j \in DOMAIN <<Reply(r, FALSE)>> : <<Reply(r, FALSE)>>[j].type # "PairStart"
      BY DEF Reply
    <3>4. QED
      BY <1>1, <3>1, <3>2, <3>3, SentAgreement
  <2>3. ASSUME NEW m \in {PairStop, [type |-> "PairCommitted"]}, Sent(<<m, Reply(r, TRUE)>>)
        PROVE  Agreement'
    <3>1. <<m, Reply(r, TRUE)>> \in Seq(Message)
      BY <2>1, ReplyTypes
    <3>2. m.type \in {"PairStop", "PairCommitted"} /\ Reply(r, TRUE).type = "Reply"
      BY DEF PairStop, Reply
    <3>3. /\ \A j \in DOMAIN <<m, Reply(r, TRUE)>> : <<m, Reply(r, TRUE)>>[j].type # "PairStart"
          /\ 1 \in DOMAIN <<m, Reply(r, TRUE)>> /\ <<m, Reply(r, TRUE)>>[1] = m
      BY DEF Reply, PairStop
    <3>4. QED
      BY <1>1, <2>3, <3>1, <3>2, <3>3, SentAgreement
  <2>4. CASE CommitResult(r)
    BY <2>3, <2>4 DEF CommitResult
  <2>5. CASE CountResult(r)
    <3>1. CASE Sent(<<PairStop, Reply(r, TRUE)>>)
      BY <2>3, <3>1
    <3>2. CASE Sent(<<Reply(r, TRUE)>>) /\ window' = [window EXCEPT !.failures = @ + 1]
      <4>1. <<Reply(r, TRUE)>> \in Seq(Message)
        BY <2>1, ReplyTypes
      <4>2. window' # None /\ window'.epoch = window.epoch
        <5>1. window' \in Window /\ window'.epoch = window.epoch
          BY <2>5, <3>2, WindowTypes DEF CountResult, Accepts, Window
        <5>2. QED
          BY <5>1, ConstantsAssumption
      <4>3. \A j \in DOMAIN <<Reply(r, TRUE)>> : <<Reply(r, TRUE)>>[j].type # "PairStart"
        BY DEF Reply
      <4>4. QED
        BY <1>1, <3>2, <4>1, <4>2, <4>3, SentAgreement
    <3>3. QED
      BY <2>5, <3>1, <3>2 DEF CountResult
  <2>6. QED
    BY <1>4, <2>2, <2>4, <2>5 DEF HandleResult
<1>5. QED
  BY <1>2, <1>3, <1>4

\* The worker takes its messages in order.
LEMMA ReceiveAgreement ==
    ASSUME TypeOK, Sensible, Agreement, Receive
    PROVE  Agreement'
<1>1. /\ toWorker # <<>> /\ toWorker' = Tail(toWorker)
      /\ UNCHANGED window
  BY DEF Receive, supVars
<1>2. /\ Head(toWorker) = toWorker[1] /\ 1 \in DOMAIN toWorker
      /\ \A i \in DOMAIN toWorker' :
            i \in Nat \ {0} /\ i + 1 \in DOMAIN toWorker /\ toWorker'[i] = toWorker[i + 1]
      /\ \A i \in DOMAIN toWorker : i \in Nat \ {0} /\ (i > 1 => i - 1 \in DOMAIN toWorker')
  BY <1>1, TailPlaces DEF TypeOK
<1>3. ASSUME NEW k \in Nat, EndsAfter(k + 1)
      PROVE  EndsAfter(k)'
  <2>1. PICK i \in DOMAIN toWorker : i > k + 1 /\ toWorker[i].type \in {"PairStop", "PairCommitted"}
    BY <1>3 DEF EndsAfter
  <2>2. i - 1 \in DOMAIN toWorker' /\ i - 1 > k /\ toWorker'[i - 1] = toWorker[i]
    BY <1>2, <2>1
  <2>3. QED
    BY <2>1, <2>2 DEF EndsAfter
<1>4. ASSUME NEW i \in DOMAIN toWorker', toWorker'[i].type = "PairStart"
      PROVE  Agreed(toWorker[i].epoch)' \/ EndsAfter(i)'
  <2>1. i + 1 \in DOMAIN toWorker /\ toWorker'[i] = toWorker[i + 1] /\ i \in Nat
    BY <1>2
  <2>2. Agreed(toWorker[i + 1].epoch) \/ EndsAfter(i + 1)
    BY <1>4, <2>1 DEF Agreement
  <2>3. QED
    BY <1>1, <1>3, <2>1, <2>2 DEF Agreed
<1>5. listening' => Agreed(served)' \/ EndsAfter(0)'
  <2>1. CASE ReceiveStart(Head(toWorker))
    <3>1. Agreed(served') \/ EndsAfter(1)
      BY <1>2, <2>1 DEF ReceiveStart, Agreement
    <3>2. EndsAfter(1) => EndsAfter(0)'
      BY <1>3
    <3>3. QED
      BY <1>1, <3>1, <3>2 DEF Agreed
  <2>2. CASE ReceiveStop(Head(toWorker)) \/ ReceiveCommitted(Head(toWorker))
    BY <2>2 DEF ReceiveStop, ReceiveCommitted
  <2>3. CASE ReceiveReply(Head(toWorker))
    <3>1. EndsAfter(0) => EndsAfter(1)
      BY <1>2, <2>3 DEF ReceiveReply, EndsAfter
    <3>2. EndsAfter(1) => EndsAfter(0)'
      BY <1>3
    <3>3. QED
      BY <1>1, <2>3, <3>1, <3>2 DEF ReceiveReply, Agreement, Agreed
  <2>4. QED
    BY <2>1, <2>2, <2>3 DEF Receive
<1>6. QED
  BY <1>4, <1>5 DEF Agreement

LEMMA AgreementStep == TypeOK /\ Sensible /\ Agreement /\ [Next]_vars => Agreement'
<1> SUFFICES ASSUME TypeOK, Sensible, Agreement, [Next]_vars PROVE Agreement'
  OBVIOUS
<1>1. CASE ReplaceWorker \/ WorkerDies
  BY <1>1 DEF ReplaceWorker, WorkerDies, NoWorker, Agreement
<1>2. CASE ExpireWindow
  <2>1. UNCHANGED <<served, listening, toWorker>>
    BY <1>2 DEF ExpireWindow, mainVars
  <2>2. window' # None /\ window'.epoch = window.epoch
    <3>1. window' \in Window /\ window'.epoch = window.epoch
      BY <1>2, WindowTypes DEF ExpireWindow, Window
    <3>2. QED
      BY <3>1, ConstantsAssumption
  <2>3. QED
    BY <2>1, <2>2 DEF Agreement, Agreed, EndsAfter
<1>3. ASSUME UNCHANGED <<window, served, listening, toWorker>> PROVE Agreement'
  BY <1>3 DEF Agreement, Agreed, EndsAfter
<1>4. CASE AcceptAttempt \/ ReapAttempt \/ CutAttempt \/ (\E h \in Host : Revoke(h)) \/ UNCHANGED vars
  BY <1>3, <1>4 DEF AcceptAttempt, ReapAttempt, CutAttempt, Revoke, vars, supVars, mainVars
<1>5. ASSUME NEW a \in Attempt, Thread(a) PROVE Agreement'
  BY <1>3, <1>5 DEF Thread, Prove, Fail, CommitAnswered, Tell, TellFails, FailureAnswered,
     CallTimeout, Proceed, supVars, mainVars
<1>6. QED
  BY <1>1, <1>2, <1>4, <1>5, SupervisorAgreement, ReceiveAgreement DEF Next

\* The worker listens for a window that is over only until the message that ends it is
\* read (worker.rs:194).
THEOREM WindowsStayTogether == Spec => []WindowsAgree
<1>1. Init => Agreement
  BY DEF Init, Agreement
<1>2. TypeOK /\ Agreement => WindowsAgree
  BY DEF Agreement, WindowsAgree, Agreed, EndsAfter
<1>3. QED
  BY <1>1, <1>2, AgreementStep, SensibleHolds, PTL DEF Spec
-----------------------------------------------------------------------------
(* Guesses *)

\* One attempt of a window at a time.
TurnsInv ==
    /\ \A a \in Attempt : a <= accepted => phase[a] # "none"
    /\ ~alive => \A a \in Attempt : phase[a] \in {"none", "done"}
    /\ \A a, b \in Attempt : b < a /\ a <= accepted /\ of[b] = of[a] => phase[b] = "done"
    /\ \A b \in Attempt : b <= accepted /\ of[b] = served => phase[b] = "done" \/ active = b

\* A window to be announced is newer than every one before it.
StartsInv ==
    /\ \A i \in DOMAIN toWorker : toWorker[i].type = "PairStart" =>
        /\ served < toWorker[i].epoch
        /\ \A a \in Attempt : a <= accepted => of[a] < toWorker[i].epoch
    /\ \A i, j \in DOMAIN toWorker :
        i < j /\ toWorker[i].type = "PairStart" /\ toWorker[j].type = "PairStart"
            => toWorker[i].epoch < toWorker[j].epoch

\* The results of one window come in the order of its attempts.
OrderInv ==
    \A i, j \in DOMAIN toSup :
        /\ toSup[i].attempt < toSup[j].attempt
        /\ of[toSup[i].attempt] = of[toSup[j].attempt]
        => i < j

\* The failure of an attempt is still to be counted.
Reporting(b) == \E i \in DOMAIN toSup : toSup[i].attempt = b /\ toSup[i].key = None

Counted(e) ==
    {b \in 1..accepted : of[b] = e /\ phase[b] \in {"failing", "done"} /\ ~Reporting(b)}
CountedBefore(a) == {b \in 1..(a - 1) : of[b] = of[a] /\ ~Reporting(b)}

\* The window that takes results has counted every failure that was taken: all those
\* of a worker that lives, and all those before a result that is still to be taken.
Waiting(c) == \E i \in DOMAIN toSup : toSup[i].attempt = c

CountInv ==
    window # None /\ ~window.expired =>
        /\ alive => Cardinality(Counted(window.epoch)) <= window.failures
        /\ \A c \in Attempt : Waiting(c) /\ of[c] = window.epoch =>
            Cardinality(CountedBefore(c)) <= window.failures

\* A window in which a key was saved is over.
SavedInv ==
    \A a \in committed : a <= accepted /\ (window # None => of[a] # window.epoch)

\* One element more at the end of a queue.
Longer(q, p, r) ==
    /\ Len(q) \in Nat
    /\ DOMAIN p = DOMAIN q \cup {Len(q) + 1}
    /\ p[Len(q) + 1] = r
    /\ \A i \in DOMAIN q : p[i] = q[i] /\ i \in Nat /\ i < Len(q) + 1

LEMMA LongerByOne ==
    ASSUME NEW S, NEW q \in Seq(S), NEW r \in S
    PROVE  Longer(q, q \o <<r>>, r)
<1>1. <<r>> \in Seq(S) /\ Len(<<r>>) = 1 /\ <<r>>[1] = r
  OBVIOUS
<1>2. PICK p : p = q \o <<r>>
  OBVIOUS
<1>3. /\ p \in Seq(S) /\ Len(p) = Len(q) + 1
      /\ \A i \in 1 .. Len(q) + 1 : p[i] = IF i <= Len(q) THEN q[i] ELSE <<r>>[i - Len(q)]
  BY <1>1, <1>2, ConcatProperties
<1>4. /\ DOMAIN q = 1 .. Len(q) /\ DOMAIN p = 1 .. Len(p) /\ Len(q) \in Nat
  BY <1>3, LenProperties
<1>5. DOMAIN p = DOMAIN q \cup {Len(q) + 1}
  BY <1>3, <1>4
<1>6. \A i \in DOMAIN q : p[i] = q[i] /\ i \in Nat /\ i < Len(q) + 1
  BY <1>3, <1>4
<1>7. p[Len(q) + 1] = r
  <2>1. Len(q) + 1 \in 1 .. Len(q) + 1 /\ ~(Len(q) + 1 <= Len(q)) /\ (Len(q) + 1) - Len(q) = 1
    BY <1>4
  <2>2. QED
    BY <1>1, <1>3, <2>1
<1>8. QED
  BY <1>2, <1>4, <1>5, <1>6, <1>7 DEF Longer

\* What a step of a thread does to the state that the windows depend on.
LEMMA ThreadMoves ==
    ASSUME TypeOK, Sensible, NEW a \in Attempt, Thread(a)
    PROVE  /\ phase[a] \notin {"none", "done"}
           /\ UNCHANGED <<supVars, mainVars, accepted, of, toWorker, committed>>
           /\ \A b \in Attempt : b # a => phase'[b] = phase[b]
           /\ \/ /\ phase'[a] = "committing"
                 /\ \E h \in Host :
                        Longer(toSup, toSup', [attempt |-> a, epoch |-> of[a], key |-> h])
              \/ phase'[a] = "telling" /\ toSup' = toSup
              \/ phase'[a] = "failing" /\ Longer(toSup, toSup', Failure(a))
              \/ phase'[a] = "done" /\ toSup' = toSup /\ phase[a] \in {"telling", "failing"}
<1>1. ASSUME NEW next \in Phases, NEW results, Proceed(a, next, results)
      PROVE  /\ UNCHANGED <<supVars, mainVars, accepted, of, toWorker, committed>>
             /\ phase'[a] = next
             /\ \A b \in Attempt : b # a => phase'[b] = phase[b]
             /\ toSup' = toSup \o results
  BY <1>1 DEF Proceed, TypeOK
<1>2. toSup \in Seq(Result)
  BY DEF TypeOK
<1>3. toSup \o <<>> = toSup
  BY <1>2, ConcatEmptySeq
<1>4. ASSUME phase[a] # "none", NEW k \in Host \cup {None}, NEW r,
             r = [attempt |-> a, epoch |-> of[a], key |-> k]
      PROVE  Longer(toSup, toSup \o <<r>>, r)
  <2>1. a <= accepted /\ a \in Nat
    BY <1>4 DEF Sensible, Attempt, TypeOK
  <2>2. of[a] \in Epoch
    BY <2>1, ConstantsAssumption DEF Sensible, TypeOK, Epoch, Attempt
  <2>3. r \in Result
    BY <1>4, <2>2 DEF Result
  <2>4. QED
    BY <1>2, <2>3, LongerByOne
<1>5. {"committing", "telling", "failing", "done"} \subseteq Phases
  BY DEF Phases
<1>6. CASE \E h \in Host : Prove(a, h)
  <2>1. PICK h \in Host : Prove(a, h)
    BY <1>6
  <2>2. PICK r : r = [attempt |-> a, epoch |-> of[a], key |-> h]
    OBVIOUS
  <2>3. phase[a] = "talking" /\ Proceed(a, "committing", <<r>>)
    BY <2>1, <2>2 DEF Prove
  <2>4. Longer(toSup, toSup \o <<r>>, r)
    BY <1>4, <2>2, <2>3
  <2>5. QED
    BY <1>1, <1>5, <2>2, <2>3, <2>4
<1>7. ASSUME phase[a] # "none", Proceed(a, "failing", <<Failure(a)>>)
      PROVE  /\ UNCHANGED <<supVars, mainVars, accepted, of, toWorker, committed>>
             /\ \A b \in Attempt : b # a => phase'[b] = phase[b]
             /\ phase'[a] = "failing" /\ Longer(toSup, toSup', Failure(a))
  <2>1. Longer(toSup, toSup \o <<Failure(a)>>, Failure(a))
    BY <1>4, <1>7 DEF Failure
  <2>2. QED
    BY <1>1, <1>5, <1>7, <2>1
<1>8. CASE Fail(a) \/ TellFails(a)
  BY <1>7, <1>8 DEF Fail, TellFails
<1>9. ASSUME NEW next \in {"telling", "done"}, Proceed(a, next, <<>>)
      PROVE  /\ UNCHANGED <<supVars, mainVars, accepted, of, toWorker, committed>>
             /\ \A b \in Attempt : b # a => phase'[b] = phase[b]
             /\ phase'[a] = next /\ toSup' = toSup
  BY <1>1, <1>3, <1>5, <1>9
<1>10. CASE CommitAnswered(a)
  BY <1>7, <1>9, <1>10 DEF CommitAnswered
<1>11. CASE Tell(a)
  BY <1>9, <1>11 DEF Tell
<1>12. CASE FailureAnswered(a)
  BY <1>9, <1>12 DEF FailureAnswered
<1>13. CASE CallTimeout(a)
  BY <1>7, <1>9, <1>13 DEF CallTimeout
<1>14. QED
  BY <1>6, <1>8, <1>10, <1>11, <1>12, <1>13 DEF Thread

\* New messages announce at most one window, newer than all.
LEMMA SentStarts ==
    ASSUME TypeOK, Sensible, StartsInv, NEW messages \in Seq(Message), Sent(messages),
           UNCHANGED <<served, accepted, of>>,
           \A j \in DOMAIN messages : messages[j].type = "PairStart" => messages[j].epoch = epoch + 1,
           \A j, k \in DOMAIN messages :
               messages[j].type = "PairStart" /\ messages[k].type = "PairStart" => j = k
    PROVE  StartsInv'
<1>1. CASE ~alive
  BY <1>1 DEF Sent, StartsInv
<1>2. CASE alive
  <2>1. toWorker' = toWorker \o messages
    BY <1>2 DEF Sent
  <2>2. /\ Len(toWorker) \in Nat /\ DOMAIN toWorker = 1..Len(toWorker)
        /\ Len(messages) \in Nat /\ DOMAIN messages = 1..Len(messages)
        /\ DOMAIN toWorker' = 1..(Len(toWorker) + Len(messages))
        /\ \A i \in 1..(Len(toWorker) + Len(messages)) :
              toWorker'[i] = IF i <= Len(toWorker) THEN toWorker[i] ELSE messages[i - Len(toWorker)]
    BY <2>1, ConcatProperties, LenProperties DEF TypeOK
  <2>3. ASSUME NEW i \in DOMAIN toWorker', toWorker'[i].type = "PairStart"
        PROVE  \/ /\ i \in DOMAIN toWorker /\ i <= Len(toWorker) /\ toWorker'[i] = toWorker[i]
                  /\ toWorker'[i].epoch \in Epoch /\ toWorker'[i].epoch <= epoch
               \/ /\ ~(i <= Len(toWorker)) /\ toWorker'[i].epoch = epoch + 1
                  /\ i - Len(toWorker) \in DOMAIN messages
                  /\ messages[i - Len(toWorker)].type = "PairStart"
    <3>1. CASE i <= Len(toWorker)
      <4>1. i \in DOMAIN toWorker /\ toWorker'[i] = toWorker[i]
        BY <2>2, <3>1
      <4>2. toWorker[i] \in Message
        BY <4>1 DEF TypeOK
      <4>3. toWorker[i].epoch \in Epoch /\ toWorker[i].epoch <= epoch
        BY <2>3, <4>1, <4>2, MessageTypes DEF Sensible
      <4>4. QED
        BY <3>1, <4>1, <4>3
    <3>2. CASE ~(i <= Len(toWorker))
      <4>1. i - Len(toWorker) \in DOMAIN messages /\ toWorker'[i] = messages[i - Len(toWorker)]
        BY <2>2, <3>2
      <4>2. QED
        BY <2>3, <3>2, <4>1
    <3>3. QED
      BY <3>1, <3>2
  <2>4. epoch \in Nat /\ served <= epoch /\ served \in Nat
        /\ \A a \in Attempt : of[a] \in Nat /\ of[a] <= epoch
    BY ConstantsAssumption DEF TypeOK
  <2>5. ASSUME NEW i \in DOMAIN toWorker', toWorker'[i].type = "PairStart"
        PROVE  /\ served < toWorker'[i].epoch
               /\ \A a \in Attempt : a <= accepted => of[a] < toWorker'[i].epoch
    <3>1. CASE toWorker'[i].epoch = epoch + 1
      BY <2>4, <3>1
    <3>2. CASE i \in DOMAIN toWorker /\ toWorker'[i] = toWorker[i]
      BY <2>5, <3>2 DEF StartsInv
    <3>3. QED
      BY <2>3, <2>5, <3>1, <3>2
  <2>6. ASSUME NEW i \in DOMAIN toWorker', NEW j \in DOMAIN toWorker', i < j,
               toWorker'[i].type = "PairStart", toWorker'[j].type = "PairStart"
        PROVE  toWorker'[i].epoch < toWorker'[j].epoch
    <3>1. i \in Nat /\ j \in Nat
      BY <2>2
    <3>2. CASE j <= Len(toWorker)
      <4>1. i <= Len(toWorker)
        BY <2>2, <2>6, <3>1, <3>2
      <4>2. QED
        BY <2>3, <2>6, <3>2, <4>1 DEF StartsInv
    <3>3. CASE ~(j <= Len(toWorker)) /\ i <= Len(toWorker)
      <4>1. toWorker'[j].epoch = epoch + 1 /\ toWorker'[i].epoch <= epoch
            /\ toWorker'[i].epoch \in Nat
        BY <2>3, <2>6, <3>3, ConstantsAssumption DEF Epoch
      <4>2. QED
        BY <2>4, <4>1
    <3>4. CASE ~(j <= Len(toWorker)) /\ ~(i <= Len(toWorker))
      <4>1. /\ j - Len(toWorker) \in DOMAIN messages /\ i - Len(toWorker) \in DOMAIN messages
            /\ messages[j - Len(toWorker)].type = "PairStart"
            /\ messages[i - Len(toWorker)].type = "PairStart"
        BY <2>3, <2>6, <3>4
      <4>2. j - Len(toWorker) = i - Len(toWorker)
        BY <4>1
      <4>3. QED
        BY <2>2, <2>6, <3>1, <4>2
    <3>5. QED
      BY <3>2, <3>3, <3>4
  <2>7. QED
    BY <2>5, <2>6 DEF StartsInv
<1>3. QED
  BY <1>1, <1>2

\* What is announced to the worker keeps the order of the windows.
LEMMA SupervisorStarts ==
    ASSUME TypeOK, Sensible, StartsInv, OpenWindow \/ CloseWindow \/ HandleResult
    PROVE  StartsInv'
<1>1. UNCHANGED <<served, accepted, of>>
  BY DEF OpenWindow, CloseWindow, HandleResult, mainVars, threadVars
<1>2. ASSUME NEW messages \in Seq(Message), Sent(messages),
             \A j \in DOMAIN messages : messages[j].type # "PairStart"
      PROVE  StartsInv'
  BY <1>1, <1>2, SentStarts
<1>3. ASSUME NEW m \in Message, NEW n \in Message, m.type # "PairStart", n.type # "PairStart",
             Sent(<<n>>) \/ Sent(<<m, n>>)
      PROVE  StartsInv'
  <2>1. <<n>> \in Seq(Message) /\ <<m, n>> \in Seq(Message)
    BY <1>3
  <2>2. /\ \A j \in DOMAIN <<n>> : <<n>>[j].type # "PairStart"
        /\ \A j \in DOMAIN <<m, n>> : <<m, n>>[j].type # "PairStart"
    BY <1>3
  <2>3. QED
    BY <1>2, <1>3, <2>1, <2>2
<1>4. PairStop \in Message /\ [type |-> "PairCommitted"] \in Message
  BY DEF PairStop, Message
<1>5. PairStop.type # "PairStart" /\ [type |-> "PairCommitted"].type # "PairStart"
  BY DEF PairStop
<1>6. CASE CloseWindow
  BY <1>3, <1>4, <1>5, <1>6 DEF CloseWindow
<1>7. CASE HandleResult
  <2>1. PICK r \in Result : r = Head(toSup)
    BY <1>7, HeadResult DEF HandleResult
  <2>2. ASSUME NEW ok \in BOOLEAN PROVE Reply(r, ok) \in Message /\ Reply(r, ok).type # "PairStart"
    BY <2>1, ReplyTypes DEF Reply
  <2>3. PICK n : n \in {Reply(r, FALSE), Reply(r, TRUE)} /\
            \/ Sent(<<n>>) \/ Sent(<<PairStop, n>>) \/ Sent(<<[type |-> "PairCommitted"], n>>)
    BY <1>7, <2>1 DEF HandleResult, RefuseResult, CommitResult, CountResult
  <2>4. QED
    BY <1>3, <1>4, <1>5, <2>2, <2>3
<1>8. CASE OpenWindow
  <2>1. CASE Sent(<<PairStop>>)
    BY <1>3, <1>4, <1>5, <2>1
  <2>2. ASSUME epoch < MaxEpochs, NEW m, m = [type |-> "PairStart", epoch |-> epoch + 1],
               Sent(<<PairStop, m>>)
        PROVE  StartsInv'
    <3>1. PICK messages : messages = <<PairStop, m>>
      OBVIOUS
    <3>2. epoch + 1 \in Epoch
      BY <2>2, ConstantsAssumption DEF Epoch, TypeOK
    <3>3. messages \in Seq(Message)
      BY <1>4, <2>2, <3>1, <3>2 DEF Message
    <3>4. /\ DOMAIN messages = 1 .. 2 /\ messages[1].type # "PairStart"
          /\ messages[2].epoch = epoch + 1
      BY <1>5, <2>2, <3>1
    <3>5. \A j \in DOMAIN messages : messages[j].type = "PairStart" => j = 2
      BY <3>4
    <3>6. \A j \in DOMAIN messages : messages[j].type = "PairStart" => messages[j].epoch = epoch + 1
      BY <3>4, <3>5
    <3>7. \A j, k \in DOMAIN messages :
            messages[j].type = "PairStart" /\ messages[k].type = "PairStart" => j = k
      BY <3>5
    <3>8. Sent(messages)
      BY <2>2, <3>1
    <3>9. QED
      BY <1>1, <3>3, <3>6, <3>7, <3>8, SentStarts
  <2>3. QED
    BY <1>8, <2>1, <2>2 DEF OpenWindow
<1>9. QED
  BY <1>6, <1>7, <1>8

\* The worker takes its messages in order, and starts no window twice.
LEMMA ReceiveTurns ==
    ASSUME TypeOK, Sensible, TurnsInv, StartsInv, Receive
    PROVE  TurnsInv' /\ StartsInv'
<1>1. /\ toWorker # <<>> /\ toWorker' = Tail(toWorker)
      /\ UNCHANGED <<alive, accepted, of, phase>>
  BY DEF Receive
<1>2. PICK m \in Message : m = Head(toWorker)
  BY <1>1, HeadMessage
<1>3. /\ m = toWorker[1] /\ 1 \in DOMAIN toWorker
      /\ \A i \in DOMAIN toWorker' :
            i \in Nat \ {0} /\ i + 1 \in DOMAIN toWorker /\ toWorker'[i] = toWorker[i + 1]
  BY <1>1, <1>2, TailPlaces DEF TypeOK
<1>4. \/ served' = served /\ active' = active
      \/ served' = 0 /\ active' = 0
      \/ m.type = "PairStart" /\ served' = m.epoch /\ active' = 0
  BY <1>2 DEF Receive, ReceiveStart, ReceiveStop, ReceiveCommitted, ReceiveReply
<1>5. \A i \in DOMAIN toWorker' : toWorker'[i].type = "PairStart" =>
        /\ toWorker[i + 1].type = "PairStart" /\ toWorker'[i].epoch = toWorker[i + 1].epoch
        /\ toWorker'[i].epoch \in Epoch
  <2>1. ASSUME NEW i \in DOMAIN toWorker' PROVE toWorker[i + 1] \in Message
    BY <1>3 DEF TypeOK
  <2>2. QED
    BY <1>3, <2>1, MessageTypes
<1>6. ASSUME NEW b \in Attempt, b <= accepted, of[b] = served'
      PROVE  phase[b] = "done" \/ active' = b
  <2>1. CASE served' = served /\ active' = active
    BY <1>6, <2>1 DEF TurnsInv
  <2>2. CASE served' = 0
    <3>1. of[b] # 0
      BY <1>6 DEF Sensible, TypeOK, Attempt
    <3>2. QED
      BY <1>6, <2>2, <3>1
  <2>3. CASE m.type = "PairStart" /\ served' = m.epoch
    <3>1. of[b] < m.epoch /\ of[b] \in Nat
      BY <1>3, <1>6, <2>3, ConstantsAssumption DEF StartsInv, TypeOK
    <3>2. QED
      BY <1>6, <2>3, <3>1
  <2>4. QED
    BY <1>4, <2>1, <2>2, <2>3
<1>7. TurnsInv'
  BY <1>1, <1>6 DEF TurnsInv
<1>8. ASSUME NEW i \in DOMAIN toWorker', toWorker'[i].type = "PairStart"
      PROVE  served' < toWorker'[i].epoch /\ \A a \in Attempt : a <= accepted => of[a] < toWorker'[i].epoch
  <2>1. /\ toWorker[i + 1].type = "PairStart" /\ toWorker'[i].epoch = toWorker[i + 1].epoch
        /\ toWorker'[i].epoch \in Epoch /\ i + 1 \in DOMAIN toWorker
    BY <1>3, <1>5, <1>8
  <2>2. served < toWorker'[i].epoch /\ \A a \in Attempt : a <= accepted => of[a] < toWorker'[i].epoch
    BY <2>1 DEF StartsInv
  <2>3. m.type = "PairStart" => m.epoch < toWorker'[i].epoch
    <3>1. 1 < i + 1
      BY <1>3
    <3>2. QED
      BY <1>3, <2>1, <3>1 DEF StartsInv
  <2>4. 0 < toWorker'[i].epoch
    BY <2>1 DEF Epoch
  <2>5. QED
    BY <1>4, <2>2, <2>3, <2>4
<1>9. ASSUME NEW i \in DOMAIN toWorker', NEW j \in DOMAIN toWorker', i < j,
             toWorker'[i].type = "PairStart", toWorker'[j].type = "PairStart"
      PROVE  toWorker'[i].epoch < toWorker'[j].epoch
  <2>1. i + 1 < j + 1
    BY <1>3, <1>9
  <2>2. /\ toWorker[i + 1].type = "PairStart" /\ toWorker'[i].epoch = toWorker[i + 1].epoch
        /\ toWorker[j + 1].type = "PairStart" /\ toWorker'[j].epoch = toWorker[j + 1].epoch
        /\ i + 1 \in DOMAIN toWorker /\ j + 1 \in DOMAIN toWorker
    BY <1>3, <1>5, <1>9
  <2>3. QED
    BY <2>1, <2>2 DEF StartsInv
<1>10. StartsInv'
  BY <1>1, <1>8, <1>9 DEF StartsInv
<1>11. QED
  BY <1>7, <1>10

LEMMA TurnsStep ==
    ASSUME TypeOK, Sensible, TurnsInv, StartsInv, [Next]_vars
    PROVE  TurnsInv' /\ StartsInv'
<1>1. CASE OpenWindow \/ CloseWindow \/ HandleResult
  <2>1. UNCHANGED <<alive, served, active, accepted, of, phase>>
    BY <1>1 DEF OpenWindow, CloseWindow, HandleResult, mainVars, threadVars
  <2>2. TurnsInv'
    BY <2>1 DEF TurnsInv
  <2>3. QED
    BY <1>1, <2>2, SupervisorStarts
<1>2. CASE ReplaceWorker \/ WorkerDies
  <2>1. /\ \A a \in Attempt : phase'[a] = IF phase[a] = "none" THEN "none" ELSE "done"
        /\ accepted' = accepted /\ of' = of /\ toWorker' = <<>>
    BY <1>2 DEF ReplaceWorker, WorkerDies, NoWorker
  <2>2. ASSUME NEW a \in Attempt, a <= accepted PROVE phase'[a] = "done"
    BY <2>1, <2>2 DEF TurnsInv
  <2>3. ASSUME NEW a \in Attempt, NEW b \in Attempt, b < a, a <= accepted PROVE phase'[b] = "done"
    <3>1. b <= accepted
      BY <2>3, ConstantsAssumption DEF Attempt, TypeOK
    <3>2. QED
      BY <2>2, <3>1
  <2>4. TurnsInv'
    BY <2>1, <2>2, <2>3 DEF TurnsInv
  <2>5. StartsInv'
    BY <2>1 DEF StartsInv
  <2>6. QED
    BY <2>4, <2>5
<1>3. CASE AcceptAttempt
  <2>1. /\ accepted < MaxAttempts /\ accepted \in Nat /\ MaxAttempts \in Nat
        /\ accepted' = accepted + 1 /\ active = 0 /\ listening
    BY <1>3, ConstantsAssumption DEF AcceptAttempt, TypeOK
  <2>2. PICK n \in Attempt : n = accepted + 1
    BY <2>1 DEF Attempt
  <2>3. /\ active' = n /\ of' = [of EXCEPT ![n] = served]
        /\ phase' = [phase EXCEPT ![n] = "talking"] /\ UNCHANGED <<alive, served, toWorker>>
    BY <1>3, <2>1, <2>2 DEF AcceptAttempt
  <2>4. /\ of'[n] = served /\ phase'[n] = "talking"
        /\ \A a \in Attempt : a # n => of'[a] = of[a] /\ phase'[a] = phase[a]
    BY <2>3 DEF TypeOK
  <2>5. \A a \in Attempt : a <= n => a = n \/ a <= accepted
    BY <2>1, <2>2 DEF Attempt
  <2>6. alive
    BY <2>1 DEF Sensible
  <2>7. ASSUME NEW b \in Attempt, b <= accepted, of[b] = served PROVE phase[b] = "done"
    <3>1. active # b
      BY <2>1 DEF Attempt
    <3>2. QED
      BY <2>7, <3>1 DEF TurnsInv
  <2>8. ASSUME NEW a \in Attempt, NEW b \in Attempt, b < a, a <= n, of'[b] = of'[a]
        PROVE  phase'[b] = "done"
    <3>1. b # n /\ b <= accepted
      BY <2>1, <2>2, <2>8 DEF Attempt
    <3>2. CASE a = n
      BY <2>4, <2>7, <2>8, <3>1, <3>2
    <3>3. CASE a # n
      BY <2>4, <2>5, <2>8, <3>1, <3>3 DEF TurnsInv
    <3>4. QED
      BY <3>2, <3>3
  <2>9. TurnsInv'
    BY <2>1, <2>2, <2>3, <2>4, <2>5, <2>6, <2>7, <2>8 DEF TurnsInv
  <2>10. StartsInv'
    BY <2>1, <2>2, <2>3, <2>4, <2>5 DEF StartsInv
  <2>11. QED
    BY <2>9, <2>10
<1>4. CASE Receive
  BY <1>4, ReceiveTurns
<1>5. CASE ReapAttempt
  <2>1. /\ active # 0 /\ active \notin Running /\ active' = 0
        /\ UNCHANGED <<alive, served, accepted, of, phase, toWorker>>
    BY <1>5 DEF ReapAttempt, threadVars
  <2>2. ASSUME NEW b \in Attempt, b <= accepted, of[b] = served PROVE phase[b] = "done"
    BY <2>1, <2>2 DEF TurnsInv, Running
  <2>3. TurnsInv'
    BY <2>1, <2>2 DEF TurnsInv
  <2>4. StartsInv'
    BY <2>1 DEF StartsInv
  <2>5. QED
    BY <2>3, <2>4
<1>6. CASE ExpireWindow \/ CutAttempt \/ (\E h \in Host : Revoke(h)) \/ UNCHANGED vars
  <2>1. UNCHANGED <<alive, served, active, accepted, of, phase, toWorker>>
    BY <1>6 DEF ExpireWindow, CutAttempt, Revoke, vars, mainVars, threadVars
  <2>2. QED
    BY <2>1 DEF TurnsInv, StartsInv
<1>7. ASSUME NEW a \in Attempt, Thread(a) PROVE TurnsInv' /\ StartsInv'
  <2>1. /\ phase[a] \notin {"none", "done"}
        /\ UNCHANGED <<alive, served, active, accepted, of, toWorker>>
        /\ \A b \in Attempt : b # a => phase'[b] = phase[b]
        /\ phase'[a] # "none"
    BY <1>7, ThreadMoves DEF mainVars
  <2>2. \A b \in Attempt : phase[b] = "done" => phase'[b] = "done"
    BY <2>1
  <2>3. alive
    BY <2>1 DEF TurnsInv
  <2>4. TurnsInv'
    BY <2>1, <2>2, <2>3 DEF TurnsInv
  <2>5. StartsInv'
    BY <2>1 DEF StartsInv
  <2>6. QED
    BY <2>4, <2>5
<1>8. QED
  BY <1>1, <1>2, <1>3, <1>4, <1>5, <1>6, <1>7 DEF Next


\* A result in the socket.
LEMMA ResultFacts ==
    ASSUME TypeOK, Sensible, NEW i \in DOMAIN toSup
    PROVE  /\ toSup[i].attempt \in Attempt /\ toSup[i].attempt \in Nat
           /\ toSup[i].attempt <= accepted /\ accepted \in Nat
           /\ toSup[i].epoch = of[toSup[i].attempt] /\ i \in Nat \ {0}
<1>1. toSup[i] \in Result /\ i \in Nat \ {0}
  BY LenProperties DEF TypeOK
<1>2. QED
  BY <1>1, ResultTypes, ConstantsAssumption DEF Attempt, Sensible, TypeOK

LEMMA OrderStep ==
    ASSUME TypeOK, Sensible, TurnsInv, OrderInv, [Next]_vars
    PROVE  OrderInv'
<1>1. CASE HandleResult
  <2>1. toSup' = Tail(toSup) /\ toSup # <<>> /\ of' = of
    BY <1>1 DEF HandleResult, threadVars
  <2>2. \A i \in DOMAIN toSup' : i \in Nat \ {0} /\ i + 1 \in DOMAIN toSup /\ toSup'[i] = toSup[i + 1]
    BY <2>1, TailPlaces DEF TypeOK
  <2>3. ASSUME NEW i \in DOMAIN toSup', NEW j \in DOMAIN toSup',
               toSup'[i].attempt < toSup'[j].attempt,
               of'[toSup'[i].attempt] = of'[toSup'[j].attempt]
        PROVE  i < j
    <3>1. i + 1 < j + 1
      BY <2>1, <2>2, <2>3 DEF OrderInv
    <3>2. QED
      BY <2>2, <3>1
  <2>4. QED
    BY <2>3 DEF OrderInv
<1>2. CASE ReplaceWorker
  BY <1>2 DEF ReplaceWorker, OrderInv
<1>3. CASE AcceptAttempt
  <2>1. toSup' = toSup /\ of' = [of EXCEPT ![accepted + 1] = served]
    BY <1>3 DEF AcceptAttempt
  <2>2. ASSUME NEW i \in DOMAIN toSup PROVE of'[toSup[i].attempt] = of[toSup[i].attempt]
    <3>1. toSup[i].attempt \in Attempt /\ toSup[i].attempt # accepted + 1
      BY ResultFacts
    <3>2. QED
      BY <2>1, <3>1 DEF TypeOK
  <2>3. QED
    BY <2>1, <2>2 DEF OrderInv
<1>4. CASE OpenWindow \/ ExpireWindow \/ CloseWindow \/ WorkerDies \/ Receive \/ ReapAttempt
           \/ CutAttempt \/ (\E h \in Host : Revoke(h)) \/ UNCHANGED vars
  <2>1. UNCHANGED <<toSup, of>>
    BY <1>4 DEF OpenWindow, ExpireWindow, CloseWindow, WorkerDies, NoWorker, Receive, ReapAttempt,
       CutAttempt, Revoke, vars, threadVars
  <2>2. QED
    BY <2>1 DEF OrderInv
<1>5. ASSUME NEW a \in Attempt, Thread(a) PROVE OrderInv'
  <2>1. of' = of /\ phase[a] \notin {"none", "done"}
    BY <1>5, ThreadMoves
  <2>2. CASE toSup' = toSup
    BY <2>1, <2>2 DEF OrderInv
  <2>3. ASSUME NEW r, r.attempt = a, Longer(toSup, toSup', r) PROVE OrderInv'
    <3>1. a \in Nat
      BY DEF Attempt
    <3>2. ASSUME NEW i \in DOMAIN toSup, a < toSup[i].attempt, of[a] = of[toSup[i].attempt]
          PROVE  FALSE
      <4>1. toSup[i].attempt \in Attempt /\ toSup[i].attempt <= accepted
        BY ResultFacts
      <4>2. QED
        BY <2>1, <3>2, <4>1 DEF TurnsInv
    <3>3. ASSUME NEW i \in DOMAIN toSup', NEW j \in DOMAIN toSup',
                 toSup'[i].attempt < toSup'[j].attempt,
                 of'[toSup'[i].attempt] = of'[toSup'[j].attempt]
          PROVE  i < j
      <4>1. PICK n \in Nat : n = Len(toSup) + 1
        BY <2>3 DEF Longer
      <4>2. /\ i = n \/ (i \in DOMAIN toSup /\ toSup'[i] = toSup[i] /\ i \in Nat /\ i < n)
            /\ j = n \/ (j \in DOMAIN toSup /\ toSup'[j] = toSup[j] /\ j \in Nat /\ j < n)
            /\ toSup'[n] = r
        BY <2>3, <4>1 DEF Longer
      <4>3. CASE i = n /\ j = n
        BY <2>3, <3>1, <3>3, <4>2, <4>3
      <4>4. CASE i = n /\ j # n
        BY <2>1, <2>3, <3>2, <3>3, <4>2, <4>4
      <4>5. CASE i # n /\ j = n
        BY <4>2, <4>5
      <4>6. CASE i # n /\ j # n
        BY <2>1, <3>3, <4>2, <4>6 DEF OrderInv
      <4>7. QED
        BY <4>3, <4>4, <4>5, <4>6
    <3>4. QED
      BY <3>3 DEF OrderInv
  <2>4. CASE \E h \in Host : Longer(toSup, toSup', [attempt |-> a, epoch |-> of[a], key |-> h])
    BY <2>3, <2>4
  <2>5. CASE Longer(toSup, toSup', Failure(a))
    BY <2>3, <2>5 DEF Failure
  <2>6. QED
    BY <1>5, <2>2, <2>4, <2>5, ThreadMoves
<1>6. QED
  BY <1>1, <1>2, <1>3, <1>4, <1>5 DEF Next

LEMMA SavedStep ==
    ASSUME TypeOK, Sensible, SavedInv, [Next]_vars
    PROVE  SavedInv'
<1>1. CASE HandleResult
  <2>1. PICK r : r = Head(toSup) /\ r = toSup[1] /\ 1 \in DOMAIN toSup
    BY <1>1, TailPlaces DEF HandleResult, TypeOK
  <2>2. r.attempt <= accepted
    BY <2>1, ResultFacts
  <2>3. UNCHANGED <<accepted, of>>
    BY <1>1 DEF HandleResult, threadVars
  <2>4. CASE CommitResult(r)
    BY <2>2, <2>3, <2>4 DEF CommitResult, SavedInv
  <2>5. CASE RefuseResult(r) \/ CountResult(r)
    <3>1. committed' = committed
      BY <2>5 DEF RefuseResult, CountResult
    <3>2. window' # None => window # None /\ window'.epoch = window.epoch
      <4>1. CASE window = None
        BY <2>5, <4>1 DEF RefuseResult, CountResult, Accepts
      <4>2. CASE window # None
        <5>1. window \in Window
          BY <4>2, WindowTypes
        <5>2. QED
          BY <2>5, <4>2, <5>1 DEF RefuseResult, CountResult, Window
      <4>3. QED
        BY <4>1, <4>2
    <3>3. QED
      BY <2>3, <3>1, <3>2 DEF SavedInv
  <2>6. QED
    BY <1>1, <2>1, <2>4, <2>5 DEF HandleResult
<1>2. CASE OpenWindow
  <2>1. UNCHANGED <<committed, accepted, of>>
    BY <1>2 DEF OpenWindow, history, threadVars
  <2>2. window' = None \/ window'.epoch = epoch + 1
    BY <1>2 DEF OpenWindow
  <2>3. \A a \in committed : of[a] \in Nat /\ of[a] <= epoch /\ epoch \in Nat
    BY ConstantsAssumption DEF TypeOK
  <2>4. QED
    BY <2>1, <2>2, <2>3 DEF SavedInv
<1>3. CASE ExpireWindow
  <2>1. UNCHANGED <<committed, accepted, of>> /\ window # None
    BY <1>3 DEF ExpireWindow, threadVars
  <2>2. window'.epoch = window.epoch
    BY <1>3, <2>1, WindowTypes DEF ExpireWindow, Window
  <2>3. QED
    BY <2>1, <2>2 DEF SavedInv
<1>4. CASE CloseWindow \/ ReplaceWorker
  <2>1. UNCHANGED <<committed, accepted>> /\ window' = None
    BY <1>4 DEF CloseWindow, ReplaceWorker, NoWorker, threadVars, history
  <2>2. QED
    BY <2>1 DEF SavedInv
<1>5. CASE AcceptAttempt
  <2>1. /\ UNCHANGED <<committed, window>> /\ accepted' = accepted + 1
        /\ of' = [of EXCEPT ![accepted + 1] = served]
    BY <1>5 DEF AcceptAttempt, supVars, history
  <2>2. accepted \in Nat
    BY ConstantsAssumption DEF TypeOK
  <2>3. ASSUME NEW a \in committed PROVE a <= accepted' /\ of'[a] = of[a]
    <3>1. a \in Attempt /\ a \in Nat /\ a <= accepted
      BY DEF TypeOK, Attempt, SavedInv
    <3>2. a # accepted + 1 /\ a <= accepted + 1
      BY <2>2, <3>1
    <3>3. QED
      BY <2>1, <3>1, <3>2 DEF TypeOK
  <2>4. QED
    BY <2>1, <2>3 DEF SavedInv
<1>6. CASE WorkerDies \/ Receive \/ ReapAttempt
           \/ CutAttempt \/ (\E h \in Host : Revoke(h)) \/ UNCHANGED vars
  <2>1. UNCHANGED <<committed, accepted, of, window>>
    BY <1>6 DEF WorkerDies, NoWorker, Receive, ReapAttempt,
       CutAttempt, Revoke, vars, supVars, threadVars, history
  <2>2. QED
    BY <2>1 DEF SavedInv
<1>7. ASSUME NEW a \in Attempt, Thread(a) PROVE SavedInv'
  <2>1. UNCHANGED <<committed, accepted, of, window>>
    BY <1>7, ThreadMoves DEF supVars
  <2>2. QED
    BY <2>1 DEF SavedInv
<1>8. QED
  BY <1>1, <1>2, <1>3, <1>4, <1>5, <1>6, <1>7 DEF Next

LEMMA CountedTypes ==
    ASSUME TypeOK, NEW e, NEW c \in Attempt
    PROVE  IsFiniteSet(Counted(e)) /\ IsFiniteSet(CountedBefore(c))
<1>1. accepted \in Int /\ c - 1 \in Int
  BY ConstantsAssumption DEF TypeOK, Attempt
<1>2. IsFiniteSet(1..accepted) /\ IsFiniteSet(1..(c - 1))
  BY <1>1, FS_Interval
<1>3. Counted(e) \subseteq 1..accepted /\ CountedBefore(c) \subseteq 1..(c - 1)
  BY DEF Counted, CountedBefore
<1>4. QED
  BY <1>2, <1>3, FS_Subset

\* A smaller set has fewer elements, and one more element is one more at most.
LEMMA FewerOrOneMore ==
    ASSUME NEW S, NEW T, NEW b, IsFiniteSet(S)
    PROVE  /\ T \subseteq S => Cardinality(T) <= Cardinality(S)
           /\ T \subseteq S \cup {b} => Cardinality(T) <= Cardinality(S) + 1
           /\ Cardinality(S) \in Nat
           /\ T \subseteq S \cup {b} => Cardinality(T) \in Nat
<1>1. /\ IsFiniteSet(S \cup {b})
      /\ Cardinality(S \cup {b}) = IF b \in S THEN Cardinality(S) ELSE Cardinality(S) + 1
  BY FS_AddElement
<1>2. Cardinality(S) \in Nat /\ Cardinality(S \cup {b}) \in Nat
  BY <1>1, FS_CardinalityType
<1>3. T \subseteq S => Cardinality(T) <= Cardinality(S)
  BY FS_Subset
<1>4. T \subseteq S \cup {b} => Cardinality(T) <= Cardinality(S \cup {b}) /\ IsFiniteSet(T)
  BY <1>1, FS_Subset
<1>5. T \subseteq S \cup {b} => Cardinality(T) \in Nat
  BY <1>4, FS_CardinalityType
<1>6. QED
  BY <1>1, <1>2, <1>3, <1>4, <1>5

\* The count stays right when nothing new is to be counted, or one failure that is.
LEMMA CountStays ==
    ASSUME TypeOK, CountInv, NEW e, NEW b, NEW n \in {0, 1},
           window' # None /\ ~window'.expired =>
               /\ window # None /\ ~window.expired /\ window.epoch = e
               /\ window'.epoch = e /\ window'.failures = window.failures + n,
           alive' => alive,
           n = 0 => Counted(e)' \subseteq Counted(e),
           Counted(e)' \subseteq Counted(e) \cup {b},
           \A c \in Attempt : Waiting(c)' /\ of'[c] = e =>
               \/ alive /\ CountedBefore(c)' \subseteq Counted(e)
               \/ /\ Waiting(c) /\ of[c] = e
                  /\ n = 0 => CountedBefore(c)' \subseteq CountedBefore(c)
                  /\ CountedBefore(c)' \subseteq CountedBefore(c) \cup {b}
    PROVE  CountInv'
<1> SUFFICES ASSUME window' # None, ~window'.expired
             PROVE  /\ alive' => Cardinality(Counted(e)') <= window'.failures
                    /\ \A c \in Attempt : Waiting(c)' /\ of'[c] = e =>
                         Cardinality(CountedBefore(c)') <= window'.failures
  BY DEF CountInv
<1>1. /\ window # None /\ ~window.expired /\ window.epoch = e
      /\ window'.failures = window.failures + n
  OBVIOUS
<1>2. window.failures \in Nat
  BY <1>1, WindowTypes
<1>3. ASSUME NEW S, NEW T, IsFiniteSet(S), Cardinality(S) <= window.failures,
             n = 0 => T \subseteq S, T \subseteq S \cup {b}
      PROVE  Cardinality(T) <= window'.failures
  <2>1. /\ Cardinality(S) \in Nat /\ Cardinality(T) \in Nat
        /\ n = 0 => Cardinality(T) <= Cardinality(S)
        /\ Cardinality(T) <= Cardinality(S) + 1
    BY <1>3, FewerOrOneMore
  <2>2. QED
    BY <1>1, <1>2, <1>3, <2>1
<1>4. ASSUME alive' PROVE Cardinality(Counted(e)') <= window'.failures
  <2>1. Cardinality(Counted(e)) <= window.failures
    BY <1>1, <1>4 DEF CountInv
  <2>2. IsFiniteSet(Counted(e))
    <3>1. IsFiniteSet(1..accepted)
      BY ConstantsAssumption, FS_Interval DEF TypeOK
    <3>2. QED
      BY <3>1, FS_Subset DEF Counted
  <2>3. QED
    BY <1>3, <2>1, <2>2
<1>5. ASSUME NEW c \in Attempt, Waiting(c)', of'[c] = e
      PROVE  Cardinality(CountedBefore(c)') <= window'.failures
  <2>1. IsFiniteSet(Counted(e)) /\ IsFiniteSet(CountedBefore(c))
    BY CountedTypes
  <2>2. CASE alive /\ CountedBefore(c)' \subseteq Counted(e)
    <3>1. Cardinality(Counted(e)) <= window.failures
      BY <1>1, <2>2 DEF CountInv
    <3>2. CountedBefore(c)' \subseteq Counted(e) \cup {b}
      BY <2>2
    <3>3. QED
      BY <1>3, <2>1, <2>2, <3>1, <3>2
  <2>3. CASE /\ Waiting(c) /\ of[c] = e
             /\ n = 0 => CountedBefore(c)' \subseteq CountedBefore(c)
             /\ CountedBefore(c)' \subseteq CountedBefore(c) \cup {b}
    <3>1. Cardinality(CountedBefore(c)) <= window.failures
      BY <1>1, <2>3 DEF CountInv
    <3>2. QED
      BY <1>3, <2>1, <2>3, <3>1
  <2>4. QED
    BY <1>5, <2>2, <2>3
<1>6. QED
  BY <1>4, <1>5

\* The supervisor counts the failure it takes, or does not take results of the window.
LEMMA HandledCount ==
    ASSUME TypeOK, Sensible, CountInv, HandleResult
    PROVE  CountInv'
<1>1. /\ toSup' = Tail(toSup) /\ toSup # <<>>
      /\ UNCHANGED <<alive, accepted, of, phase>>
  BY DEF HandleResult, mainVars, threadVars
<1>2. PICK r : r = Head(toSup)
  OBVIOUS
<1>3. r = toSup[1] /\ 1 \in DOMAIN toSup
  BY <1>1, <1>2, TailPlaces DEF TypeOK
<1>4. r.attempt \in Attempt /\ r.epoch = of[r.attempt]
  BY <1>3, ResultFacts
<1>5. /\ \A i \in DOMAIN toSup' : i + 1 \in DOMAIN toSup /\ toSup'[i] = toSup[i + 1]
      /\ \A i \in DOMAIN toSup : i = 1 \/ (i - 1 \in DOMAIN toSup' /\ toSup'[i - 1] = toSup[i])
  <2>1. /\ \A i \in DOMAIN toSup' : i \in Nat \ {0} /\ i + 1 \in DOMAIN toSup /\ toSup'[i] = toSup[i + 1]
        /\ \A i \in DOMAIN toSup : i \in Nat \ {0} /\ (i > 1 => i - 1 \in DOMAIN toSup')
    BY <1>1, TailPlaces DEF TypeOK
  <2>2. ASSUME NEW i \in DOMAIN toSup, i # 1
        PROVE  i - 1 \in DOMAIN toSup' /\ toSup'[i - 1] = toSup[i]
    <3>1. i > 1 /\ (i - 1) + 1 = i
      BY <2>1, <2>2
    <3>2. i - 1 \in DOMAIN toSup'
      BY <2>1, <3>1
    <3>3. toSup'[i - 1] = toSup[(i - 1) + 1]
      BY <2>1, <3>2
    <3>4. QED
      BY <3>1, <3>2, <3>3
  <2>3. QED
    BY <2>1, <2>2
<1>6. ASSUME NEW c, Waiting(c)' PROVE Waiting(c)
  BY <1>5, <1>6 DEF Waiting
<1>7. ASSUME NEW c, Reporting(c) PROVE Reporting(c)' \/ (c = r.attempt /\ r.key = None)
  BY <1>3, <1>5, <1>7 DEF Reporting
<1>8. ASSUME NEW e PROVE Counted(e)' \subseteq Counted(e) \cup {r.attempt}
  BY <1>1, <1>7 DEF Counted
<1>9. ASSUME NEW c PROVE CountedBefore(c)' \subseteq CountedBefore(c) \cup {r.attempt}
  BY <1>1, <1>7 DEF CountedBefore
<1>10. CASE CommitResult(r)
  BY <1>10 DEF CommitResult, CountInv
<1>11. CASE RefuseResult(r)
  <2> SUFFICES ASSUME window' # None, ~window'.expired PROVE CountInv'
    BY DEF CountInv
  <2>1. window # None /\ ~window.expired /\ window' = window
    <3>1. CASE window # None /\ window.expired
      BY <1>11, <3>1, WindowTypes DEF RefuseResult, Window
    <3>2. QED
      BY <1>11, <3>1 DEF RefuseResult
  <2>2. r.epoch # window.epoch \/ r.key # None
    BY <1>11, <2>1, WindowTypes DEF RefuseResult, Accepts
  <2>3. PICK e : e = window.epoch
    OBVIOUS
  <2>4. ASSUME NEW c, Reporting(c), of[c] = e PROVE Reporting(c)'
    BY <1>4, <1>7, <2>2, <2>3, <2>4
  <2>5. Counted(e)' \subseteq Counted(e)
    BY <1>1, <2>4 DEF Counted
  <2>6. ASSUME NEW c \in Attempt, of[c] = e PROVE CountedBefore(c)' \subseteq CountedBefore(c)
    BY <1>1, <2>4, <2>6 DEF CountedBefore
  <2>7. window'.failures = window.failures + 0
    BY <2>1, WindowTypes
  <2>8. \A c \in Attempt : Waiting(c)' /\ of'[c] = e =>
            /\ Waiting(c) /\ of[c] = e
            /\ CountedBefore(c)' \subseteq CountedBefore(c)
            /\ CountedBefore(c)' \subseteq CountedBefore(c) \cup {r.attempt}
    BY <1>1, <1>6, <1>9, <2>6
  <2>9. QED
    BY <1>1, <1>8, <2>1, <2>3, <2>5, <2>7, <2>8, CountStays
<1>12. CASE CountResult(r)
  <2> SUFFICES ASSUME window' # None, ~window'.expired PROVE CountInv'
    BY DEF CountInv
  <2>1. window # None /\ ~window.expired /\ window' = [window EXCEPT !.failures = @ + 1]
    BY <1>12 DEF CountResult, Accepts
  <2>2. PICK e, n : e = window.epoch /\ n = 1
    OBVIOUS
  <2>3. window'.epoch = e /\ window'.failures = window.failures + n
    BY <2>1, <2>2, WindowTypes DEF Window
  <2>4. \A c \in Attempt : Waiting(c)' /\ of'[c] = e =>
            /\ Waiting(c) /\ of[c] = e
            /\ n = 0 => CountedBefore(c)' \subseteq CountedBefore(c)
            /\ CountedBefore(c)' \subseteq CountedBefore(c) \cup {r.attempt}
    BY <1>1, <1>6, <1>9, <2>2
  <2>5. n \in {0, 1} /\ (n = 0 => Counted(e)' \subseteq Counted(e))
    BY <2>2
  <2>6. \A c \in Attempt : Waiting(c)' /\ of'[c] = e =>
            \/ alive /\ CountedBefore(c)' \subseteq Counted(e)
            \/ /\ Waiting(c) /\ of[c] = e
               /\ n = 0 => CountedBefore(c)' \subseteq CountedBefore(c)
               /\ CountedBefore(c)' \subseteq CountedBefore(c) \cup {r.attempt}
    BY <2>4
  <2>7. window' # None /\ ~window'.expired =>
            /\ window # None /\ ~window.expired /\ window.epoch = e
            /\ window'.epoch = e /\ window'.failures = window.failures + n
    BY <2>1, <2>2, <2>3
  <2>8. (alive' => alive) /\ Counted(e)' \subseteq Counted(e) \cup {r.attempt}
    BY <1>1, <1>8
  <2>9. QED
    BY <2>5, <2>6, <2>7, <2>8, CountStays, SMTT(30)
<1>13. QED
  BY <1>2, <1>10, <1>11, <1>12 DEF HandleResult

\* A thread leaves only failures behind that are still to be counted.
LEMMA ThreadCounted ==
    ASSUME TypeOK, Sensible, TurnsInv, NEW a \in Attempt, Thread(a), NEW e,
           phase[a] = "telling" => of[a] # e
    PROVE  /\ Counted(e)' \subseteq Counted(e)
           /\ \A c : Reporting(c) => Reporting(c)'
           /\ \A c : Waiting(c)' => Waiting(c) \/ c = a
<1>1. /\ phase[a] \notin {"none", "done"} /\ UNCHANGED <<accepted, of>>
      /\ \A b \in Attempt : b # a => phase'[b] = phase[b]
  BY ThreadMoves
<1>2. accepted <= MaxAttempts /\ accepted \in Nat
  BY ConstantsAssumption DEF TypeOK
<1>3. /\ \A i \in DOMAIN toSup : i \in DOMAIN toSup' /\ toSup'[i] = toSup[i]
      /\ \A i \in DOMAIN toSup' :
            \/ i \in DOMAIN toSup
            \/ toSup'[i].attempt = a
  <2>1. CASE toSup' = toSup
    BY <2>1
  <2>2. ASSUME NEW r, r.attempt = a, Longer(toSup, toSup', r)
        PROVE  /\ \A i \in DOMAIN toSup : i \in DOMAIN toSup' /\ toSup'[i] = toSup[i]
               /\ \A i \in DOMAIN toSup' : i \in DOMAIN toSup \/ toSup'[i].attempt = a
    BY <2>2 DEF Longer
  <2>3. CASE \E h \in Host : Longer(toSup, toSup', [attempt |-> a, epoch |-> of[a], key |-> h])
    BY <2>2, <2>3
  <2>4. CASE Longer(toSup, toSup', Failure(a))
    BY <2>2, <2>4 DEF Failure
  <2>5. QED
    BY <2>1, <2>3, <2>4, ThreadMoves
<1>4. \A c : /\ Reporting(c) => Reporting(c)'
             /\ Waiting(c)' => Waiting(c) \/ c = a
  BY <1>3 DEF Reporting, Waiting
<1>5. a \in Counted(e)' => a \in Counted(e)
  <2>1. CASE phase'[a] \in {"committing", "telling"}
    BY <2>1 DEF Counted
  <2>2. CASE phase'[a] = "failing" /\ Longer(toSup, toSup', Failure(a))
    <3>1. Reporting(a)'
      BY <2>2 DEF Longer, Failure, Reporting
    <3>2. QED
      BY <3>1 DEF Counted
  <2>3. CASE phase'[a] = "done" /\ toSup' = toSup /\ phase[a] = "failing"
    BY <1>1, <2>3 DEF Counted, Reporting
  <2>4. CASE phase'[a] = "done" /\ phase[a] = "telling"
    <3>1. of[a] # e
      BY <2>4
    <3>2. QED
      BY <1>1, <3>1 DEF Counted
  <2>5. QED
    BY <2>1, <2>2, <2>3, <2>4, ThreadMoves
<1>6. Counted(e)' \subseteq Counted(e)
  <2>1. ASSUME NEW b \in Counted(e)', b # a PROVE b \in Counted(e)
    <3>1. b \in 1..accepted /\ of[b] = e /\ phase'[b] \in {"failing", "done"} /\ ~Reporting(b)'
      BY <1>1, <2>1 DEF Counted
    <3>2. b \in Attempt
      BY <1>2, <3>1, ConstantsAssumption DEF Attempt
    <3>3. QED
      BY <1>1, <1>4, <2>1, <3>1, <3>2 DEF Counted
  <2>2. QED
    BY <1>5, <2>1
<1>7. QED
  BY <1>4, <1>6

LEMMA ThreadCount ==
    ASSUME TypeOK, Sensible, Earned, TurnsInv, SavedInv, CountInv,
           NEW a \in Attempt, Thread(a)
    PROVE  CountInv'
<1> SUFFICES ASSUME window # None, ~window.expired PROVE CountInv'
  <2>1. window' = window
    BY ThreadMoves DEF supVars
  <2>2. QED
    BY <2>1 DEF CountInv
<1>1. /\ phase[a] \notin {"none", "done"}
      /\ UNCHANGED <<window, alive, accepted, of>>
      /\ \A b \in Attempt : b # a => phase'[b] = phase[b]
  BY ThreadMoves DEF supVars, mainVars
<1>2. alive /\ a <= accepted /\ accepted <= MaxAttempts /\ accepted \in Nat
  BY <1>1, ConstantsAssumption DEF TurnsInv, Sensible, TypeOK, Attempt
<1>3. PICK e : e = window.epoch
  OBVIOUS
<1>4. phase[a] = "telling" => of[a] # e
  BY <1>3 DEF Earned, SavedInv
<1>5. /\ Counted(e)' \subseteq Counted(e)
      /\ \A c : Reporting(c) => Reporting(c)'
      /\ \A c : Waiting(c)' => Waiting(c) \/ c = a
  BY <1>4, ThreadCounted
<1>6. ASSUME NEW c \in Attempt PROVE CountedBefore(c)' \subseteq CountedBefore(c)
  BY <1>1, <1>5 DEF CountedBefore
<1>7. of[a] = e => CountedBefore(a)' \subseteq Counted(e)
  <2>1. ASSUME of[a] = e, NEW b \in CountedBefore(a)' PROVE b \in Counted(e)
    <3>1. b \in 1..(a - 1) /\ of[b] = e /\ ~Reporting(b)'
      BY <1>1, <2>1 DEF CountedBefore
    <3>2. b \in 1..accepted /\ b \in Attempt /\ b < a
      BY <1>2, <3>1, ConstantsAssumption DEF Attempt
    <3>3. phase[b] = "done"
      BY <1>2, <2>1, <3>1, <3>2 DEF TurnsInv
    <3>4. QED
      BY <1>5, <3>1, <3>2, <3>3 DEF Counted
  <2>2. QED
    BY <2>1
<1>8. \A c \in Attempt : Waiting(c)' /\ of'[c] = e =>
          \/ alive /\ CountedBefore(c)' \subseteq Counted(e)
          \/ Waiting(c) /\ of[c] = e /\ CountedBefore(c)' \subseteq CountedBefore(c)
  BY <1>1, <1>2, <1>5, <1>6, <1>7
<1>9. window' = window /\ window'.failures = window.failures + 0
  BY <1>1, WindowTypes
<1>10. QED
  BY <1>1, <1>3, <1>5, <1>8, <1>9, CountStays

LEMMA CountStep ==
    ASSUME TypeOK, Sensible, Earned, TurnsInv, SavedInv, CountInv, [Next]_vars
    PROVE  CountInv'
<1>1. CASE OpenWindow
  <2>1. UNCHANGED <<accepted, of, phase, toSup>>
    BY <1>1 DEF OpenWindow, threadVars
  <2>2. PICK e : e = epoch + 1
    OBVIOUS
  <2>3. window' = None \/ (window'.epoch = e /\ window'.failures = 0)
    BY <1>1, <2>2 DEF OpenWindow
  <2>4. \A a \in Attempt : of[a] \in Nat /\ of[a] <= epoch /\ epoch \in Nat
    BY ConstantsAssumption DEF TypeOK
  <2>5. 1..accepted \subseteq Attempt
    BY ConstantsAssumption DEF Attempt, TypeOK
  <2>6. \A a \in Attempt : of'[a] # e
    BY <2>1, <2>2, <2>4
  <2>7. Counted(e)' = {}
    BY <2>1, <2>5, <2>6 DEF Counted
  <2>8. Cardinality(Counted(e)') = 0
    BY <2>7, FS_EmptySet
  <2>9. window' # None => Cardinality(Counted(window.epoch)') <= window'.failures
    BY <2>3, <2>8 DEF Counted
  <2>10. QED
    BY <2>3, <2>6, <2>9 DEF CountInv
<1>2. CASE ExpireWindow
  <2>1. window'.expired
    BY <1>2, WindowTypes DEF ExpireWindow, Window
  <2>2. QED
    BY <2>1 DEF CountInv
<1>3. CASE CloseWindow \/ ReplaceWorker
  BY <1>3 DEF CloseWindow, ReplaceWorker, CountInv
<1>4. CASE WorkerDies
  <2>1. ~alive' /\ UNCHANGED <<window, of, toSup>>
    BY <1>4 DEF WorkerDies, NoWorker, supVars
  <2>2. QED
    BY <2>1 DEF CountInv, Waiting, CountedBefore, Reporting
<1>5. CASE AcceptAttempt
  <2>1. /\ UNCHANGED <<window, alive, toSup>> /\ accepted' = accepted + 1
        /\ of' = [of EXCEPT ![accepted + 1] = served] /\ accepted < MaxAttempts
        /\ phase' = [phase EXCEPT ![accepted + 1] = "talking"]
    BY <1>5 DEF AcceptAttempt, supVars
  <2>2. accepted \in Nat /\ MaxAttempts \in Nat
    BY ConstantsAssumption DEF TypeOK
  <2>3. /\ accepted + 1 \in Attempt /\ phase'[accepted + 1] = "talking"
        /\ \A b \in Attempt : b # accepted + 1 => of'[b] = of[b] /\ phase'[b] = phase[b]
    BY <2>1, <2>2 DEF Attempt, TypeOK
  <2>4. PICK e : e = window.epoch
    OBVIOUS
  <2>5. Counted(e)' \subseteq Counted(e)
    <3>1. ASSUME NEW b \in Counted(e)' PROVE b \in Counted(e)
      <4>1. /\ b \in 1..(accepted + 1) /\ of'[b] = e /\ phase'[b] \in {"failing", "done"}
            /\ ~Reporting(b)
        BY <2>1, <3>1 DEF Counted, Reporting
      <4>2. b # accepted + 1
        BY <2>3, <4>1
      <4>3. b \in 1..accepted /\ b \in Attempt
        BY <2>1, <2>2, <4>1, <4>2 DEF Attempt
      <4>4. QED
        BY <2>3, <4>1, <4>2, <4>3 DEF Counted
    <3>2. QED
      BY <3>1
  <2>6. ASSUME NEW c \in Attempt, Waiting(c)', of'[c] = e
        PROVE  Waiting(c) /\ of[c] = e /\ CountedBefore(c)' \subseteq CountedBefore(c)
    <3>1. Waiting(c)
      BY <2>1, <2>6 DEF Waiting
    <3>2. c <= accepted /\ c \in Nat
      BY <3>1, ResultFacts DEF Waiting
    <3>3. of'[c] = of[c]
      BY <2>2, <2>3, <3>2
    <3>4. ASSUME NEW b \in 1..(c - 1) PROVE of'[b] = of[b]
      <4>1. b \in Attempt /\ b # accepted + 1
        BY <2>1, <2>2, <3>2 DEF Attempt
      <4>2. QED
        BY <2>3, <4>1
    <3>5. QED
      BY <2>1, <2>6, <3>1, <3>3, <3>4 DEF CountedBefore, Reporting
  <2>7. window # None => window.failures = window.failures + 0
    BY WindowTypes
  <2>8. QED
    BY <2>1, <2>4, <2>5, <2>6, <2>7, CountStays
<1>6. CASE Receive \/ ReapAttempt \/ CutAttempt \/ (\E h \in Host : Revoke(h)) \/ UNCHANGED vars
  <2>1. UNCHANGED <<window, alive, accepted, of, phase, toSup>>
    BY <1>6 DEF Receive, ReapAttempt, CutAttempt, Revoke, vars, supVars, mainVars, threadVars
  <2>2. QED
    BY <2>1 DEF CountInv, Waiting, Counted, CountedBefore, Reporting
<1>7. QED
  BY <1>1, <1>2, <1>3, <1>4, <1>5, <1>6, HandledCount, ThreadCount DEF Next

GuessInv == TurnsInv /\ StartsInv /\ OrderInv /\ SavedInv /\ CountInv

LEMMA GuessesHold == Spec => [](TypeOK /\ Sensible /\ Earned /\ GuessInv)
<1>1. Init => Earned /\ GuessInv
  <2> SUFFICES ASSUME Init PROVE Earned /\ GuessInv
    OBVIOUS
  <2>1. Earned
    BY DEF Init, Earned, ToldIsSaved
  <2>2. \A a \in Attempt : ~(a <= accepted)
    BY DEF Init, Attempt
  <2>3. QED
    BY <2>1, <2>2 DEF Init, GuessInv, TurnsInv, StartsInv, OrderInv, SavedInv, CountInv
<1>2. TypeOK /\ Sensible /\ Earned /\ GuessInv /\ [Next]_vars => GuessInv'
  BY TurnsStep, OrderStep, SavedStep, CountStep DEF GuessInv
<1>3. QED
  BY <1>1, <1>2, EarnedStep, SensibleHolds, PTL DEF Spec

\* The key that is saved is that of an attempt before which fewer than MaxFailures of the
\* same window were made: the earlier ones have failed, their failures came before the
\* key, and each was counted (daemon.rs:505, daemon.rs:533).
THEOREM GuessesLimited == Spec => GuessesAreLimited
<1>1. ASSUME TypeOK, Sensible, Earned, GuessInv, [Next]_vars
      PROVE  [\A a \in committed' \ committed :
                Cardinality({b \in 1..(a - 1) : of[b] = of[a]}) < MaxFailures]_vars
  <2> SUFFICES ASSUME NEW a \in committed' \ committed
               PROVE  Cardinality({b \in 1..(a - 1) : of[b] = of[a]}) < MaxFailures
    OBVIOUS
  <2>1. HandleResult
    BY <1>1 DEF Next, vars, history, OpenWindow, ExpireWindow, CloseWindow, Revoke, ReplaceWorker,
       WorkerDies, Receive, AcceptAttempt, ReapAttempt, CutAttempt, Thread, Prove, Fail,
       CommitAnswered, Tell, TellFails, FailureAnswered, CallTimeout, Proceed
  <2>2. CommitResult(Head(toSup)) /\ a = Head(toSup).attempt
    BY <2>1 DEF HandleResult, RefuseResult, CommitResult, CountResult
  <2>3. Head(toSup) = toSup[1] /\ 1 \in DOMAIN toSup
    BY <1>1, <2>1, TailPlaces DEF HandleResult, TypeOK
  <2>4. toSup[1].epoch = of[a] /\ a = toSup[1].attempt /\ a \in Attempt /\ a \in Nat
    BY <1>1, <2>2, <2>3, ResultFacts
  <2>5. window # None /\ ~window.expired /\ window.epoch = of[a] /\ window.failures < MaxFailures
    BY <2>2, <2>3, <2>4 DEF CommitResult, Accepts
  <2>6. Cardinality(CountedBefore(a)) <= window.failures
    BY <1>1, <2>3, <2>4, <2>5 DEF GuessInv, CountInv, Waiting
  <2>7. ASSUME NEW b \in 1..(a - 1), of[b] = of[a] PROVE ~Reporting(b)
    <3>1. ASSUME NEW i \in DOMAIN toSup, toSup[i].attempt = b PROVE FALSE
      <4>1. i < 1
        BY <1>1, <2>3, <2>4, <2>7, <3>1 DEF GuessInv, OrderInv
      <4>2. QED
        BY <1>1, <4>1, ResultFacts
    <3>2. QED
      BY <3>1 DEF Reporting
  <2>8. {b \in 1..(a - 1) : of[b] = of[a]} = CountedBefore(a)
    BY <2>7 DEF CountedBefore
  <2>9. IsFiniteSet(CountedBefore(a))
    BY <1>1, <2>4, CountedTypes
  <2>10. Cardinality(CountedBefore(a)) \in Nat /\ window.failures \in Nat /\ MaxFailures \in Nat
    BY <1>1, <2>5, <2>9, FS_CardinalityType, WindowTypes, ConstantsAssumption
  <2>11. Cardinality(CountedBefore(a)) < MaxFailures
    BY <2>5, <2>6, <2>10
  <2>12. QED
    BY <2>8, <2>11
<1>2. QED
  BY <1>1, GuessesHold, PTL DEF GuessesAreLimited, Spec

-----------------------------------------------------------------------------
(* Attempts beyond the limit *)

\* While calls are answered in time, a thread has one call at a time: its result is
\* under way, or the reply, or the answer is there.
Answering(b, commit) == phase[b] = (IF commit THEN "committing" ELSE "failing") /\ answer[b] = "none"

CallsInv ==
    ~late /\ alive =>
        /\ \A i \in DOMAIN toSup : Answering(toSup[i].attempt, toSup[i].key # None)
        /\ \A j \in DOMAIN toWorker : toWorker[j].type = "Reply" =>
            Answering(toWorker[j].attempt, toWorker[j].commit)
        /\ \A i, j \in DOMAIN toSup : toSup[i].attempt = toSup[j].attempt => i = j
        /\ \A i, j \in DOMAIN toWorker :
            /\ toWorker[i].type = "Reply" /\ toWorker[j].type = "Reply"
            /\ toWorker[i].attempt = toWorker[j].attempt
            => i = j
        /\ \A i \in DOMAIN toSup, j \in DOMAIN toWorker :
            toWorker[j].type = "Reply" => toWorker[j].attempt # toSup[i].attempt

\* A result under way is that of the last attempt of its window, a window expires only
\* when something is late, and an attempt that was not made belongs to no window.
LastInv ==
    /\ ~late => \A i \in DOMAIN toSup : \A b \in Attempt :
            of[b] = of[toSup[i].attempt] => b <= toSup[i].attempt
    /\ ~late /\ window # None => ~window.expired
    /\ \A a \in Attempt : a > accepted => of[a] = 0

\* The reply to an attempt is read after the word that ends the window.
Ends(m) == m.type \in {"PairStop", "PairCommitted"}
Follows(j) == \E i \in DOMAIN toWorker : i < j /\ Ends(toWorker[i])
RepliesTo(b, j) == toWorker[j].type = "Reply" /\ toWorker[j].attempt = b
Behind(b) == \E j \in DOMAIN toWorker : RepliesTo(b, j) /\ Follows(j)

Released == {b \in Counted(served) : ~Behind(b)}

\* Fewer than MaxFailures attempts can be over while the worker listens, and none of
\* them was a success.
ReleasedInv ==
    ~late /\ listening =>
        /\ Cardinality(Released) < MaxFailures
        /\ \A a \in committed : of[a] = served =>
            /\ Answering(a, TRUE)
            /\ \A j \in DOMAIN toWorker : RepliesTo(a, j) => Follows(j)

LEMMA NotLate ==
    ASSUME [Next]_vars, ~late'
    PROVE  ~late /\ ~ExpireWindow /\ \A a \in Attempt : ~CallTimeout(a)
<1>1. ~ExpireWindow /\ \A a \in Attempt : ~CallTimeout(a)
  BY DEF ExpireWindow, CallTimeout
<1>2. \A a \in Attempt : Thread(a) => late' = late
  BY <1>1 DEF Thread, Prove, Fail, CommitAnswered, Tell, TellFails, FailureAnswered
<1>3. CASE UNCHANGED vars
  BY <1>1, <1>3 DEF vars, history
<1>4. CASE OpenWindow \/ CloseWindow \/ HandleResult \/ ReplaceWorker \/ WorkerDies
  BY <1>1, <1>4 DEF OpenWindow, CloseWindow, HandleResult, ReplaceWorker, WorkerDies, history
<1>5. CASE Receive \/ AcceptAttempt \/ ReapAttempt \/ CutAttempt \/ \E h \in Host : Revoke(h)
  BY <1>1, <1>5 DEF Receive, AcceptAttempt, ReapAttempt, CutAttempt, Revoke, history
<1>6. QED
  BY <1>1, <1>2, <1>3, <1>4, <1>5 DEF Next

\* A window that is opened or closed adds no reply.
LEMMA WindowWords ==
    ASSUME TypeOK, OpenWindow \/ CloseWindow
    PROVE  /\ \A i \in DOMAIN toWorker : i \in DOMAIN toWorker' /\ toWorker'[i] = toWorker[i]
           /\ \A j \in DOMAIN toWorker' : j \in DOMAIN toWorker \/ toWorker'[j].type # "Reply"
<1>1. ASSUME NEW messages \in Seq(Message), Sent(messages),
             \A k \in DOMAIN messages : messages[k].type # "Reply"
      PROVE  /\ \A i \in DOMAIN toWorker : i \in DOMAIN toWorker' /\ toWorker'[i] = toWorker[i]
             /\ \A j \in DOMAIN toWorker' : j \in DOMAIN toWorker \/ toWorker'[j].type # "Reply"
  <2>1. CASE toWorker' = toWorker
    BY <2>1
  <2>2. CASE toWorker' = toWorker \o messages
    <3>1. /\ Len(toWorker) \in Nat /\ DOMAIN toWorker = 1..Len(toWorker)
          /\ Len(messages) \in Nat /\ DOMAIN messages = 1..Len(messages)
          /\ DOMAIN toWorker' = 1..(Len(toWorker) + Len(messages))
          /\ \A i \in 1..(Len(toWorker) + Len(messages)) :
                toWorker'[i] = IF i <= Len(toWorker) THEN toWorker[i] ELSE messages[i - Len(toWorker)]
      BY <2>2, ConcatProperties, LenProperties DEF TypeOK
    <3>2. \A i \in DOMAIN toWorker : i \in DOMAIN toWorker' /\ toWorker'[i] = toWorker[i]
      BY <3>1
    <3>3. ASSUME NEW j \in DOMAIN toWorker', j \notin DOMAIN toWorker
          PROVE  toWorker'[j].type # "Reply"
      <4>1. j - Len(toWorker) \in DOMAIN messages /\ toWorker'[j] = messages[j - Len(toWorker)]
        BY <3>1, <3>3
      <4>2. QED
        BY <1>1, <4>1
    <3>4. QED
      BY <3>2, <3>3
  <2>3. QED
    BY <1>1, <2>1, <2>2, SentTypes
<1>2. PICK stop : stop = PairStop
  OBVIOUS
<1>3. stop \in Message /\ stop.type = "PairStop"
  BY <1>2 DEF PairStop, Message
<1>4. ASSUME Sent(<<stop>>)
      PROVE  /\ \A i \in DOMAIN toWorker : i \in DOMAIN toWorker' /\ toWorker'[i] = toWorker[i]
             /\ \A j \in DOMAIN toWorker' : j \in DOMAIN toWorker \/ toWorker'[j].type # "Reply"
  <2>1. <<stop>> \in Seq(Message) /\ \A k \in DOMAIN <<stop>> : <<stop>>[k].type # "Reply"
    BY <1>3
  <2>2. QED
    BY <1>1, <1>4, <2>1
<1>5. ASSUME epoch < MaxEpochs, NEW m, m = [type |-> "PairStart", epoch |-> epoch + 1],
             Sent(<<stop, m>>)
      PROVE  /\ \A i \in DOMAIN toWorker : i \in DOMAIN toWorker' /\ toWorker'[i] = toWorker[i]
             /\ \A j \in DOMAIN toWorker' : j \in DOMAIN toWorker \/ toWorker'[j].type # "Reply"
  <2>1. epoch + 1 \in Epoch
    BY <1>5, ConstantsAssumption DEF Epoch, TypeOK
  <2>2. m \in Message /\ m.type = "PairStart"
    BY <1>5, <2>1 DEF Message
  <2>3. <<stop, m>> \in Seq(Message)
    BY <1>3, <2>2
  <2>4. \A k \in DOMAIN <<stop, m>> : <<stop, m>>[k].type # "Reply"
    BY <1>3, <2>2
  <2>5. QED
    BY <1>1, <1>5, <2>3, <2>4
<1>6. QED
  BY <1>2, <1>4, <1>5 DEF OpenWindow, CloseWindow

\* The place of the reply to the result that is handled: it is the last, and what closes
\* a window comes before it.
ReplyAt(k, r) ==
    /\ k \in DOMAIN toWorker' /\ RepliesTo(r.attempt, k)'
    /\ toWorker'[k].commit = (r.key # None)
    /\ \A i \in DOMAIN toWorker : i \in DOMAIN toWorker' /\ toWorker'[i] = toWorker[i] /\ i < k
    /\ \A j \in DOMAIN toWorker' : j \in DOMAIN toWorker \/ j = k \/ toWorker'[j].type # "Reply"
    /\ window # None /\ window' = None => \E i \in DOMAIN toWorker' : i < k /\ Ends(toWorker'[i])

LEMMA HandledReply ==
    ASSUME TypeOK, HandleResult, alive
    PROVE  \E k : ReplyAt(k, Head(toSup))
<1>1. PICK r \in Result : r = Head(toSup)
  BY HeadResult DEF HandleResult
<1>2. PICK n \in Message : /\ n.type = "Reply" /\ n.attempt = r.attempt /\ n.commit = (r.key # None)
                           /\ n \in {Reply(r, FALSE), Reply(r, TRUE)}
                           /\ \/ Sent(<<n>>) /\ ~(window # None /\ window' = None)
                              \/ Sent(<<PairStop, n>>) \/ Sent(<<[type |-> "PairCommitted"], n>>)
  <2>1. ASSUME NEW ok \in BOOLEAN
        PROVE  /\ Reply(r, ok) \in Message /\ Reply(r, ok).type = "Reply"
               /\ Reply(r, ok).attempt = r.attempt /\ Reply(r, ok).commit = (r.key # None)
    BY ReplyTypes DEF Reply
  <2>2. RefuseResult(r) => Sent(<<Reply(r, FALSE)>>) /\ ~(window # None /\ window' = None)
    <3>1. window # None => window \in Window /\ [window EXCEPT !.noticed = TRUE] \in Window
      BY WindowTypes DEF Window
    <3>2. QED
      BY <3>1, ConstantsAssumption DEF RefuseResult
  <2>3. CountResult(r) => \/ Sent(<<PairStop, Reply(r, TRUE)>>)
                          \/ Sent(<<Reply(r, TRUE)>>) /\ ~(window # None /\ window' = None)
    <3>1. window # None => [window EXCEPT !.failures = @ + 1] \in Window
      BY WindowTypes DEF Window
    <3>2. QED
      BY <3>1, ConstantsAssumption DEF CountResult
  <2>4. CommitResult(r) => Sent(<<[type |-> "PairCommitted"], Reply(r, TRUE)>>)
    BY DEF CommitResult
  <2>5. CASE RefuseResult(r)
    BY <2>1, <2>2, <2>5
  <2>6. CASE CountResult(r)
    BY <2>1, <2>3, <2>6
  <2>7. CASE CommitResult(r)
    BY <2>1, <2>4, <2>7
  <2>8. QED
    BY <1>1, <2>5, <2>6, <2>7 DEF HandleResult
<1>3. CASE toWorker' = toWorker \o <<n>> /\ ~(window # None /\ window' = None)
  <2>1. Longer(toWorker, toWorker', n)
    BY <1>3, LongerByOne DEF TypeOK
  <2>2. PICK k : k = Len(toWorker) + 1
    OBVIOUS
  <2>3. ReplyAt(k, r)
    BY <1>2, <1>3, <2>1, <2>2 DEF Longer, ReplyAt, RepliesTo
  <2>4. QED
    BY <1>1, <2>3
<1>4. ASSUME NEW m \in Message, Ends(m), toWorker' = toWorker \o <<m, n>>
      PROVE  \E k : ReplyAt(k, r)
  <2>1. PICK messages : messages = <<m, n>>
    OBVIOUS
  <2>2. messages \in Seq(Message) /\ Len(messages) = 2 /\ messages[1] = m /\ messages[2] = n
    BY <2>1
  <2>3. /\ Len(toWorker) \in Nat /\ DOMAIN toWorker = 1..Len(toWorker)
        /\ DOMAIN toWorker' = 1..(Len(toWorker) + 2)
        /\ \A i \in 1..(Len(toWorker) + 2) :
              toWorker'[i] = IF i <= Len(toWorker) THEN toWorker[i] ELSE messages[i - Len(toWorker)]
    BY <1>4, <2>1, <2>2, ConcatProperties, LenProperties DEF TypeOK
  <2>4. PICK l \in Nat, k \in Nat : l = Len(toWorker) + 1 /\ k = Len(toWorker) + 2
    BY <2>3
  <2>5. toWorker'[l] = m /\ toWorker'[k] = n
    <3>1. /\ l \in 1..(Len(toWorker) + 2) /\ ~(l <= Len(toWorker)) /\ l - Len(toWorker) = 1
          /\ k \in 1..(Len(toWorker) + 2) /\ ~(k <= Len(toWorker)) /\ k - Len(toWorker) = 2
      BY <2>3, <2>4
    <3>2. QED
      BY <2>2, <2>3, <3>1
  <2>6. l \in DOMAIN toWorker' /\ k \in DOMAIN toWorker' /\ l < k
    BY <2>3, <2>4
  <2>7. \A i \in DOMAIN toWorker : i \in DOMAIN toWorker' /\ toWorker'[i] = toWorker[i] /\ i < k
    BY <2>3, <2>4
  <2>8. \A j \in DOMAIN toWorker' : j \in DOMAIN toWorker \/ j = k \/ j = l
    BY <2>3, <2>4
  <2>9. m.type # "Reply"
    BY <1>4 DEF Ends
  <2>10. RepliesTo(r.attempt, k)' /\ toWorker'[k].commit = (r.key # None)
    BY <1>2, <2>5 DEF RepliesTo
  <2>11. ReplyAt(k, r)
    BY <1>4, <2>5, <2>6, <2>7, <2>8, <2>9, <2>10 DEF ReplyAt
  <2>12. QED
    BY <2>11
<1>5. PairStop \in Message /\ [type |-> "PairCommitted"] \in Message
  BY DEF PairStop, Message
<1>6. Ends(PairStop) /\ Ends([type |-> "PairCommitted"])
  BY DEF PairStop, Ends
<1>7. QED
  BY <1>1, <1>2, <1>3, <1>4, <1>5, <1>6 DEF Sent

\* A thread that goes on has no call under way, and none is answered after it.
LEMMA ThreadCalls ==
    ASSUME TypeOK, CallsInv, ~late, alive, NEW a \in Attempt, Thread(a), ~CallTimeout(a)
    PROVE  /\ \A i \in DOMAIN toSup : toSup[i].attempt # a
           /\ \A j \in DOMAIN toWorker : ~RepliesTo(a, j)
           /\ answer'[a] = "none"
           /\ \A b \in Attempt : b # a => answer'[b] = answer[b]
           /\ ~Answering(a, TRUE)
<1>1. phase[a] \notin {"committing", "failing"} \/ answer[a] # "none"
  BY DEF Thread, Prove, Fail, CommitAnswered, Tell, TellFails, FailureAnswered
<1>2. ~Answering(a, TRUE) /\ ~Answering(a, FALSE)
  BY <1>1 DEF Answering
<1>3. \A i \in DOMAIN toSup : Answering(toSup[i].attempt, toSup[i].key # None)
  BY DEF CallsInv
<1>4. \A i \in DOMAIN toSup : toSup[i].attempt # a
  BY <1>1, <1>3 DEF Answering
<1>5. \A j \in DOMAIN toWorker : ~RepliesTo(a, j)
  BY <1>1 DEF Answering, CallsInv, RepliesTo
<1>6. answer' = [answer EXCEPT ![a] = "none"]
  BY DEF Thread, Prove, Fail, CommitAnswered, Tell, TellFails, FailureAnswered, Proceed
<1>7. QED
  BY <1>2, <1>4, <1>5, <1>6 DEF TypeOK

LEMMA ThreadOneCall ==
    ASSUME TypeOK, Sensible, TurnsInv, CallsInv, ~late, NEW a \in Attempt, Thread(a),
           ~CallTimeout(a)
    PROVE  CallsInv'
<1>1. /\ phase[a] \notin {"none", "done"} /\ UNCHANGED <<alive, toWorker>>
      /\ \A b \in Attempt : b # a => phase'[b] = phase[b]
  BY ThreadMoves DEF mainVars
<1>2. alive
  BY <1>1 DEF TurnsInv
<1>3. /\ \A i \in DOMAIN toSup : toSup[i].attempt # a
      /\ \A j \in DOMAIN toWorker : ~RepliesTo(a, j)
      /\ answer'[a] = "none"
      /\ \A b \in Attempt : b # a => answer'[b] = answer[b]
  BY <1>2, ThreadCalls
<1>4. ASSUME NEW b \in Attempt, b # a, NEW commit, Answering(b, commit)
      PROVE  Answering(b, commit)'
  BY <1>1, <1>3, <1>4 DEF Answering
<1>5. /\ \A i \in DOMAIN toSup : toSup[i].attempt \in Attempt
      /\ \A j \in DOMAIN toWorker : toWorker[j].type = "Reply" => toWorker[j].attempt \in Attempt
  <2>1. \A j \in DOMAIN toWorker : toWorker[j] \in Message
    BY DEF TypeOK
  <2>2. QED
    BY <2>1, MessageTypes, ResultFacts
<1>6. \A i \in DOMAIN toSup : Answering(toSup[i].attempt, toSup[i].key # None)'
        \/ toSup'[i] # toSup[i]
  <2>1. ASSUME NEW i \in DOMAIN toSup, toSup'[i] = toSup[i]
        PROVE  Answering(toSup[i].attempt, toSup[i].key # None)'
    <3>1. Answering(toSup[i].attempt, toSup[i].key # None)
      BY <1>2 DEF CallsInv
    <3>2. toSup[i].attempt \in Attempt /\ toSup[i].attempt # a
      BY <1>3, <1>5
    <3>3. QED
      BY <1>1, <1>3, <2>1, <3>1, <3>2 DEF Answering
  <2>2. QED
    BY <2>1
<1>7. \A j \in DOMAIN toWorker' : toWorker'[j].type = "Reply" =>
            Answering(toWorker[j].attempt, toWorker[j].commit)'
  <2>1. ASSUME NEW j \in DOMAIN toWorker, toWorker[j].type = "Reply"
        PROVE  Answering(toWorker[j].attempt, toWorker[j].commit)'
    <3>1. Answering(toWorker[j].attempt, toWorker[j].commit)
      BY <1>2, <2>1 DEF CallsInv
    <3>2. toWorker[j].attempt \in Attempt /\ toWorker[j].attempt # a
      BY <1>3, <1>5, <2>1 DEF RepliesTo
    <3>3. QED
      BY <1>1, <1>3, <3>1, <3>2 DEF Answering
  <2>2. QED
    BY <1>1, <2>1
<1>8. CASE toSup' = toSup
  BY <1>1, <1>2, <1>6, <1>7, <1>8 DEF CallsInv
<1>9. ASSUME NEW r, r.attempt = a, Longer(toSup, toSup', r),
             phase'[a] = IF r.key # None THEN "committing" ELSE "failing"
      PROVE  CallsInv'
  <2>1. PICK n : /\ n \notin DOMAIN toSup /\ DOMAIN toSup' = DOMAIN toSup \cup {n}
                 /\ toSup'[n] = r /\ \A i \in DOMAIN toSup : toSup'[i] = toSup[i]
    BY <1>9 DEF Longer
  <2>2. ASSUME NEW i \in DOMAIN toSup' PROVE Answering(toSup[i].attempt, toSup[i].key # None)'
    <3>1. CASE i = n
      BY <1>3, <1>9, <2>1, <3>1 DEF Answering
    <3>2. CASE i \in DOMAIN toSup
      BY <1>6, <2>1, <3>2
    <3>3. QED
      BY <2>1, <3>1, <3>2
  <2>3. ASSUME NEW i \in DOMAIN toSup', NEW j \in DOMAIN toSup', toSup'[i].attempt = toSup'[j].attempt
        PROVE  i = j
    <3>1. CASE i \in DOMAIN toSup /\ j \in DOMAIN toSup
      BY <1>2, <2>1, <2>3, <3>1 DEF CallsInv
    <3>2. QED
      BY <1>3, <1>9, <2>1, <2>3, <3>1
  <2>4. ASSUME NEW i \in DOMAIN toSup', NEW j \in DOMAIN toWorker', toWorker'[j].type = "Reply"
        PROVE  toWorker'[j].attempt # toSup'[i].attempt
    <3>1. CASE i \in DOMAIN toSup
      BY <1>1, <1>2, <2>1, <2>4, <3>1 DEF CallsInv
    <3>2. CASE i = n
      BY <1>1, <1>3, <1>9, <2>1, <2>4, <3>2 DEF RepliesTo
    <3>3. QED
      BY <2>1, <3>1, <3>2
  <2>5. \A i, j \in DOMAIN toWorker' :
            /\ toWorker'[i].type = "Reply" /\ toWorker'[j].type = "Reply"
            /\ toWorker'[i].attempt = toWorker'[j].attempt
            => i = j
    BY <1>1, <1>2 DEF CallsInv
  <2>6. QED
    BY <1>7, <2>2, <2>3, <2>4, <2>5 DEF CallsInv
<1>10. CASE /\ phase'[a] = "committing"
            /\ \E h \in Host : Longer(toSup, toSup', [attempt |-> a, epoch |-> of[a], key |-> h])
  <2>1. PICK h \in Host : Longer(toSup, toSup', [attempt |-> a, epoch |-> of[a], key |-> h])
    BY <1>10
  <2>2. h # None
    BY ConstantsAssumption
  <2>3. QED
    BY <1>9, <1>10, <2>1, <2>2
<1>11. CASE phase'[a] = "failing" /\ Longer(toSup, toSup', Failure(a))
  BY <1>9, <1>11 DEF Failure
<1>12. QED
  BY <1>8, <1>10, <1>11, ThreadMoves

\* Only what reads or sends a message, takes or adds a result, or moves a thread, matters
\* to the calls.
LEMMA HandledCalls ==
    ASSUME TypeOK, Sensible, CallsInv, ~late, alive, HandleResult
    PROVE  CallsInv'
<1>1. /\ toSup' = Tail(toSup) /\ toSup # <<>>
      /\ UNCHANGED <<alive, phase, answer>>
  BY DEF HandleResult, mainVars, threadVars
<1>2. PICK r, k : r = Head(toSup) /\ ReplyAt(k, r)
  BY HandledReply
<1>3. r = toSup[1] /\ 1 \in DOMAIN toSup
  BY <1>1, <1>2, TailPlaces DEF TypeOK
<1>4. \A i \in DOMAIN toSup' :
          i \in Nat \ {0} /\ i + 1 \in DOMAIN toSup /\ toSup'[i] = toSup[i + 1] /\ i + 1 # 1
  BY <1>1, TailPlaces DEF TypeOK
<1>5. /\ k \in DOMAIN toWorker' /\ toWorker'[k].type = "Reply" /\ toWorker'[k].attempt = r.attempt
      /\ toWorker'[k].commit = (r.key # None)
      /\ \A j \in DOMAIN toWorker' : toWorker'[j].type = "Reply" =>
            j = k \/ (j \in DOMAIN toWorker /\ toWorker'[j] = toWorker[j])
  BY <1>2 DEF ReplyAt, RepliesTo
<1>6. /\ Answering(r.attempt, r.key # None)
      /\ \A j \in DOMAIN toWorker : toWorker[j].type = "Reply" => toWorker[j].attempt # r.attempt
  BY <1>3 DEF CallsInv
<1>7. ASSUME NEW i \in DOMAIN toSup' PROVE Answering(toSup[i].attempt, toSup[i].key # None)'
  BY <1>1, <1>4 DEF CallsInv, Answering
<1>8. ASSUME NEW j \in DOMAIN toWorker', toWorker'[j].type = "Reply"
      PROVE  Answering(toWorker[j].attempt, toWorker[j].commit)'
  <2>1. CASE j = k
    BY <1>1, <1>5, <1>6, <2>1 DEF Answering
  <2>2. CASE j \in DOMAIN toWorker /\ toWorker'[j] = toWorker[j]
    BY <1>1, <1>8, <2>2 DEF CallsInv, Answering
  <2>3. QED
    BY <1>5, <1>8, <2>1, <2>2
<1>9. ASSUME NEW i \in DOMAIN toSup', NEW j \in DOMAIN toSup', toSup'[i].attempt = toSup'[j].attempt
      PROVE  i = j
  <2>1. i + 1 = j + 1
    BY <1>4, <1>9 DEF CallsInv
  <2>2. QED
    BY <1>4, <2>1
<1>10. ASSUME NEW i \in DOMAIN toWorker', NEW j \in DOMAIN toWorker',
             toWorker'[i].type = "Reply", toWorker'[j].type = "Reply",
             toWorker'[i].attempt = toWorker'[j].attempt
      PROVE  i = j
  <2>1. CASE i = k /\ j = k
    BY <2>1
  <2>2. CASE i # k /\ j # k
    BY <1>5, <1>10, <2>2 DEF CallsInv
  <2>3. CASE (i = k /\ j # k) \/ (i # k /\ j = k)
    BY <1>5, <1>6, <1>10, <2>3
  <2>4. QED
    BY <2>1, <2>2, <2>3
<1>11. ASSUME NEW i \in DOMAIN toSup', NEW j \in DOMAIN toWorker', toWorker'[j].type = "Reply"
      PROVE  toWorker'[j].attempt # toSup'[i].attempt
  <2>1. CASE j = k
    BY <1>3, <1>4, <1>5, <2>1 DEF CallsInv
  <2>2. CASE j # k
    BY <1>4, <1>5, <1>11, <2>2 DEF CallsInv
  <2>3. QED
    BY <2>1, <2>2
<1>12. QED
  BY <1>7, <1>8, <1>9, <1>10, <1>11 DEF CallsInv

LEMMA ReceivedCalls ==
    ASSUME TypeOK, Sensible, CallsInv, ~late, alive, Receive
    PROVE  CallsInv'
<1>1. /\ toWorker # <<>> /\ toWorker' = Tail(toWorker)
      /\ UNCHANGED <<alive, phase, toSup>>
  BY DEF Receive
<1>2. PICK m \in Message : m = Head(toWorker)
  BY <1>1, HeadMessage
<1>3. /\ m = toWorker[1] /\ 1 \in DOMAIN toWorker
      /\ \A i \in DOMAIN toWorker' :
            /\ i \in Nat \ {0} /\ i + 1 # 1
            /\ i + 1 \in DOMAIN toWorker /\ toWorker'[i] = toWorker[i + 1]
  BY <1>1, <1>2, TailPlaces DEF TypeOK
<1>4. ASSUME NEW b \in Attempt, answer'[b] # answer[b] PROVE m.type = "Reply" /\ m.attempt = b
  BY <1>2, <1>4 DEF Receive, ReceiveStart, ReceiveStop, ReceiveCommitted, ReceiveReply, TypeOK
<1>5. ASSUME NEW i \in DOMAIN toSup' PROVE Answering(toSup[i].attempt, toSup[i].key # None)'
  <2>1. Answering(toSup[i].attempt, toSup[i].key # None) /\ toSup[i].attempt \in Attempt
    BY <1>1, ResultFacts DEF CallsInv
  <2>2. m.type = "Reply" => m.attempt # toSup[i].attempt
    BY <1>1, <1>3 DEF CallsInv
  <2>3. QED
    BY <1>1, <1>4, <2>1, <2>2 DEF Answering
<1>6. ASSUME NEW j \in DOMAIN toWorker', toWorker'[j].type = "Reply"
      PROVE  Answering(toWorker[j].attempt, toWorker[j].commit)'
  <2>1. j + 1 \in DOMAIN toWorker /\ toWorker'[j] = toWorker[j + 1] /\ j + 1 # 1
    BY <1>3
  <2>2. /\ Answering(toWorker[j + 1].attempt, toWorker[j + 1].commit)
        /\ toWorker[j + 1] \in Message
    BY <1>6, <2>1 DEF CallsInv, TypeOK
  <2>3. toWorker[j + 1].attempt \in Attempt
    BY <1>6, <2>1, <2>2, MessageTypes
  <2>4. m.type = "Reply" => m.attempt # toWorker[j + 1].attempt
    BY <1>3, <1>6, <2>1 DEF CallsInv
  <2>5. QED
    BY <1>1, <1>4, <2>1, <2>2, <2>3, <2>4 DEF Answering
<1>7. ASSUME NEW i \in DOMAIN toWorker', NEW j \in DOMAIN toWorker',
             toWorker'[i].type = "Reply", toWorker'[j].type = "Reply",
             toWorker'[i].attempt = toWorker'[j].attempt
      PROVE  i = j
  <2>1. i + 1 = j + 1
    BY <1>3, <1>7 DEF CallsInv
  <2>2. QED
    BY <1>3, <2>1
<1>8. QED
  BY <1>1, <1>3, <1>5, <1>6, <1>7 DEF CallsInv

LEMMA CallsStep ==
    ASSUME TypeOK, Sensible, TurnsInv, CallsInv, [Next]_vars
    PROVE  CallsInv'
<1> SUFFICES ASSUME ~late', alive' PROVE CallsInv'
  BY DEF CallsInv
<1>1. ~late /\ ~ExpireWindow /\ \A a \in Attempt : ~CallTimeout(a)
  BY NotLate
<1>2. CASE ReplaceWorker \/ WorkerDies
  BY <1>2 DEF ReplaceWorker, WorkerDies, NoWorker, CallsInv
<1>3. ~(ReplaceWorker \/ WorkerDies) => alive
  <2>1. \A a \in Attempt : Thread(a) => UNCHANGED mainVars
    BY ThreadMoves
  <2>2. QED
    BY <2>1 DEF Next, OpenWindow, ExpireWindow, CloseWindow, HandleResult, Revoke, Receive,
       AcceptAttempt, ReapAttempt, CutAttempt, vars, mainVars
<1>4. CASE HandleResult
  BY <1>1, <1>3, <1>4, HandledCalls DEF HandleResult, mainVars
<1>5. CASE OpenWindow \/ CloseWindow
  <2>1. UNCHANGED <<alive, phase, answer, toSup>>
    BY <1>5 DEF OpenWindow, CloseWindow, mainVars, threadVars
  <2>2. \A j \in DOMAIN toWorker' : toWorker'[j].type = "Reply" =>
            j \in DOMAIN toWorker /\ toWorker'[j] = toWorker[j]
    BY <1>5, WindowWords
  <2>3. alive
    BY <2>1
  <2>4. QED
    BY <1>1, <2>1, <2>2, <2>3 DEF CallsInv, Answering
<1>6. CASE AcceptAttempt
  <2>1. /\ UNCHANGED <<alive, answer, toSup, toWorker>> /\ accepted < MaxAttempts
        /\ phase' = [phase EXCEPT ![accepted + 1] = "talking"]
    BY <1>6 DEF AcceptAttempt
  <2>2. accepted + 1 \in Attempt /\ accepted \in Nat
    BY <2>1, ConstantsAssumption DEF Attempt, TypeOK
  <2>3. phase[accepted + 1] = "none"
    BY <2>2 DEF Sensible
  <2>4. \A i \in DOMAIN toSup' : Answering(toSup[i].attempt, toSup[i].key # None)'
    BY <1>1, <2>1, <2>3 DEF Answering, TypeOK, CallsInv
  <2>5. \A j \in DOMAIN toWorker' : toWorker'[j].type = "Reply" =>
            Answering(toWorker[j].attempt, toWorker[j].commit)'
    BY <1>1, <2>1, <2>3 DEF Answering, TypeOK, CallsInv
  <2>6. QED
    BY <1>1, <2>1, <2>4, <2>5 DEF CallsInv
<1>7. CASE Receive
  BY <1>1, <1>7, ReceivedCalls DEF Receive
<1>8. CASE ReapAttempt \/ CutAttempt \/ (\E h \in Host : Revoke(h)) \/ UNCHANGED vars
  <2>1. UNCHANGED <<alive, phase, answer, toSup, toWorker, late>>
    BY <1>8 DEF ReapAttempt, CutAttempt, Revoke, vars, mainVars, threadVars, history
  <2>2. QED
    BY <2>1 DEF CallsInv, Answering
<1>9. ASSUME NEW a \in Attempt, Thread(a) PROVE CallsInv'
  BY <1>1, <1>9, ThreadOneCall
<1>10. QED
  BY <1>1, <1>2, <1>4, <1>5, <1>6, <1>7, <1>8, <1>9 DEF Next

LEMMA LastStep ==
    ASSUME TypeOK, Sensible, TurnsInv, CallsInv, LastInv, [Next]_vars
    PROVE  LastInv'
<1>1. ~late' => ~late /\ ~ExpireWindow
  BY NotLate
<1>2. accepted \in Nat /\ accepted <= MaxAttempts /\ MaxAttempts \in Nat
  BY ConstantsAssumption DEF TypeOK
<1>3. CASE HandleResult
  <2>1. toSup' = Tail(toSup) /\ toSup # <<>> /\ UNCHANGED <<accepted, of>>
    BY <1>3 DEF HandleResult, threadVars
  <2>2. \A i \in DOMAIN toSup' : i + 1 \in DOMAIN toSup /\ toSup'[i] = toSup[i + 1]
    BY <2>1, TailPlaces DEF TypeOK
  <2>3. ASSUME ~late, window # None => ~window.expired, window' # None
        PROVE  ~window'.expired
    <3>1. window # None
      BY <1>3, <2>3 DEF HandleResult, RefuseResult, CommitResult, CountResult, Accepts
    <3>2. window \in Window
      BY <3>1, WindowTypes
    <3>3. QED
      BY <1>3, <2>3, <3>1, <3>2 DEF HandleResult, RefuseResult, CommitResult, CountResult, Window
  <2>4. QED
    BY <1>1, <2>1, <2>2, <2>3 DEF LastInv
<1>4. CASE OpenWindow \/ CloseWindow
  <2>1. UNCHANGED <<accepted, of, toSup>> /\ (window' # None => ~window'.expired)
    BY <1>4 DEF OpenWindow, CloseWindow, threadVars
  <2>2. QED
    BY <1>1, <2>1 DEF LastInv
<1>5. CASE ExpireWindow
  <2>1. UNCHANGED <<accepted, of>> /\ late'
    BY <1>5 DEF ExpireWindow, threadVars
  <2>2. QED
    BY <2>1 DEF LastInv
<1>6. CASE ReplaceWorker
  <2>1. toSup' = <<>> /\ window' = None /\ UNCHANGED <<accepted, of>>
    BY <1>6 DEF ReplaceWorker, NoWorker
  <2>2. QED
    BY <2>1 DEF LastInv
<1>7. CASE AcceptAttempt
  <2>1. /\ UNCHANGED <<window, toSup>> /\ active = 0 /\ listening /\ accepted < MaxAttempts
        /\ accepted' = accepted + 1 /\ of' = [of EXCEPT ![accepted + 1] = served]
    BY <1>7 DEF AcceptAttempt, supVars
  <2>2. PICK n \in Attempt : n = accepted + 1
    BY <1>2, <2>1 DEF Attempt
  <2>3. of'[n] = served /\ \A b \in Attempt : b # n => of'[b] = of[b]
    BY <2>1, <2>2 DEF TypeOK
  <2>4. ASSUME ~late, NEW i \in DOMAIN toSup, NEW b \in Attempt, of'[b] = of'[toSup[i].attempt]
        PROVE  b <= toSup[i].attempt
    <3>1. /\ toSup[i].attempt \in Attempt /\ toSup[i].attempt \in Nat
          /\ toSup[i].attempt <= accepted /\ toSup[i].attempt # n
      BY <1>2, <2>2, ResultFacts
    <3>2. CASE b = n
      <4>1. of[toSup[i].attempt] = served
        BY <2>3, <2>4, <3>1, <3>2
      <4>2. active # toSup[i].attempt
        BY <2>1, <3>1 DEF Attempt
      <4>3. phase[toSup[i].attempt] = "done"
        BY <3>1, <4>1, <4>2 DEF TurnsInv
      <4>4. alive
        BY <2>1 DEF Sensible
      <4>5. QED
        BY <2>4, <4>3, <4>4 DEF CallsInv, Answering
    <3>3. CASE b # n
      BY <2>3, <2>4, <3>1, <3>3 DEF LastInv
    <3>4. QED
      BY <3>2, <3>3
  <2>5. ASSUME NEW a \in Attempt, a > accepted + 1 PROVE of'[a] = 0
    <3>1. a \in Nat /\ a > accepted /\ a # n
      BY <1>2, <2>2, <2>5 DEF Attempt
    <3>2. QED
      BY <2>3, <3>1 DEF LastInv
  <2>6. QED
    BY <1>1, <2>1, <2>4, <2>5 DEF LastInv
<1>8. CASE WorkerDies \/ Receive \/ ReapAttempt \/ CutAttempt \/ (\E h \in Host : Revoke(h))
           \/ UNCHANGED vars
  <2>1. UNCHANGED <<window, accepted, of, toSup>>
    BY <1>8 DEF WorkerDies, NoWorker, Receive, ReapAttempt, CutAttempt, Revoke, vars, supVars,
       threadVars
  <2>2. QED
    BY <1>1, <2>1 DEF LastInv
<1>9. ASSUME NEW a \in Attempt, Thread(a) PROVE LastInv'
  <2>1. phase[a] \notin {"none", "done"} /\ UNCHANGED <<window, accepted, of>>
    BY <1>9, ThreadMoves DEF supVars
  <2>2. ASSUME ~late, NEW b \in Attempt, of[b] = of[a] PROVE b <= a
    <3>1. a \in Nat /\ b \in Nat
      BY DEF Attempt
    <3>2. a <= accepted /\ of[a] # 0
      BY <1>2, <2>1, <3>1 DEF Sensible
    <3>3. b <= accepted
      BY <1>2, <2>2, <3>1, <3>2 DEF LastInv
    <3>4. ~(a < b)
      BY <2>1, <2>2, <3>3 DEF TurnsInv
    <3>5. QED
      BY <3>1, <3>4
  <2>3. CASE toSup' = toSup
    BY <1>1, <2>1, <2>3 DEF LastInv
  <2>4. ASSUME NEW r, r.attempt = a, Longer(toSup, toSup', r) PROVE LastInv'
    <3>1. \A i \in DOMAIN toSup' : (i \in DOMAIN toSup /\ toSup'[i] = toSup[i]) \/ toSup'[i].attempt = a
      BY <2>4 DEF Longer
    <3>2. ASSUME ~late, NEW i \in DOMAIN toSup', NEW b \in Attempt, of[b] = of[toSup'[i].attempt]
          PROVE  b <= toSup'[i].attempt
      BY <2>2, <3>1, <3>2 DEF LastInv
    <3>3. QED
      BY <1>1, <2>1, <3>2 DEF LastInv
  <2>5. CASE \E h \in Host : Longer(toSup, toSup', [attempt |-> a, epoch |-> of[a], key |-> h])
    BY <2>4, <2>5
  <2>6. CASE Longer(toSup, toSup', Failure(a))
    BY <2>4, <2>6 DEF Failure
  <2>7. QED
    BY <1>9, <2>3, <2>5, <2>6, ThreadMoves
<1>10. QED
  BY <1>3, <1>4, <1>5, <1>6, <1>7, <1>8, <1>9 DEF Next

\* No more attempts are released, and the replies to a success still follow the end.
LEMMA ReleasedStays ==
    ASSUME TypeOK, ReleasedInv, ~late, listening,
           \/ Released' \subseteq Released
           \/ Cardinality(Released') < MaxFailures,
           \A a \in committed' : of'[a] = served' =>
               /\ Answering(a, TRUE)'
               /\ \A j \in DOMAIN toWorker' : RepliesTo(a, j)' => Follows(j)'
    PROVE  ReleasedInv'
<1>1. IsFiniteSet(Released)
  <2>1. IsFiniteSet(1..accepted) /\ Released \subseteq 1..accepted
    BY ConstantsAssumption, FS_Interval DEF TypeOK, Released, Counted
  <2>2. QED
    BY <2>1, FS_Subset
<1>2. Cardinality(Released) \in Nat /\ Cardinality(Released) < MaxFailures /\ MaxFailures \in Nat
  BY <1>1, FS_CardinalityType, ConstantsAssumption DEF ReleasedInv
<1>3. ASSUME Released' \subseteq Released PROVE Cardinality(Released') < MaxFailures
  <2>1. IsFiniteSet(Released') /\ Cardinality(Released') <= Cardinality(Released)
    BY <1>1, <1>3, FS_Subset
  <2>2. Cardinality(Released') \in Nat
    BY <2>1, FS_CardinalityType
  <2>3. QED
    BY <1>2, <2>1, <2>2
<1>4. QED
  BY <1>3 DEF ReleasedInv

\* The supervisor answers: a reply to an attempt of a window that is over follows the end.
LEMMA HandledReleased ==
    ASSUME TypeOK, Sensible, Agreement, CallsInv, LastInv, SavedInv, ReleasedInv, HandleResult,
           ~late, listening, TypeOK', CountInv', LastInv'
    PROVE  ReleasedInv'
<1>1. /\ toSup' = Tail(toSup) /\ toSup # <<>> /\ late' = late
      /\ UNCHANGED <<alive, served, listening, accepted, of, phase, answer>>
  BY DEF HandleResult, mainVars, threadVars
<1>2. alive
  BY DEF Sensible
<1>3. PICK r, k : r = Head(toSup) /\ ReplyAt(k, r)
  BY <1>2, HandledReply
<1>4. r = toSup[1] /\ 1 \in DOMAIN toSup
  BY <1>1, <1>3, TailPlaces DEF TypeOK
<1>5. /\ r.attempt \in Attempt /\ r.epoch = of[r.attempt] /\ Answering(r.attempt, r.key # None)
      /\ \A j \in DOMAIN toWorker : ~RepliesTo(r.attempt, j)
  BY <1>2, <1>4, ResultFacts DEF CallsInv, RepliesTo
<1>6. /\ \A i \in DOMAIN toWorker : i \in DOMAIN toWorker' /\ toWorker'[i] = toWorker[i] /\ i < k
      /\ k \in DOMAIN toWorker' /\ RepliesTo(r.attempt, k)'
      /\ \A j \in DOMAIN toWorker' : j \in DOMAIN toWorker \/ j = k \/ toWorker'[j].type # "Reply"
  BY <1>3 DEF ReplyAt
<1>7. \A b, j : /\ RepliesTo(b, j)' /\ j \in DOMAIN toWorker'
                => (j \in DOMAIN toWorker /\ RepliesTo(b, j)) \/ (j = k /\ b = r.attempt)
  BY <1>6 DEF RepliesTo
<1>8. \A j \in DOMAIN toWorker : Follows(j) => Follows(j)'
  BY <1>6 DEF Follows
<1>9. ~Agreed(served) => Follows(k)'
  <2>1. ASSUME ~Agreed(served) PROVE Follows(k)'
    <3>1. PICK i \in DOMAIN toWorker : toWorker[i].type \in {"PairStop", "PairCommitted"}
      BY <2>1 DEF Agreement, EndsAfter
    <3>2. QED
      BY <1>6, <3>1 DEF Follows, Ends
  <2>2. QED
    BY <2>1
<1>10. window # None /\ window' = None => Follows(k)'
  BY <1>3 DEF ReplyAt, Follows
<1>11. window' # None => window # None /\ window'.epoch = window.epoch
  <2>1. window # None => window \in Window
    BY WindowTypes
  <2>2. QED
    BY <2>1 DEF HandleResult, RefuseResult, CommitResult, CountResult, Accepts, Window
<1>12. CASE Agreed(served)'
  <2>1. window' # None /\ window'.epoch = served' /\ ~window'.expired /\ alive'
    BY <1>1, <1>2, <1>12 DEF Agreed, LastInv
  <2>2. Cardinality(Counted(served)') <= window'.failures
    <3>1. Cardinality(Counted(window.epoch)') <= window'.failures
      BY <2>1 DEF CountInv
    <3>2. Counted(window.epoch)' = Counted(served)'
      BY <2>1 DEF Counted
    <3>3. QED
      BY <3>1, <3>2
  <2>3. IsFiniteSet(Counted(served)')
    <3>1. IsFiniteSet(1..accepted')
      BY ConstantsAssumption, FS_Interval DEF TypeOK
    <3>2. QED
      BY <3>1, FS_Subset DEF Counted
  <2>4. Released' \subseteq Counted(served)'
    BY DEF Released
  <2>5. /\ Cardinality(Released') <= Cardinality(Counted(served)')
        /\ Cardinality(Released') \in Nat /\ Cardinality(Counted(served)') \in Nat
    <3>1. IsFiniteSet(Released') /\ Cardinality(Released') <= Cardinality(Counted(served)')
      BY <2>3, <2>4, FS_Subset
    <3>2. QED
      BY <2>3, <3>1, FS_CardinalityType
  <2>6. window'.failures \in Nat /\ window'.failures < MaxFailures /\ MaxFailures \in Nat
    BY <2>1, ConstantsAssumption DEF TypeOK, Window
  <2>7. Cardinality(Released') < MaxFailures
    BY <2>2, <2>5, <2>6
  <2>8. window # None /\ window.epoch = served
    BY <1>1, <1>11, <2>1
  <2>9. committed' = committed \/ window' = None
    BY DEF HandleResult, RefuseResult, CommitResult, CountResult
  <2>10. \A a \in committed' : of'[a] # served'
    BY <1>1, <2>1, <2>8, <2>9 DEF SavedInv
  <2>11. QED
    BY <2>7, <2>10, ReleasedStays
<1>13. CASE ~Agreed(served)'
  <2>1. Follows(k)'
    BY <1>1, <1>9, <1>10, <1>11, <1>13 DEF Agreed
  <2>2. ASSUME NEW b \in Released' PROVE b \in Released
    <3>1. b \in 1..accepted /\ of[b] = served /\ phase[b] \in {"failing", "done"} /\ ~Reporting(b)'
          /\ ~Behind(b)'
      BY <1>1, <2>2 DEF Released, Counted
    <3>2. b # r.attempt
      BY <1>6, <2>1, <3>1 DEF Behind
    <3>3. ~Reporting(b)
      <4>1. ASSUME NEW i \in DOMAIN toSup, toSup[i].attempt = b, toSup[i].key = None
            PROVE  FALSE
        <5>1. i # 1 /\ i \in Nat \ {0}
          BY <1>4, <3>2, <4>1, ResultFacts
        <5>2. i > 1
          BY <5>1
        <5>3. i - 1 \in DOMAIN Tail(toSup)
          BY <1>1, <5>2, TailPlaces DEF TypeOK
        <5>4. Tail(toSup)[i - 1] = toSup[(i - 1) + 1] /\ (i - 1) + 1 = i
          BY <1>1, <5>1, <5>3, TailPlaces DEF TypeOK
        <5>5. QED
          BY <1>1, <3>1, <4>1, <5>3, <5>4 DEF Reporting
      <4>2. QED
        BY <4>1 DEF Reporting
    <3>4. ~Behind(b)
      BY <1>6, <1>8, <3>1 DEF Behind, RepliesTo
    <3>5. QED
      BY <3>1, <3>3, <3>4 DEF Released, Counted
  <2>3. ASSUME NEW a \in committed', of'[a] = served'
        PROVE  /\ Answering(a, TRUE)'
               /\ \A j \in DOMAIN toWorker' : RepliesTo(a, j)' => Follows(j)'
    <3>1. CASE a \in committed
      <4>1. Answering(a, TRUE) /\ \A j \in DOMAIN toWorker : RepliesTo(a, j) => Follows(j)
        BY <1>1, <2>3, <3>1 DEF ReleasedInv
      <4>2. Answering(a, TRUE)'
        BY <1>1, <4>1 DEF Answering
      <4>3. QED
        BY <1>7, <1>8, <2>1, <4>1, <4>2
    <3>2. CASE a \notin committed
      <4>1. a = r.attempt /\ r.key # None
        BY <1>3, <2>3, <3>2 DEF HandleResult, RefuseResult, CommitResult, CountResult
      <4>2. Answering(a, TRUE)'
        BY <1>1, <1>5, <4>1 DEF Answering
      <4>3. QED
        BY <1>5, <1>7, <2>1, <4>1, <4>2
    <3>3. QED
      BY <3>1, <3>2
  <2>4. QED
    BY <2>2, <2>3, ReleasedStays
<1>14. QED
  BY <1>12, <1>13

\* The worker reads: a reply that it takes was released before.
LEMMA ReceivedReleased ==
    ASSUME TypeOK, Sensible, StartsInv, LastInv, SavedInv, CallsInv, ReleasedInv, Receive,
           ~late, listening'
    PROVE  ReleasedInv'
<1>1. /\ toWorker # <<>> /\ toWorker' = Tail(toWorker) /\ late' = late
      /\ UNCHANGED <<accepted, of, phase, toSup, committed>>
  BY DEF Receive, history
<1>2. PICK m \in Message : m = Head(toWorker)
  BY <1>1, HeadMessage
<1>3. /\ m = toWorker[1] /\ 1 \in DOMAIN toWorker
      /\ \A i \in DOMAIN toWorker' :
            i \in Nat \ {0} /\ i + 1 \in DOMAIN toWorker /\ toWorker'[i] = toWorker[i + 1]
      /\ \A i \in DOMAIN toWorker : i \in Nat \ {0} /\ (i > 1 => i - 1 \in DOMAIN toWorker')
  BY <1>1, <1>2, TailPlaces DEF TypeOK
<1>4. CASE m.type = "PairStart"
  <2>1. served' = m.epoch
    BY <1>2, <1>4 DEF Receive, ReceiveStart, ReceiveStop, ReceiveCommitted, ReceiveReply
  <2>2. \A a \in Attempt : a <= accepted => of[a] # m.epoch
    <3>1. \A a \in Attempt : a <= accepted => of[a] < m.epoch
      BY <1>3, <1>4 DEF StartsInv
    <3>2. m.epoch \in Nat /\ \A a \in Attempt : of[a] \in Nat
      BY <1>4, MessageTypes, ConstantsAssumption DEF TypeOK, Epoch
    <3>3. QED
      BY <3>1, <3>2
  <2>3. 1..accepted \subseteq Attempt
    BY ConstantsAssumption DEF TypeOK, Attempt
  <2>4. Released' = {}
    <3>1. ASSUME NEW b \in 1..accepted, of[b] = m.epoch PROVE FALSE
      <4>1. b \in Attempt /\ b <= accepted
        BY <2>3 DEF TypeOK
      <4>2. QED
        BY <2>2, <3>1, <4>1
    <3>2. QED
      BY <1>1, <2>1, <3>1 DEF Released, Counted
  <2>5. Cardinality(Released') < MaxFailures
    <3>1. Cardinality({}) = 0 /\ MaxFailures \in Nat /\ MaxFailures # 0
      BY FS_EmptySet, ConstantsAssumption
    <3>2. QED
      BY <2>4, <3>1
  <2>6. \A a \in committed' : of'[a] # served'
    BY <1>1, <2>1, <2>2 DEF SavedInv, TypeOK
  <2>7. QED
    BY <2>5, <2>6 DEF ReleasedInv
<1>5. CASE m.type \in {"PairStop", "PairCommitted"}
  BY <1>2, <1>5 DEF Receive, ReceiveStart, ReceiveStop, ReceiveCommitted, ReceiveReply
<1>6. CASE m.type = "Reply"
  <2>1. UNCHANGED <<served, listening>>
    BY <1>2, <1>6 DEF Receive, ReceiveStart, ReceiveStop, ReceiveCommitted, ReceiveReply
  <2>2. \A b \in Attempt : b # m.attempt => answer'[b] = answer[b]
    BY <1>2, <1>6 DEF Receive, ReceiveStart, ReceiveStop, ReceiveCommitted, ReceiveReply, TypeOK
  <2>3. ~Ends(m)
    BY <1>6 DEF Ends
  <2>4. ~Follows(1)
    BY <1>3 DEF Follows
  <2>5. ASSUME NEW j \in DOMAIN toWorker, Follows(j)
        PROVE  j - 1 \in DOMAIN toWorker' /\ Follows(j - 1)' /\ toWorker'[j - 1] = toWorker[j]
    <3>1. PICK i \in DOMAIN toWorker : i < j /\ Ends(toWorker[i])
      BY <2>5 DEF Follows
    <3>2. i # 1 /\ i \in Nat \ {0} /\ j \in Nat \ {0}
      BY <1>3, <2>3, <3>1
    <3>3. i > 1 /\ j > 1 /\ i - 1 < j - 1
      BY <3>1, <3>2
    <3>4. i - 1 \in DOMAIN toWorker' /\ j - 1 \in DOMAIN toWorker'
      BY <1>3, <3>3
    <3>5. (i - 1) + 1 = i /\ (j - 1) + 1 = j
      BY <3>2
    <3>6. toWorker'[i - 1] = toWorker[i] /\ toWorker'[j - 1] = toWorker[j]
      BY <1>3, <3>4, <3>5
    <3>7. QED
      BY <3>1, <3>3, <3>4, <3>6 DEF Follows
  <2>6. \A b : Behind(b) => Behind(b)'
    <3>1. ASSUME NEW b, NEW j \in DOMAIN toWorker, RepliesTo(b, j), Follows(j) PROVE Behind(b)'
      BY <2>5, <3>1 DEF Behind, RepliesTo
    <3>2. QED
      BY <3>1 DEF Behind
  <2>7. Released' \subseteq Released
    BY <1>1, <2>1, <2>6 DEF Released, Counted, Reporting
  <2>8. ASSUME NEW a \in committed', of'[a] = served'
        PROVE  /\ Answering(a, TRUE)'
               /\ \A j \in DOMAIN toWorker' : RepliesTo(a, j)' => Follows(j)'
    <3>1. /\ Answering(a, TRUE) /\ \A j \in DOMAIN toWorker : RepliesTo(a, j) => Follows(j)
          /\ a \in Attempt
      BY <1>1, <2>1, <2>8 DEF ReleasedInv, TypeOK
    <3>2. a # m.attempt
      BY <1>3, <1>6, <2>4, <3>1 DEF RepliesTo
    <3>3. Answering(a, TRUE)'
      BY <1>1, <2>2, <3>1, <3>2 DEF Answering
    <3>4. ASSUME NEW j \in DOMAIN toWorker', RepliesTo(a, j)' PROVE Follows(j)'
      <4>1. j + 1 \in DOMAIN toWorker /\ RepliesTo(a, j + 1)
        BY <1>3, <3>4 DEF RepliesTo
      <4>2. Follows(j + 1)
        BY <3>1, <4>1
      <4>3. Follows((j + 1) - 1)' /\ (j + 1) - 1 = j
        BY <1>3, <2>5, <4>1, <4>2
      <4>4. QED
        BY <4>3
    <3>5. QED
      BY <3>3, <3>4
  <2>9. QED
    BY <2>1, <2>7, <2>8, ReleasedStays
<1>7. QED
  BY <1>2, <1>4, <1>5, <1>6, MessageTypes

LEMMA ReleasedStep ==
    ASSUME TypeOK, Sensible, Earned, Agreement, GuessInv, CallsInv, LastInv, ReleasedInv,
           [Next]_vars, TypeOK', CountInv', LastInv'
    PROVE  ReleasedInv'
<1> SUFFICES ASSUME ~late', listening' PROVE ReleasedInv'
  BY DEF ReleasedInv
<1>1. ~late /\ ~ExpireWindow /\ \A a \in Attempt : ~CallTimeout(a)
  BY NotLate
<1>2. ASSUME UNCHANGED <<served, listening, accepted, of, phase, answer, committed, toSup>>,
             \A i \in DOMAIN toWorker : i \in DOMAIN toWorker' /\ toWorker'[i] = toWorker[i],
             \A j \in DOMAIN toWorker' : j \in DOMAIN toWorker \/ toWorker'[j].type # "Reply"
      PROVE  ReleasedInv'
  <2>1. /\ \A j \in DOMAIN toWorker : Follows(j) => Follows(j)'
        /\ \A b : Behind(b) => Behind(b)'
    BY <1>2 DEF Behind, Follows, RepliesTo
  <2>2. Released' \subseteq Released
    BY <1>2, <2>1 DEF Released, Counted, Reporting
  <2>3. ASSUME NEW a \in committed', of'[a] = served'
        PROVE  /\ Answering(a, TRUE)'
               /\ \A j \in DOMAIN toWorker' : RepliesTo(a, j)' => Follows(j)'
    <3>1. Answering(a, TRUE) /\ \A j \in DOMAIN toWorker : RepliesTo(a, j) => Follows(j)
      BY <1>1, <1>2, <2>3 DEF ReleasedInv
    <3>2. Answering(a, TRUE)'
      BY <1>2, <3>1 DEF Answering
    <3>3. ASSUME NEW j \in DOMAIN toWorker', RepliesTo(a, j)' PROVE Follows(j)'
      BY <1>2, <2>1, <3>1, <3>3 DEF RepliesTo
    <3>4. QED
      BY <3>2, <3>3
  <2>4. listening
    BY <1>2
  <2>5. QED
    BY <1>1, <2>2, <2>3, <2>4, ReleasedStays
<1>3. CASE OpenWindow \/ CloseWindow
  <2>1. UNCHANGED <<served, listening, accepted, of, phase, answer, committed, toSup>>
    BY <1>3 DEF OpenWindow, CloseWindow, mainVars, threadVars, history
  <2>2. QED
    BY <1>2, <1>3, <2>1, WindowWords
<1>4. CASE HandleResult
  <2>1. listening
    BY <1>4 DEF HandleResult, mainVars
  <2>2. QED
    BY <1>1, <1>4, <2>1, HandledReleased DEF GuessInv
<1>5. CASE ReplaceWorker \/ WorkerDies
  BY <1>5 DEF ReplaceWorker, WorkerDies, NoWorker
<1>6. CASE Receive
  BY <1>1, <1>6, ReceivedReleased DEF GuessInv
<1>7. CASE ReapAttempt \/ CutAttempt \/ (\E h \in Host : Revoke(h)) \/ UNCHANGED vars
  <2>1. UNCHANGED <<served, listening, accepted, of, phase, answer, committed, toSup, toWorker>>
    BY <1>7 DEF ReapAttempt, CutAttempt, Revoke, vars, mainVars, threadVars, history
  <2>2. QED
    BY <1>2, <2>1
<1>8. CASE AcceptAttempt
  <2>1. /\ UNCHANGED <<served, listening, answer, committed, toSup, toWorker>>
        /\ accepted' = accepted + 1 /\ accepted < MaxAttempts
        /\ of' = [of EXCEPT ![accepted + 1] = served]
        /\ phase' = [phase EXCEPT ![accepted + 1] = "talking"]
    BY <1>8 DEF AcceptAttempt, history
  <2>2. accepted \in Nat /\ MaxAttempts \in Nat
    BY ConstantsAssumption DEF TypeOK
  <2>3. PICK n \in Attempt : n = accepted + 1
    BY <2>1, <2>2 DEF Attempt
  <2>4. /\ phase'[n] = "talking"
        /\ \A b \in Attempt : b # n => of'[b] = of[b] /\ phase'[b] = phase[b]
    BY <2>1, <2>3 DEF TypeOK
  <2>5. ASSUME NEW b \in Released' PROVE b \in Released
    <3>1. /\ b \in 1..(accepted + 1) /\ of'[b] = served /\ phase'[b] \in {"failing", "done"}
          /\ ~Reporting(b) /\ ~Behind(b)
      BY <2>1, <2>5 DEF Released, Counted, Reporting, Behind, RepliesTo, Follows
    <3>2. b # n
      BY <2>4, <3>1
    <3>3. b \in 1..accepted /\ b \in Attempt
      BY <2>1, <2>2, <2>3, <3>1, <3>2 DEF Attempt
    <3>4. QED
      BY <2>4, <3>1, <3>2, <3>3 DEF Released, Counted
  <2>6. ASSUME NEW a \in committed', of'[a] = served'
        PROVE  /\ Answering(a, TRUE)'
               /\ \A j \in DOMAIN toWorker' : RepliesTo(a, j)' => Follows(j)'
    <3>1. a \in Attempt /\ a # n
      BY <2>1, <2>2, <2>3, <2>6 DEF SavedInv, GuessInv, TypeOK, Attempt
    <3>2. Answering(a, TRUE) /\ \A j \in DOMAIN toWorker : RepliesTo(a, j) => Follows(j)
      BY <1>1, <2>1, <2>4, <2>6, <3>1 DEF ReleasedInv
    <3>3. QED
      BY <2>1, <2>4, <3>1, <3>2 DEF Answering, RepliesTo, Follows
  <2>7. listening
    BY <2>1
  <2>8. QED
    BY <1>1, <2>5, <2>6, <2>7, ReleasedStays
<1>9. ASSUME NEW a \in Attempt, Thread(a) PROVE ReleasedInv'
  <2>1. /\ phase[a] \notin {"none", "done"}
        /\ UNCHANGED <<served, listening, alive, of, toWorker, committed>>
        /\ \A b \in Attempt : b # a => phase'[b] = phase[b]
    BY <1>9, ThreadMoves DEF mainVars
  <2>2. alive /\ listening
    BY <2>1 DEF GuessInv, TurnsInv
  <2>3. /\ \A b \in Attempt : b # a => answer'[b] = answer[b]
        /\ ~Answering(a, TRUE)
    BY <1>1, <1>9, <2>2, ThreadCalls
  <2>4. ~(a \in committed /\ of[a] = served)
    BY <1>1, <2>2, <2>3 DEF ReleasedInv
  <2>5. ASSUME NEW c \in committed', of'[c] = served'
        PROVE  /\ Answering(c, TRUE)'
               /\ \A j \in DOMAIN toWorker' : RepliesTo(c, j)' => Follows(j)'
    <3>1. c # a /\ c \in Attempt
      BY <2>1, <2>4, <2>5 DEF TypeOK
    <3>2. Answering(c, TRUE) /\ \A j \in DOMAIN toWorker : RepliesTo(c, j) => Follows(j)
      BY <1>1, <2>1, <2>2, <2>5 DEF ReleasedInv
    <3>3. QED
      BY <2>1, <2>3, <3>1, <3>2 DEF Answering, RepliesTo, Follows
  <2>6. PICK e : e = served
    OBVIOUS
  <2>7. CASE phase[a] = "telling" => of[a] # e
    <3>1. Counted(e)' \subseteq Counted(e)
      BY <1>9, <2>7, ThreadCounted DEF GuessInv
    <3>2. Released' \subseteq Released
      BY <2>1, <2>6, <3>1 DEF Released, Counted, Behind, RepliesTo, Follows
    <3>3. QED
      BY <1>1, <2>2, <2>5, <3>2, ReleasedStays
  <2>8. QED
    BY <2>4, <2>6, <2>7 DEF Earned
<1>10. QED
  BY <1>1, <1>3, <1>4, <1>5, <1>6, <1>7, <1>8, <1>9 DEF Next

\* An attempt is accepted when all others of the window are over.
LEMMA AcceptedInLimit ==
    ASSUME TypeOK, Sensible, TurnsInv, SavedInv, CallsInv, LastInv, ReleasedInv, NoExtraAttempts,
           AcceptAttempt, ~late
    PROVE  NoExtraAttempts'
<1>1. /\ UNCHANGED <<late, committed, alive>> /\ active = 0 /\ listening /\ accepted < MaxAttempts
      /\ of' = [of EXCEPT ![accepted + 1] = served]
  BY DEF AcceptAttempt, history
<1>2. accepted \in Nat /\ MaxAttempts \in Nat /\ MaxFailures \in Nat
  BY ConstantsAssumption DEF TypeOK
<1>3. PICK n \in Attempt : n = accepted + 1
  BY <1>1, <1>2 DEF Attempt
<1>4. /\ of'[n] = served /\ of[n] = 0
      /\ \A b \in Attempt : b # n => of'[b] = of[b]
  BY <1>1, <1>2, <1>3 DEF TypeOK, LastInv
<1>5. served # 0 /\ alive
  BY <1>1 DEF Sensible
<1>6. ASSUME NEW b \in Attempt, of[b] = served
      PROVE  b \in Released /\ b \notin committed /\ b < n
  <2>1. b \in Nat /\ b <= accepted
    BY <1>2, <1>5, <1>6 DEF LastInv, Attempt
  <2>2. phase[b] = "done"
    <3>1. active # b
      BY <1>1 DEF Attempt
    <3>2. QED
      BY <1>6, <2>1, <3>1 DEF TurnsInv
  <2>3. ~Reporting(b)
    BY <1>5, <2>2 DEF Reporting, CallsInv, Answering
  <2>4. ~Behind(b)
    BY <1>5, <2>2 DEF Behind, RepliesTo, CallsInv, Answering
  <2>5. b \in 1..accepted
    BY <1>2, <2>1 DEF Attempt
  <2>6. b \in Released
    BY <1>6, <2>2, <2>3, <2>4, <2>5 DEF Released, Counted
  <2>7. b \notin committed
    BY <1>1, <1>6, <2>2 DEF ReleasedInv, Answering
  <2>8. QED
    BY <1>2, <1>3, <2>1, <2>6, <2>7
<1>7. ASSUME NEW e \in Epoch
      PROVE  LET attempts == {a \in Attempt : of'[a] = e} IN
             /\ Cardinality(attempts) <= MaxFailures
             /\ \A a \in attempts \cap committed : \A b \in attempts : b <= a
  <2>1. CASE e = served
    <3>1. PICK S, T : S = Released /\ T = {a \in Attempt : of'[a] = e}
      OBVIOUS
    <3>2. T \subseteq S \cup {n}
      BY <1>4, <1>6, <2>1, <3>1
    <3>3. IsFiniteSet(S)
      <4>1. IsFiniteSet(1..accepted) /\ Released \subseteq 1..accepted
        BY <1>2, FS_Interval DEF Released, Counted
      <4>2. QED
        BY <3>1, <4>1, FS_Subset
    <3>4. /\ Cardinality(T) <= Cardinality(S) + 1 /\ Cardinality(S) \in Nat
          /\ Cardinality(T) \in Nat
      BY <3>2, <3>3, FewerOrOneMore
    <3>5. Cardinality(S) < MaxFailures
      BY <1>1, <3>1 DEF ReleasedInv
    <3>6. Cardinality(T) <= MaxFailures
      BY <1>2, <3>4, <3>5
    <3>7. n \notin committed
      BY <1>2, <1>3 DEF SavedInv
    <3>8. T \cap committed = {}
      BY <1>4, <1>6, <2>1, <3>1, <3>7
    <3>9. QED
      BY <3>1, <3>6, <3>8
  <2>2. CASE e # served
    <3>1. e # 0
      BY DEF Epoch
    <3>2. {a \in Attempt : of'[a] = e} = {a \in Attempt : of[a] = e}
      BY <1>4, <2>2, <3>1
    <3>3. QED
      BY <3>2 DEF NoExtraAttempts
  <2>3. QED
    BY <2>1, <2>2
<1>8. QED
  BY <1>1, <1>7 DEF NoExtraAttempts

LEMMA ExtraStep ==
    ASSUME TypeOK, Sensible, GuessInv, CallsInv, LastInv, ReleasedInv, NoExtraAttempts, [Next]_vars
    PROVE  NoExtraAttempts'
<1> SUFFICES ASSUME ~late' PROVE NoExtraAttempts'
  BY DEF NoExtraAttempts
<1>1. ~late /\ ~ExpireWindow
  BY NotLate
<1>2. ASSUME UNCHANGED <<of, committed>> PROVE NoExtraAttempts'
  BY <1>1, <1>2 DEF NoExtraAttempts
<1>3. CASE HandleResult
  <2>1. of' = of
    BY <1>3 DEF HandleResult, threadVars
  <2>2. PICK r : r = Head(toSup) /\ r = toSup[1] /\ 1 \in DOMAIN toSup
    BY <1>3, TailPlaces DEF HandleResult, TypeOK
  <2>3. committed' = committed \/ committed' = committed \cup {r.attempt}
    BY <1>3, <2>2 DEF HandleResult, RefuseResult, CommitResult, CountResult
  <2>4. \A b \in Attempt : of[b] = of[r.attempt] => b <= r.attempt
    BY <1>1, <2>2 DEF LastInv
  <2>5. ASSUME NEW e \in Epoch
        PROVE  LET attempts == {a \in Attempt : of[a] = e} IN
               /\ Cardinality(attempts) <= MaxFailures
               /\ \A a \in attempts \cap committed' : \A b \in attempts : b <= a
    BY <1>1, <2>3, <2>4 DEF NoExtraAttempts
  <2>6. QED
    BY <2>1, <2>5 DEF NoExtraAttempts
<1>4. CASE AcceptAttempt
  BY <1>1, <1>4, AcceptedInLimit DEF GuessInv
<1>5. CASE OpenWindow \/ CloseWindow \/ ReplaceWorker \/ WorkerDies \/ Receive \/ ReapAttempt
           \/ CutAttempt \/ (\E h \in Host : Revoke(h)) \/ UNCHANGED vars
  BY <1>2, <1>5 DEF OpenWindow, CloseWindow, ReplaceWorker, WorkerDies, NoWorker, Receive,
     ReapAttempt, CutAttempt, Revoke, vars, threadVars, history
<1>6. ASSUME NEW a \in Attempt, Thread(a) PROVE NoExtraAttempts'
  BY <1>2, <1>6, ThreadMoves
<1>7. QED
  BY <1>1, <1>3, <1>4, <1>5, <1>6 DEF Next

LimitInv == CallsInv /\ LastInv /\ ReleasedInv /\ NoExtraAttempts

\* While calls are answered in time the worker accepts no attempt beyond the limit, nor one
\* after a success: the word to stop is read before the thread of the last attempt is free
\* to finish (worker.rs:194, pairing.rs:62).
THEOREM AttemptsStayInLimit == Spec => []NoExtraAttempts
<1>1. Init => Agreement /\ LimitInv
  <2> SUFFICES ASSUME Init PROVE Agreement /\ LimitInv
    OBVIOUS
  <2>1. \A e \in Epoch : {a \in Attempt : of[a] = e} = {}
    BY DEF Init, Epoch
  <2>2. Cardinality({}) = 0 /\ MaxFailures \in Nat
    BY FS_EmptySet, ConstantsAssumption
  <2>3. NoExtraAttempts
    BY <2>1, <2>2 DEF NoExtraAttempts
  <2>4. QED
    BY <2>3 DEF Init, Agreement, LimitInv, CallsInv, LastInv, ReleasedInv
<1>2. ASSUME TypeOK, Sensible, Earned, GuessInv, Agreement, LimitInv, [Next]_vars,
             TypeOK', GuessInv'
      PROVE  LimitInv'
  <2>1. CallsInv' /\ LastInv'
    BY <1>2, CallsStep, LastStep DEF LimitInv, GuessInv
  <2>2. ReleasedInv'
    BY <1>2, <2>1, ReleasedStep DEF LimitInv, GuessInv
  <2>3. NoExtraAttempts'
    BY <1>2, ExtraStep DEF LimitInv
  <2>4. QED
    BY <2>1, <2>2, <2>3 DEF LimitInv
<1>3. LimitInv => NoExtraAttempts
  BY DEF LimitInv
<1>4. QED
  BY <1>1, <1>2, <1>3, GuessesHold, AgreementStep, PTL DEF Spec
=============================================================================
