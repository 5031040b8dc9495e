------------------------ MODULE AiortcClient_proofs ------------------------
(***************************************************************************)
(* Proofs about AiortcClient, for every number of calls, connections,      *)
(* Producers and Consumers: the Producers that send are in their slots,    *)
(* and client, server and store agree when nothing is under way.  The      *)
(* requests of a connection are answered in order, so that the client is   *)
(* what the server will be when it has answered them.                      *)
(***************************************************************************)
EXTENDS AiortcClient, SequenceTheorems, FiniteSetTheorems, TLAPS

USE MediumAssumption, ConsumerAssumption, BoundsAssumption

-----------------------------------------------------------------------------
(* Sequences of requests.                                                  *)

\* t is s without its element at k.
Lacks(s, k, t) ==
  /\ Len(t) = Len(s) - 1
  /\ \A i \in 1 .. Len(t) : t[i] = IF i < k THEN s[i] ELSE s[i + 1]

LEMMA Elements ==
  ASSUME NEW S, NEW s \in Seq(S)
  PROVE  ToSet(s) = {s[i] : i \in 1 .. Len(s)} /\ ToSet(s) \subseteq S
BY LenProperties DEF ToSet

LEMMA HeadGone ==
  ASSUME NEW S, NEW s \in Seq(S), s # <<>>
  PROVE  /\ Tail(s) \in Seq(S) /\ Lacks(s, 1, Tail(s)) /\ 1 \in 1 .. Len(s)
         /\ Head(s) = s[1] /\ Head(s) \in S
BY DEF Lacks

LEMMA Together ==
  ASSUME NEW S, NEW s \in Seq(S), NEW t \in Seq(S)
  PROVE  /\ s \o t \in Seq(S) /\ Len(s \o t) = Len(s) + Len(t)
         /\ \A i \in 1 .. Len(s) : (s \o t)[i] = s[i]
         /\ \A i \in Len(s) + 1 .. Len(s) + Len(t) :
              (s \o t)[i] = t[i - Len(s)] /\ i - Len(s) \in 1 .. Len(t)
         /\ ToSet(s \o t) = ToSet(s) \cup ToSet(t)
<1>1. /\ s \o t \in Seq(S) /\ Len(s \o t) = Len(s) + Len(t)
      /\ \A i \in 1 .. Len(s) : (s \o t)[i] = s[i]
      /\ \A i \in Len(s) + 1 .. Len(s) + Len(t) :
           (s \o t)[i] = t[i - Len(s)] /\ i - Len(s) \in 1 .. Len(t)
      /\ \A i \in 1 .. Len(t) : (s \o t)[Len(s) + i] = t[i] /\ Len(s) + i \in 1 .. Len(s \o t)
  OBVIOUS
<1> DEFINE r == s \o t
<1>2. /\ ToSet(r) = {r[i] : i \in 1 .. Len(r)} /\ ToSet(s) = {s[i] : i \in 1 .. Len(s)}
      /\ ToSet(t) = {t[i] : i \in 1 .. Len(t)}
  BY <1>1, Elements
<1>3. r \in Seq(S) /\ Len(r) = Len(s) + Len(t) /\ Len(s) \in Nat /\ Len(t) \in Nat
  BY <1>1
<1>4. /\ \A i \in 1 .. Len(s) : r[i] = s[i]
      /\ \A i \in Len(s) + 1 .. Len(s) + Len(t) : r[i] = t[i - Len(s)]
      /\ \A i \in 1 .. Len(t) : r[Len(s) + i] = t[i]
  BY <1>1
<1> HIDE DEF r
<1>5. ASSUME NEW x \in ToSet(r) PROVE x \in ToSet(s) \cup ToSet(t)
  <2>1. PICK i \in 1 .. Len(r) : x = r[i]
    BY <1>2
  <2>2. CASE i \in 1 .. Len(s)
    BY <1>2, <1>4, <2>1, <2>2
  <2>3. CASE i \notin 1 .. Len(s)
    <3>1. i \in Len(s) + 1 .. Len(s) + Len(t) /\ i - Len(s) \in 1 .. Len(t)
      BY <1>3, <2>3
    <3> QED BY <1>2, <1>4, <2>1, <3>1
  <2> QED BY <2>2, <2>3
<1>6. ASSUME NEW x \in ToSet(s) PROVE x \in ToSet(r)
  <2>1. PICK i \in 1 .. Len(s) : x = s[i]
    BY <1>2
  <2>2. i \in 1 .. Len(r)
    BY <1>3
  <2> QED BY <1>2, <1>4, <2>1, <2>2
<1>7. ASSUME NEW x \in ToSet(t) PROVE x \in ToSet(r)
  <2>1. PICK i \in 1 .. Len(t) : x = t[i]
    BY <1>2
  <2>2. Len(s) + i \in 1 .. Len(r)
    BY <1>3
  <2> QED BY <1>2, <1>4, <2>1, <2>2
<1>8. ToSet(r) = ToSet(s) \cup ToSet(t)
  BY <1>5, <1>6, <1>7
<1> QED BY <1>1, <1>8 DEF r

LEMMA OneGone ==
  ASSUME NEW S, NEW s \in Seq(S), NEW k \in 1 .. Len(s)
  PROVE  RemoveAt(s, k) \in Seq(S) /\ Lacks(s, k, RemoveAt(s, k))
<1> DEFINE a == SubSeq(s, 1, k - 1)
           b == SubSeq(s, k + 1, Len(s))
<1>1. a \in Seq(S) /\ Len(a) = k - 1 /\ \A i \in 1 .. k - 1 : a[i] = s[i]
  OBVIOUS
<1>2. b \in Seq(S) /\ Len(b) = Len(s) - k /\ \A i \in 1 .. Len(s) - k : b[i] = s[k + i]
  OBVIOUS
<1> HIDE DEF a, b
<1>3. a \o b \in Seq(S) /\ Len(a \o b) = Len(s) - 1
  <2>1. a \o b \in Seq(S) /\ Len(a \o b) = Len(a) + Len(b)
    BY <1>1, <1>2, Together
  <2> QED BY <1>1, <1>2, <2>1
<1>4. ASSUME NEW i \in 1 .. Len(s) - 1, i < k PROVE (a \o b)[i] = s[i]
  BY <1>1, <1>2, <1>4, Together
<1>5. ASSUME NEW i \in 1 .. Len(s) - 1, ~(i < k) PROVE (a \o b)[i] = s[i + 1]
  <2>1. i - (k - 1) \in 1 .. Len(b) /\ k + (i - (k - 1)) = i + 1
        /\ i \in Len(a) + 1 .. Len(a) + Len(b)
    BY <1>1, <1>2, <1>5
  <2>2. (a \o b)[i] = b[i - (k - 1)] /\ b[i - (k - 1)] = s[k + (i - (k - 1))]
    BY <1>1, <1>2, <2>1, Together
  <2> QED BY <2>1, <2>2
<1> QED BY <1>3, <1>4, <1>5 DEF Lacks, RemoveAt, a, b

\* What is left of s, and what was taken.
LEMMA Left ==
  ASSUME NEW S, NEW s \in Seq(S), NEW t \in Seq(S), NEW k \in 1 .. Len(s), Lacks(s, k, t)
  PROVE  /\ ToSet(t) \subseteq ToSet(s) /\ ToSet(s) = ToSet(t) \cup {s[k]}
         /\ s[k] \in ToSet(s)
<1>0. ToSet(s) = {s[i] : i \in 1 .. Len(s)} /\ ToSet(t) = {t[i] : i \in 1 .. Len(t)}
  BY Elements
<1>1. \A i \in 1 .. Len(t) : t[i] = s[i] \/ t[i] = s[i + 1]
  BY DEF Lacks
<1>2. \A i \in 1 .. Len(t) : i \in 1 .. Len(s) /\ i + 1 \in 1 .. Len(s)
  BY DEF Lacks
<1>3. \A i \in 1 .. Len(s) : i = k \/ (i < k /\ i \in 1 .. Len(t)) \/ (i > k /\ i - 1 \in 1 .. Len(t))
  BY DEF Lacks
<1>4. \A i \in 1 .. Len(s) : i = k \/ \E j \in 1 .. Len(t) : s[i] = t[j]
  <2>1. ASSUME NEW i \in 1 .. Len(s), i < k PROVE t[i] = s[i] /\ i \in 1 .. Len(t)
    BY <2>1, <1>3 DEF Lacks
  <2>2. ASSUME NEW i \in 1 .. Len(s), i > k PROVE t[i - 1] = s[i] /\ i - 1 \in 1 .. Len(t)
    <3>1. i - 1 \in 1 .. Len(t) /\ ~(i - 1 < k) /\ (i - 1) + 1 = i
      BY <2>2, <1>3
    <3> QED BY <3>1 DEF Lacks
  <2> QED BY <1>3, <2>1, <2>2
<1>5. ASSUME NEW x \in ToSet(t) PROVE x \in ToSet(s)
  <2>1. PICK i \in 1 .. Len(t) : x = t[i]
    BY <1>0
  <2> QED BY <1>1, <1>2, <2>1, <1>0
<1>6. ASSUME NEW x \in ToSet(s) PROVE x \in ToSet(t) \cup {s[k]}
  <2>1. PICK i \in 1 .. Len(s) : x = s[i]
    BY <1>0
  <2> QED BY <1>4, <2>1, <1>0
<1>7. s[k] \in ToSet(s)
  BY <1>0
<1> QED BY <1>5, <1>6, <1>7

\* The sequence of a finite set has its members.
LEMMA Listed ==
  ASSUME NEW S, IsFiniteSet(S)
  PROVE  SetToSeq(S) \in Seq(S)
<1> DEFINE n == Cardinality(S)
<1>1. n \in Nat /\ \E f \in [1 .. n -> S] : IsInjective(f)
  BY FS_CardinalityType DEF ExistsBijection, Bijection, Injection
<1>2. SetToSeq(S) \in [1 .. n -> S]
  BY <1>1 DEF SetToSeq
<1> QED BY <1>1, <1>2, SeqDef

\* The requests about the Consumers of a set.
LEMMA ConsumersListed ==
  ASSUME NEW what \in {"pauseConsumer", "resumeConsumer"}, NEW cs \in SUBSET Consumer
  PROVE  /\ SetToSeq({OfConsumer(what, c) : c \in cs}) \in Seq(Request)
         /\ ToSet(SetToSeq({OfConsumer(what, c) : c \in cs}))
              \subseteq {OfConsumer(what, c) : c \in cs}
<1> DEFINE S == {OfConsumer(what, c) : c \in cs}
           f == [c \in cs |-> OfConsumer(what, c)]
<1>1. f \in Surjection(cs, S)
  BY DEF Surjection
<1>2. IsFiniteSet(cs)
  BY FS_Subset
<1>3. IsFiniteSet(S)
  BY <1>1, <1>2, FS_Surjection
<1>4. S \subseteq Request
  BY DEF OfConsumer, Request
<1> HIDE DEF S
<1>5. SetToSeq(S) \in Seq(S)
  BY <1>3, Listed
<1>6. SetToSeq(S) \in Seq(Request)
  BY <1>4, <1>5, SeqMonotonic
<1> QED BY <1>5, <1>6, Elements DEF S

-----------------------------------------------------------------------------
(* The invariant.                                                          *)

\* The requests that wait, for an answer or for their timeout.
Requests == ToSet(sent) \cup ToSet(lost)

OfProducer == {"closeProducer", "pauseProducer", "resumeProducer"}
OfConsumers == {"pauseConsumer", "resumeConsumer"}

\* What a request is about: a Producer that was made for its medium, a Consumer that was
\* there.
Sound(r) ==
  /\ r.what \in OfProducer => r.id \in DOMAIN made /\ made[r.id] = r.medium
  /\ r.what \in OfConsumers =>
       consumer[r.consumer] \in {"open", "closed"} /\ r.consumer \notin data

RequestsSound == \A r \in Requests : Sound(r)

\* Without a connection nothing is sent, produced or known to the server.
ConnectionSound ==
  /\ ~up => sent = <<>> /\ alive = {} /\ server = Forgotten
  /\ room = "connected" => up

\* A slot has Producers of its medium only.
SlotsSound == \A m \in Medium : slot[m] # 0 => slot[m] \in DOMAIN made /\ made[slot[m]] = m

Base ==
  TypeOK /\ ConnectionSound /\ RequestsSound /\ SlotsSound /\ paused \subseteq Opened

\* TypeOK, by what a step changes together.
SessionOK ==
  /\ room \in {"connecting", "connected", "closed"}
  /\ {closed, crashed, up, send, recv, connected} \subseteq BOOLEAN
ProducingOK ==
  /\ slot \in [Medium -> Producer \cup {0}]
  /\ capturing \in [Medium -> Nat] /\ changing \in Nat
  /\ made \in Seq(Medium) /\ Len(made) <= MaxProducers
  /\ alive \subseteq DOMAIN made /\ muted \subseteq alive
  /\ shownMuted \subseteq DOMAIN made
  /\ progress \subseteq {"webcam", "restartIce"}
ConsumingOK ==
  /\ audioOnly \in BOOLEAN
  /\ consumer \in [Consumer -> {"none", "consuming", "open", "closed"}]
  /\ paused \subseteq Consumer /\ data \subseteq Consumer
ServerOK ==
  server \in [producers: SUBSET DOMAIN made, muted: SUBSET DOMAIN made,
              consumers: SUBSET Consumer, paused: SUBSET Consumer]
CountsOK ==
  /\ {overlapped, refused} \subseteq BOOLEAN
  /\ calls \in 0 .. MaxCalls /\ opens \in 0 .. MaxOpens

RestOK == SessionOK /\ ProducingOK /\ ConsumingOK /\ ServerOK /\ CountsOK
WireOK == sent \in Seq(Request) /\ lost \in Seq(Request)

LEMMA TypeParts == TypeOK <=> RestOK /\ WireOK
BY DEF TypeOK, RestOK, WireOK, SessionOK, ProducingOK, ConsumingOK, ServerOK, CountsOK

LEMMA RequestFields ==
  ASSUME NEW r \in Request
  PROVE  /\ r.what \in OfProducer => r.id \in Producer /\ r.medium \in Medium
         /\ r.what = "produce" => r.medium \in Medium
         /\ r.what \in OfConsumers => r.consumer \in Consumer
BY DEF Request, OfProducer, OfConsumers, Joining, ToSet

\* The requests that the client makes.
LEMMA Made ==
  /\ \A what \in {"produceChat", "produceBot", "restartIceSend", "restartIceRecv",
                  "getRouterRtpCapabilities", "createSendTransport",
                  "createRecvTransport", "join"} :
       About(what) \in Request /\ About(what).what = what
  /\ \A m \in Medium : [what |-> "produce", medium |-> m] \in Request
  /\ \A what \in OfProducer, m \in Medium, p \in Producer :
       OfMedium(what, m, p) \in Request
BY DEF About, OfMedium, OfProducer, Request, ToSet, Joining

LEMMA RequestsKeep ==
  ASSUME WireOK, RequestsSound, NEW N, Requests' \subseteq Requests \cup N,
         \A r \in N : Sound(r)',
         \A p \in DOMAIN made : p \in DOMAIN made' /\ made'[p] = made[p],
         \A c \in Consumer : consumer[c] \in {"open", "closed"} =>
           consumer'[c] \in {"open", "closed"} /\ (c \notin data => c \notin data')
  PROVE  RequestsSound'
<1> SUFFICES ASSUME NEW r \in Requests PROVE Sound(r)'
  BY DEF RequestsSound
<1>1. r \in Request
  BY Elements DEF Requests, WireOK
<1> QED BY <1>1, RequestFields DEF RequestsSound, Sound

-----------------------------------------------------------------------------
(* What becomes of the wire.                                               *)

LEMMA Sending ==
  ASSUME WireOK, NEW q \in Seq(Request), Sends(q)
  PROVE  WireOK' /\ Requests' = Requests \cup ToSet(q)
<1>1. CASE up
  <2>1. sent' = sent \o q /\ lost' = lost
    BY <1>1 DEF Sends
  <2> QED BY <2>1, Together DEF WireOK, Requests
<1>2. CASE ~up
  <2>1. lost' = lost \o q /\ sent' = sent
    BY <1>2 DEF Sends
  <2> QED BY <2>1, Together DEF WireOK, Requests
<1> QED BY <1>1, <1>2

LEMMA Answering ==
  ASSUME WireOK, NEW q \in Seq(Request), sent # <<>>, Then(q)
  PROVE  /\ WireOK' /\ Requests' \subseteq Requests \cup ToSet(q)
         /\ Head(sent) \in Requests /\ Head(sent) \in Request
<1>1. /\ Tail(sent) \in Seq(Request) /\ Head(sent) \in Request
      /\ ToSet(Tail(sent)) \subseteq ToSet(sent) /\ Head(sent) \in ToSet(sent)
  <2>1. /\ Tail(sent) \in Seq(Request) /\ Lacks(sent, 1, Tail(sent)) /\ 1 \in 1 .. Len(sent)
        /\ Head(sent) = sent[1] /\ Head(sent) \in Request
    BY HeadGone DEF WireOK
  <2>2. ToSet(Tail(sent)) \subseteq ToSet(sent) /\ sent[1] \in ToSet(sent)
    BY <2>1, Left DEF WireOK
  <2> QED BY <2>1, <2>2
<1>2. sent' = Tail(sent) \o q /\ lost' = lost
  BY DEF Then
<1>3. sent' \in Seq(Request) /\ ToSet(sent') = ToSet(Tail(sent)) \cup ToSet(q)
  BY <1>1, <1>2, Together
<1> QED BY <1>1, <1>2, <1>3 DEF WireOK, Requests

LEMMA Losing ==
  ASSUME NEW s \in Seq(Request), NEW l \in Seq(Request),
         ToSet(s) \cup ToSet(l) \subseteq Requests, ConnectionLost(s, l)
  PROVE  WireOK' /\ Requests' \subseteq Requests
<1>1. sent' = <<>> /\ lost' = l \o s
  BY DEF ConnectionLost
<1>2. <<>> \in Seq(Request) /\ ToSet(<<>>) = {}
  BY DEF ToSet
<1> QED BY <1>1, <1>2, Together DEF WireOK, Requests

-----------------------------------------------------------------------------
(* The types, and what every step keeps.                                   *)

\* A step that leaves the wire, the media and the Consumers that are there.
LEMMA BaseKeeps ==
  ASSUME Base, RestOK', UNCHANGED <<sent, lost, up, alive, room, made, slot>>,
         server' = server \/ up, paused' \subseteq Opened',
         \A c \in Consumer : consumer[c] \in {"open", "closed"} =>
           consumer'[c] \in {"open", "closed"} /\ (c \notin data => c \notin data')
  PROVE  Base'
<1>1. WireOK /\ RestOK /\ WireOK'
  BY TypeParts DEF Base, WireOK
<1>2. Requests' = Requests
  BY DEF Requests
<1>3. RequestsSound'
  <2>1. \A p \in DOMAIN made : p \in DOMAIN made' /\ made'[p] = made[p]
    OBVIOUS
  <2>2. RequestsSound
    BY DEF Base
  <2>3. PICK N : N = {}
    OBVIOUS
  <2>4. Requests' \subseteq Requests \cup N /\ \A r \in N : Sound(r)'
    BY <1>2, <2>3
  <2> QED BY <1>1, <2>1, <2>2, <2>4, RequestsKeep
<1>4. TypeOK'
  BY <1>1 DEF TypeOK, RestOK, WireOK, SessionOK, ProducingOK, ConsumingOK, ServerOK, CountsOK
<1> QED BY <1>3, <1>4 DEF Base, ConnectionSound, SlotsSound

\* getUserMedia() begins, for the media of ms whose slot is empty.
LEMMA CapturesTypes ==
  ASSUME RestOK, NEW ms \in SUBSET Medium, Captures(ms)
  PROVE  /\ capturing' \in [Medium -> Nat] /\ progress' \subseteq {"webcam", "restartIce"}
         /\ overlapped' \in BOOLEAN
<1>1. capturing' \in [Medium -> Nat]
  BY DEF RestOK, ProducingOK, Captures
<1>2. progress' \subseteq {"webcam", "restartIce"}
  <2>1. progress \subseteq {"webcam", "restartIce"} /\ \A k : InProgress(k) \subseteq {"webcam"}
    BY DEF RestOK, ProducingOK, InProgress
  <2>2. progress' = progress \cup UNION {InProgress(k) : k \in {j \in ms : slot[j] = 0}}
    BY DEF Captures
  <2>3. UNION {InProgress(k) : k \in {j \in ms : slot[j] = 0}} \subseteq {"webcam"}
    BY <2>1
  <2> QED BY <2>1, <2>2, <2>3
<1>3. overlapped' \in BOOLEAN
  BY DEF RestOK, CountsOK, Captures
<1> QED BY <1>1, <1>2, <1>3

LEMMA CaptureTypes ==
  ASSUME RestOK, NEW m \in Medium, Enable(m) \/ CaptureFailed(m) PROVE RestOK'
<1>1. ProducingOK'
  <2>1. capturing' \in [Medium -> Nat]
    BY DEF RestOK, ProducingOK, Enable, CaptureFailed, Captures
  <2>2. progress' \subseteq {"webcam", "restartIce"}
    <3>1. progress \subseteq {"webcam", "restartIce"}
      BY DEF RestOK, ProducingOK
    <3>2. CASE Enable(m)
      <4>1. {m} \in SUBSET Medium /\ Captures({m})
        BY <3>2 DEF Enable
      <4> QED BY <4>1, CapturesTypes
    <3>3. CASE CaptureFailed(m)
      BY <3>1, <3>3 DEF CaptureFailed
    <3> QED BY <3>2, <3>3
  <2>3. UNCHANGED <<slot, changing, made, alive, muted, shownMuted>>
    BY DEF Enable, CaptureFailed
  <2> QED BY <2>1, <2>2, <2>3 DEF RestOK, ProducingOK
<1>2. CountsOK'
  <2>1. overlapped' \in BOOLEAN /\ UNCHANGED <<refused, opens>>
    BY DEF RestOK, CountsOK, Enable, CaptureFailed, Captures, history
  <2>2. calls' \in 0 .. MaxCalls
    BY DEF RestOK, CountsOK, Enable, CaptureFailed, Called
  <2> QED BY <2>1, <2>2 DEF RestOK, CountsOK
<1>3. UNCHANGED <<session, crashed, made, consuming, server>>
  BY DEF Enable, CaptureFailed
<1> QED BY <1>1, <1>2, <1>3 DEF RestOK, SessionOK, ConsumingOK, ServerOK, session, consuming

LEMMA ChangeTypes ==
  ASSUME RestOK, ChangeWebcam \/ WebcamChanged PROVE RestOK'
<1>1. ProducingOK'
  <2>1. changing' \in Nat /\ progress' \subseteq {"webcam", "restartIce"}
    <3>1. changing \in Nat /\ progress \subseteq {"webcam", "restartIce"}
      BY DEF RestOK, ProducingOK
    <3>2. \/ changing' = changing + 1 /\ progress' = progress \cup {"webcam"}
          \/ changing > 0 /\ changing' = changing - 1 /\ progress' = progress \ {"webcam"}
      BY DEF ChangeWebcam, WebcamChanged
    <3>3. changing' \in Nat
      BY <3>1, <3>2
    <3>4. progress' \subseteq {"webcam", "restartIce"}
      BY <3>1, <3>2
    <3> QED BY <3>3, <3>4
  <2>2. UNCHANGED <<slot, capturing, made, alive, muted, shownMuted>>
    BY DEF ChangeWebcam, WebcamChanged
  <2> QED BY <2>1, <2>2 DEF RestOK, ProducingOK
<1>2. CountsOK'
  BY DEF RestOK, CountsOK, ChangeWebcam, WebcamChanged, Called, history
<1>3. UNCHANGED <<session, crashed, made, consuming, server>>
  BY DEF ChangeWebcam, WebcamChanged
<1> QED BY <1>1, <1>2, <1>3 DEF RestOK, SessionOK, ConsumingOK, ServerOK, session, consuming

LEMMA ConsumerTypes ==
  ASSUME RestOK, NEW c \in Consumer,
         \/ NewConsumer(c) \/ NewDataConsumer(c) \/ DataConsumed(c)
         \/ ConsumeFailed(c) \/ ConsumerClosed(c) \/ DataConsumerClosed(c)
  PROVE  RestOK'
<1>1. UNCHANGED <<producing, progress, history, calls, opens>>
  BY DEF NewConsumer, NewDataConsumer, Offered, DataConsumed, ConsumeFailed, ConsumerClosed,
         DataConsumerClosed, ClosedAtServer
<1>2. UNCHANGED session /\ crashed' \in {crashed, TRUE}
  BY DEF NewConsumer, NewDataConsumer, Offered, DataConsumed, ConsumeFailed, ConsumerClosed,
         DataConsumerClosed, ClosedAtServer
<1>3. ConsumingOK'
  BY DEF RestOK, ConsumingOK, NewConsumer, NewDataConsumer, Offered, DataConsumed,
         ConsumeFailed, ConsumerClosed, DataConsumerClosed, ClosedAtServer, consuming
<1>4. ServerOK'
  <2>1. \/ server' = server
        \/ server' = [server EXCEPT !.consumers = @ \cup {c}]
        \/ server' = [server EXCEPT !.consumers = @ \ {c}, !.paused = @ \ {c}]
    BY DEF NewConsumer, NewDataConsumer, Offered, DataConsumed, ConsumeFailed, ConsumerClosed,
           DataConsumerClosed, ClosedAtServer
  <2> QED BY <1>1, <2>1 DEF RestOK, ServerOK, producing
<1>5. SessionOK'
  BY <1>2 DEF RestOK, SessionOK, session
<1>6. ProducingOK' /\ CountsOK'
  BY <1>1 DEF RestOK, ProducingOK, CountsOK, producing, history
<1> QED BY <1>3, <1>4, <1>5, <1>6 DEF RestOK

LEMMA BaseQuietStep ==
  ASSUME Base,
         \/ \E m \in Medium : Enable(m) \/ CaptureFailed(m)
         \/ ChangeWebcam \/ WebcamChanged
         \/ \E c \in Consumer : \/ NewConsumer(c) \/ NewDataConsumer(c) \/ DataConsumed(c)
                                \/ ConsumeFailed(c) \/ ConsumerClosed(c)
                                \/ DataConsumerClosed(c)
  PROVE  Base'
<1>0. RestOK
  BY TypeParts DEF Base
<1>1. ASSUME NEW m \in Medium, Enable(m) \/ CaptureFailed(m) PROVE Base'
  <2>1. RestOK'
    BY <1>0, <1>1, CaptureTypes
  <2> QED BY <1>1, <2>1, BaseKeeps
          DEF Enable, CaptureFailed, session, wire, consuming, Base, Opened
<1>2. CASE ChangeWebcam \/ WebcamChanged
  <2>1. RestOK'
    BY <1>0, <1>2, ChangeTypes
  <2> QED BY <1>2, <2>1, BaseKeeps
          DEF ChangeWebcam, WebcamChanged, session, wire, consuming, Base, Opened
<1>3. ASSUME NEW c \in Consumer, NewConsumer(c) \/ NewDataConsumer(c) PROVE Base'
  <2>1. RestOK'
    BY <1>0, <1>3, ConsumerTypes
  <2>2. up
    BY <1>3 DEF NewConsumer, NewDataConsumer, Offered, Base, ConnectionSound
  <2>3. \A d \in Consumer : consumer[d] \in {"open", "closed"} =>
          consumer'[d] \in {"open", "closed"} /\ (d \notin data => d \notin data')
    BY <1>0, <1>3 DEF RestOK, ConsumingOK, NewConsumer, NewDataConsumer, Offered
  <2>4. paused' \subseteq Opened'
    BY <1>0, <1>3 DEF Base, RestOK, ConsumingOK, NewConsumer, NewDataConsumer, Offered, Opened
  <2> QED BY <1>3, <2>1, <2>2, <2>3, <2>4, BaseKeeps
          DEF NewConsumer, NewDataConsumer, Offered, session, wire, producing
<1>4. ASSUME NEW c \in Consumer, DataConsumed(c) \/ ConsumeFailed(c) PROVE Base'
  <2>1. RestOK'
    BY <1>0, <1>4, ConsumerTypes
  <2>2. paused' \subseteq Opened'
    BY <1>0, <1>4 DEF Base, RestOK, ConsumingOK, DataConsumed, ConsumeFailed, consuming, Opened
  <2> QED BY <1>0, <1>4, <2>1, <2>2, BaseKeeps
          DEF RestOK, ConsumingOK, DataConsumed, ConsumeFailed, session, wire, producing,
              consuming
<1>5. ASSUME NEW c \in Consumer, ConsumerClosed(c) \/ DataConsumerClosed(c) PROVE Base'
  <2>1. RestOK'
    BY <1>0, <1>5, ConsumerTypes
  <2>2. up
    <3>1. c \in server.consumers
      BY <1>5 DEF ConsumerClosed, DataConsumerClosed, ClosedAtServer
    <3> QED BY <3>1 DEF Base, ConnectionSound, Forgotten
  <2>3. \A d \in Consumer : consumer[d] \in {"open", "closed"} =>
          consumer'[d] \in {"open", "closed"} /\ (d \notin data => d \notin data')
    BY <1>0, <1>5 DEF RestOK, ConsumingOK, ConsumerClosed, DataConsumerClosed, ClosedAtServer
  <2>4. paused' \subseteq Opened'
    BY <1>0, <1>5 DEF Base, RestOK, ConsumingOK, ConsumerClosed, DataConsumerClosed,
                      ClosedAtServer, Opened
  <2> QED BY <1>5, <2>1, <2>2, <2>3, <2>4, BaseKeeps
          DEF ConsumerClosed, DataConsumerClosed, ClosedAtServer, session, wire, producing
<1> QED BY <1>1, <1>2, <1>3, <1>4, <1>5

\* A step that sends requests about what is there.
LEMMA BaseSends ==
  ASSUME Base, RestOK', NEW q \in Seq(Request), Sends(q), \A r \in ToSet(q) : Sound(r)',
         UNCHANGED <<up, room, made, slot, server>>, alive' \subseteq alive,
         paused' \subseteq Opened',
         \A c \in Consumer : consumer[c] \in {"open", "closed"} =>
           consumer'[c] \in {"open", "closed"} /\ (c \notin data => c \notin data')
  PROVE  Base'
<1>1. WireOK /\ RequestsSound
  BY TypeParts DEF Base
<1>2. WireOK' /\ Requests' = Requests \cup ToSet(q)
  BY <1>1, Sending
<1>3. RequestsSound'
  <2>1. \A p \in DOMAIN made : p \in DOMAIN made' /\ made'[p] = made[p]
    OBVIOUS
  <2>2. PICK N : N = ToSet(q)
    OBVIOUS
  <2> QED BY <1>1, <1>2, <2>1, <2>2, RequestsKeep
<1>4. TypeOK'
  BY <1>2 DEF TypeOK, RestOK, WireOK, SessionOK, ProducingOK, ConsumingOK, ServerOK, CountsOK
<1>5. ConnectionSound'
  BY DEF Base, ConnectionSound, Sends
<1> QED BY <1>3, <1>4, <1>5 DEF Base, SlotsSound

\* One request, or none.
LEMMA FewSent ==
  /\ <<>> \in Seq(Request) /\ ToSet(<<>>) = {}
  /\ \A r \in Request : <<r>> \in Seq(Request) /\ ToSet(<<r>>) = {r}
  /\ \A r \in Request, k \in Request :
       <<r, k>> \in Seq(Request) /\ ToSet(<<r, k>>) = {r, k}
BY DEF ToSet

LEMMA CapturedTypes ==
  ASSUME RestOK, NEW m \in Medium, Captured(m) PROVE RestOK'
<1>1. ProducingOK'
  <2>1. capturing' \in [Medium -> Nat]
    <3>1. capturing \in [Medium -> Nat] /\ capturing[m] - 1 \in Nat
      BY DEF RestOK, ProducingOK, Captured
    <3> QED BY <3>1 DEF Captured
  <2>2. progress' \subseteq progress
    BY DEF Captured
  <2>3. UNCHANGED <<slot, changing, made, alive, muted, shownMuted>>
    BY DEF Captured
  <2> QED BY <2>1, <2>2, <2>3 DEF RestOK, ProducingOK
<1>2. UNCHANGED <<session, crashed, made, consuming, server, history, calls, opens>>
  BY DEF Captured
<1> QED BY <1>1, <1>2 DEF RestOK, SessionOK, ConsumingOK, ServerOK, CountsOK, session, consuming,
                      history

LEMMA BaseCaptured ==
  ASSUME Base, NEW m \in Medium, Captured(m) PROVE Base'
<1>1. RestOK'
  BY TypeParts, CapturedTypes DEF Base
<1>2. UNCHANGED <<up, room, made, slot, alive, server, paused, consumer, data, Opened>>
  BY DEF Captured, session, consuming, Opened
<1>3. CASE send
  <2>1. PICK r : r = [what |-> "produce", medium |-> m]
    OBVIOUS
  <2>2. Sends(<<r>>) /\ r \in Request /\ r.what = "produce"
    BY <1>3, <2>1, Made DEF Captured
  <2>3. <<r>> \in Seq(Request) /\ \A k \in ToSet(<<r>>) : k = r
    BY <2>2, FewSent
  <2>4. \A k \in ToSet(<<r>>) : Sound(k)'
    BY <2>2, <2>3 DEF Sound, OfProducer, OfConsumers
  <2> QED BY <1>1, <1>2, <2>2, <2>3, <2>4, BaseSends DEF Base
<1>4. CASE ~send
  <2>1. UNCHANGED <<sent, lost>>
    BY <1>4 DEF Captured, wire
  <2> QED BY <1>1, <1>2, <2>1, BaseKeeps DEF Base
<1> QED BY <1>3, <1>4

\* What a request about the Producer in a slot is about.
LEMMA SlotRequest ==
  ASSUME Base, NEW m \in Medium, slot[m] # 0, NEW what \in OfProducer
  PROVE  /\ slot[m] \in DOMAIN made /\ made[slot[m]] = m /\ slot[m] \in Producer
         /\ OfMedium(what, m, slot[m]) \in Request
         /\ \A r : r = OfMedium(what, m, slot[m]) /\ made' = made => Sound(r)'
<1>1. slot[m] \in DOMAIN made /\ made[slot[m]] = m /\ slot[m] \in Producer
  BY TypeParts DEF Base, SlotsSound, RestOK, ProducingOK
<1>2. OfMedium(what, m, slot[m]) \in Request
  BY <1>1, Made
<1>3. ASSUME NEW r, r = OfMedium(what, m, slot[m]), made' = made PROVE Sound(r)'
  <2>1. r.what \notin OfConsumers /\ r.id = slot[m] /\ r.medium = m
    BY <1>3 DEF OfProducer, OfConsumers, OfMedium
  <2> QED BY <1>1, <1>3, <2>1 DEF Sound
<1> QED BY <1>1, <1>2, <1>3

LEMMA BaseMuted ==
  ASSUME Base, NEW m \in Medium, Disable(m) \/ Mute(m) \/ Unmute(m) PROVE Base'
<1>1. PICK what \in OfProducer : Sends(<<OfMedium(what, m, slot[m])>>)
  BY DEF Disable, Mute, Unmute, OfProducer
<1>2. /\ UNCHANGED <<session, crashed, slot, capturing, changing, made, progress, consuming,
                     server, refused, opens>>
      /\ alive' \subseteq alive /\ muted' \subseteq alive' /\ shownMuted' \subseteq shownMuted
  BY TypeParts DEF Base, RestOK, ProducingOK, Disable, Mute, Unmute, history
<1>3. slot[m] # 0 /\ calls < MaxCalls /\ calls' = calls + 1
  BY DEF Disable, Mute, Unmute, Called
<1>4. overlapped' \in BOOLEAN
  BY TypeParts DEF Base, RestOK, CountsOK, Disable, Mute, Unmute, history
<1>5. RestOK'
  <2>1. ProducingOK'
    BY <1>2, TypeParts DEF Base, RestOK, ProducingOK
  <2>2. CountsOK'
    BY <1>2, <1>3, <1>4, TypeParts DEF Base, RestOK, CountsOK
  <2> QED BY <1>2, <2>1, <2>2, TypeParts
          DEF Base, RestOK, SessionOK, ConsumingOK, ServerOK, session, consuming
<1>6. PICK r : r = OfMedium(what, m, slot[m])
  OBVIOUS
<1>7. r \in Request /\ Sound(r)'
  BY <1>2, <1>3, <1>6, SlotRequest
<1>8. <<r>> \in Seq(Request) /\ \A k \in ToSet(<<r>>) : Sound(k)'
  BY <1>7, FewSent
<1>9. /\ UNCHANGED <<up, room, made, slot, server, consumer, data>>
      /\ paused' \subseteq Opened'
  BY <1>2 DEF session, consuming, Opened, Base
<1> QED BY <1>1, <1>2, <1>5, <1>6, <1>8, <1>9, BaseSends

\* What a request about a Consumer that is open is about.
LEMMA ConsumerRequest ==
  ASSUME NEW c \in Consumer, NEW what \in OfConsumers,
         consumer'[c] \in {"open", "closed"}, c \notin data'
  PROVE  \A r : r = OfConsumer(what, c) => Sound(r)'
BY DEF Sound, OfConsumer, OfConsumers, OfProducer

\* Requests about the Consumers of cs, all of them open.
LEMMA ConsumerRequests ==
  ASSUME NEW what \in OfConsumers, NEW cs \in SUBSET Consumer, cs \subseteq Opened',
         NEW q, q = SetToSeq({OfConsumer(what, c) : c \in cs})
  PROVE  q \in Seq(Request) /\ \A r \in ToSet(q) : r.what = what /\ Sound(r)'
<1>1. q \in Seq(Request) /\ ToSet(q) \subseteq {OfConsumer(what, c) : c \in cs}
  BY ConsumersListed DEF OfConsumers
<1>2. ASSUME NEW r \in ToSet(q) PROVE r.what = what /\ Sound(r)'
  <2>1. PICK c \in cs : r = OfConsumer(what, c)
    BY <1>1
  <2>2. consumer'[c] \in {"open", "closed"} /\ c \notin data'
    BY DEF Opened
  <2> QED BY <2>1, <2>2, ConsumerRequest DEF OfConsumer
<1> QED BY <1>1, <1>2

LEMMA BaseConsumed ==
  ASSUME Base, NEW c \in Consumer, Consumed(c) PROVE Base'
<1> DEFINE cs == (IF audioOnly THEN {c} ELSE {}) \ paused
<1>1. /\ UNCHANGED <<session, crashed, producing, progress, audioOnly, data, server, history,
                     calls, opens, paused>>
      /\ consumer' = [consumer EXCEPT ![c] = "open"] /\ consumer[c] = "consuming"
      /\ c \notin data
      /\ Sends(SetToSeq({OfConsumer("pauseConsumer", d) : d \in cs}))
  BY DEF Consumed, Pause
<1>2. RestOK
  BY TypeParts DEF Base
<1>3. c \in Opened' /\ Opened \subseteq Opened'
  BY <1>1, <1>2 DEF RestOK, ConsumingOK, Opened
<1>4. RestOK'
  <2>1. ConsumingOK'
    BY <1>1, <1>2 DEF RestOK, ConsumingOK
  <2> QED BY <1>1, <1>2, <2>1 DEF RestOK, SessionOK, ProducingOK, ServerOK, CountsOK, session,
                                  producing, history
<1>5. PICK q : q = SetToSeq({OfConsumer("pauseConsumer", d) : d \in cs})
  OBVIOUS
<1>6. q \in Seq(Request) /\ \A r \in ToSet(q) : Sound(r)'
  <2>1. cs \in SUBSET Consumer /\ cs \subseteq Opened' /\ "pauseConsumer" \in OfConsumers
    BY <1>3 DEF OfConsumers
  <2> HIDE DEF cs
  <2> QED BY <1>5, <2>1, ConsumerRequests
<1>7. UNCHANGED <<up, room, made, slot, server, alive>> /\ paused' \subseteq Opened'
  BY <1>1, <1>3 DEF session, producing, Base
<1>8. \A d \in Consumer : consumer[d] \in {"open", "closed"} =>
        consumer'[d] \in {"open", "closed"} /\ (d \notin data => d \notin data')
  BY <1>1, <1>2 DEF RestOK, ConsumingOK
<1>9. Sends(q)
  BY <1>1, <1>5
<1> QED BY <1>4, <1>6, <1>7, <1>8, <1>9, BaseSends

LEMMA BaseAudioOnly ==
  ASSUME Base, EnableAudioOnly PROVE Base'
<1> DEFINE p == slot["webcam"]
           first == IF p = 0 THEN <<>> ELSE <<OfMedium("closeProducer", "webcam", p)>>
           cs == Opened \ paused
<1>1. /\ UNCHANGED <<session, crashed, slot, capturing, changing, made, progress, consumer,
                     data, paused, server, refused, opens>>
      /\ Sends(first \o SetToSeq({OfConsumer("pauseConsumer", c) : c \in cs}))
      /\ alive' = alive \ {p} /\ muted' = muted \ {p} /\ shownMuted' = shownMuted \ {p}
      /\ overlapped' = (overlapped \/ (p # 0 /\ Disabling("webcam")))
      /\ calls < MaxCalls /\ calls' = calls + 1 /\ audioOnly' = TRUE
  BY DEF EnableAudioOnly, Called
<1>2. RestOK
  BY TypeParts DEF Base
<1>3. RestOK'
  <2>1. ProducingOK'
    BY <1>1, <1>2 DEF RestOK, ProducingOK
  <2>2. CountsOK'
    BY <1>1, <1>2 DEF RestOK, CountsOK
  <2> QED BY <1>1, <1>2, <2>1, <2>2 DEF RestOK, SessionOK, ConsumingOK, ServerOK, session
<1>4. PICK f : f = first
  OBVIOUS
<1>5. f \in Seq(Request) /\ \A r \in ToSet(f) : Sound(r)'
  <2>1. CASE p = 0
    BY <1>4, <2>1, FewSent
  <2>2. CASE p # 0
    <3>1. PICK r : r = OfMedium("closeProducer", "webcam", p)
      OBVIOUS
    <3>2. r \in Request /\ Sound(r)'
      BY <1>1, <2>2, <3>1, SlotRequest DEF OfProducer
    <3> QED BY <1>4, <2>2, <3>1, <3>2, FewSent
  <2> QED BY <2>1, <2>2
<1>6. PICK s : s = SetToSeq({OfConsumer("pauseConsumer", c) : c \in cs})
  OBVIOUS
<1>7. Opened' = Opened
  BY <1>1 DEF Opened
<1>8. s \in Seq(Request) /\ \A r \in ToSet(s) : Sound(r)'
  <2>1. cs \in SUBSET Consumer /\ cs \subseteq Opened' /\ "pauseConsumer" \in OfConsumers
    BY <1>7 DEF OfConsumers, Opened
  <2> HIDE DEF cs
  <2> QED BY <1>6, <2>1, ConsumerRequests
<1>9. PICK q : q = f \o s
  OBVIOUS
<1>10. q \in Seq(Request) /\ \A r \in ToSet(q) : Sound(r)'
  BY <1>5, <1>8, <1>9, Together
<1>11. Sends(q)
  BY <1>1, <1>4, <1>6, <1>9
<1>12. /\ UNCHANGED <<up, room, made, slot, server, consumer, data>> /\ alive' \subseteq alive
       /\ paused' \subseteq Opened'
  BY <1>1, <1>7 DEF session, Base
<1> QED BY <1>3, <1>10, <1>11, <1>12, BaseSends

LEMMA BaseAudioAgain ==
  ASSUME Base, DisableAudioOnly PROVE Base'
<1>1. /\ UNCHANGED <<session, crashed, slot, changing, made, alive, muted, shownMuted,
                     consumer, data, paused, server, refused, opens>>
      /\ calls < MaxCalls /\ calls' = calls + 1 /\ audioOnly' = FALSE /\ Captures({"webcam"})
      /\ Sends(SetToSeq({OfConsumer("resumeConsumer", c) : c \in paused}))
  BY DEF DisableAudioOnly, Called
<1>2. RestOK
  BY TypeParts DEF Base
<1>3. RestOK'
  <2>1. ProducingOK'
    BY <1>1, <1>2, CapturesTypes DEF RestOK, ProducingOK
  <2>2. CountsOK'
    BY <1>1, <1>2, CapturesTypes DEF RestOK, CountsOK
  <2> QED BY <1>1, <1>2, <2>1, <2>2 DEF RestOK, SessionOK, ConsumingOK, ServerOK, session
<1>4. PICK q : q = SetToSeq({OfConsumer("resumeConsumer", c) : c \in paused})
  OBVIOUS
<1>5. Opened' = Opened /\ paused \subseteq Opened
  BY <1>1 DEF Opened, Base
<1>6. q \in Seq(Request) /\ \A r \in ToSet(q) : Sound(r)'
  <2>1. paused \in SUBSET Consumer /\ paused \subseteq Opened'
        /\ "resumeConsumer" \in OfConsumers
    BY <1>5 DEF OfConsumers, Opened
  <2> QED BY <1>4, <2>1, ConsumerRequests
<1>7. /\ UNCHANGED <<up, room, made, slot, server, consumer, data, alive>>
      /\ paused' \subseteq Opened'
  BY <1>1, <1>5 DEF session
<1> QED BY <1>1, <1>3, <1>4, <1>6, <1>7, BaseSends

\* Requests that are about nothing that the client has.
LEMMA AboutSound ==
  ASSUME NEW what \in {"produceChat", "produceBot", "restartIceSend", "restartIceRecv",
                       "getRouterRtpCapabilities", "createSendTransport",
                       "createRecvTransport", "join"}
  PROVE  \A r : r = About(what) => r \in Request /\ Sound(r)'
<1>1. About(what) \in Request /\ About(what).what = what
  BY Made
<1> QED BY <1>1 DEF Sound, OfProducer, OfConsumers

LEMMA BaseAbout ==
  ASSUME Base, TransportConnected \/ RestartIce PROVE Base'
<1>1. /\ UNCHANGED <<room, closed, up, send, recv, crashed, producing, consuming, server,
                     history, opens>>
      /\ connected' \in {connected, TRUE} /\ calls' \in {calls, calls + 1}
      /\ (calls' = calls \/ calls < MaxCalls)
      /\ progress' \subseteq progress \cup {"restartIce"}
  BY DEF TransportConnected, RestartIce, Called, session
<1>2. RestOK
  BY TypeParts DEF Base
<1>3. RestOK'
  <2>1. SessionOK'
    BY <1>1, <1>2 DEF RestOK, SessionOK
  <2>3. CountsOK'
    BY <1>1, <1>2 DEF RestOK, CountsOK, history
  <2>2. ProducingOK'
    BY <1>1, <1>2 DEF RestOK, ProducingOK, producing
  <2> QED BY <1>1, <1>2, <2>1, <2>2, <2>3
          DEF RestOK, ConsumingOK, ServerOK, producing, consuming
<1>4. /\ UNCHANGED <<up, room, made, slot, server, alive, consumer, data>>
      /\ paused' \subseteq Opened'
  BY <1>1 DEF producing, consuming, Opened, Base
<1>5. \E q \in Seq(Request) : Sends(q) /\ \A r \in ToSet(q) : Sound(r)'
  <2>1. CASE TransportConnected
    <3>1. PICK a, b : a = About("produceChat") /\ b = About("produceBot")
      OBVIOUS
    <3>2. a \in Request /\ b \in Request /\ Sound(a)' /\ Sound(b)'
      BY <3>1, AboutSound
    <3>3. <<a, b>> \in Seq(Request) /\ ToSet(<<a, b>>) = {a, b}
      BY <3>2, FewSent
    <3> QED BY <2>1, <3>1, <3>2, <3>3 DEF TransportConnected
  <2>2. CASE RestartIce
    <3>1. PICK a : a = About(IF send THEN "restartIceSend" ELSE "restartIceRecv")
      OBVIOUS
    <3>2. a \in Request /\ Sound(a)'
      BY <3>1, AboutSound
    <3>3. <<a>> \in Seq(Request) /\ ToSet(<<a>>) = {a}
      BY <3>2, FewSent
    <3> QED BY <2>2, <3>1, <3>2, <3>3 DEF RestartIce
  <2> QED BY <2>1, <2>2
<1> QED BY <1>3, <1>4, <1>5, BaseSends

\* A request is answered, and the client may send others.
LEMMA BaseAnswered ==
  ASSUME Base, RestOK', sent # <<>>, NEW q \in Seq(Request), Then(q),
         \A r \in ToSet(q) : Sound(r)', up' = up, SlotsSound', paused' \subseteq Opened',
         \A p \in DOMAIN made : p \in DOMAIN made' /\ made'[p] = made[p],
         UNCHANGED <<consumer, data>>
  PROVE  Base'
<1>1. WireOK /\ RequestsSound
  BY TypeParts DEF Base
<1>2. WireOK' /\ Requests' \subseteq Requests \cup ToSet(q)
  BY <1>1, Answering
<1>3. RequestsSound'
  <2>1. PICK N : N = ToSet(q)
    OBVIOUS
  <2> QED BY <1>1, <1>2, <2>1, RequestsKeep
<1>4. TypeOK'
  BY <1>2 DEF TypeOK, RestOK, WireOK, SessionOK, ProducingOK, ConsumingOK, ServerOK, CountsOK
<1>5. ConnectionSound'
  BY DEF Base, ConnectionSound
<1> QED BY <1>3, <1>4, <1>5 DEF Base

LEMMA HeadSound ==
  ASSUME Base, sent # <<>>
  PROVE  Head(sent) \in Request /\ Sound(Head(sent)) /\ up
<1>1. Head(sent) \in Request /\ Head(sent) \in Requests
  <2>1. WireOK
    BY TypeParts DEF Base
  <2>2. Tail(sent) \in Seq(Request) /\ Lacks(sent, 1, Tail(sent)) /\ 1 \in 1 .. Len(sent)
        /\ Head(sent) = sent[1] /\ Head(sent) \in Request
    BY <2>1, HeadGone DEF WireOK
  <2>3. sent[1] \in ToSet(sent)
    BY <2>1, <2>2, Left DEF WireOK
  <2> QED BY <2>2, <2>3 DEF Requests
<1> QED BY <1>1 DEF Base, RequestsSound, ConnectionSound

LEMMA BaseJoinStep ==
  ASSUME Base, JoinStepDone PROVE Base'
<1>1. PICK i \in 1 .. 3 : Done(Joining[i]) /\ Then(<<About(Joining[i + 1])>>)
  BY DEF JoinStepDone
<1>2. PICK r : r = About(Joining[i + 1])
  OBVIOUS
<1>3. r \in Request /\ Sound(r)'
  <2>1. Joining[i + 1] \in {"createSendTransport", "createRecvTransport", "join"}
    BY DEF Joining
  <2> QED BY <1>2, <2>1, AboutSound
<1>4. <<r>> \in Seq(Request) /\ \A k \in ToSet(<<r>>) : Sound(k)'
  BY <1>3, FewSent
<1>5. RestOK
  BY TypeParts DEF Base
<1>6. /\ UNCHANGED <<room, closed, crashed, up, connected, producing, progress, consuming,
                     server, history, calls, opens>>
      /\ send' \in BOOLEAN /\ recv' \in BOOLEAN
  BY <1>5 DEF JoinStepDone, RestOK, SessionOK
<1>7. RestOK'
  <2>1. SessionOK'
    BY <1>5, <1>6 DEF RestOK, SessionOK
  <2> QED BY <1>5, <1>6, <2>1 DEF RestOK, ProducingOK, ConsumingOK, ServerOK, CountsOK,
                                  producing, consuming, history
<1>8. /\ SlotsSound' /\ paused' \subseteq Opened' /\ UNCHANGED <<consumer, data, made>>
  BY <1>6 DEF Base, SlotsSound, Opened, producing, consuming
<1>9. sent # <<>> /\ Then(<<r>>)
  BY <1>1, <1>2 DEF Done
<1> QED BY <1>4, <1>6, <1>7, <1>8, <1>9, BaseAnswered

LEMMA BaseJoined ==
  ASSUME Base, Joined PROVE Base'
<1>1. /\ UNCHANGED <<closed, crashed, up, send, recv, connected, slot, changing, made, alive,
                     muted, shownMuted, consuming, server, refused, calls, opens>>
      /\ room' = "connected" /\ Captures(Medium) /\ sent # <<>> /\ Then(<<>>)
  BY DEF Joined, Done
<1>2. RestOK
  BY TypeParts DEF Base
<1>3. RestOK'
  <2>1. ProducingOK'
    BY <1>1, <1>2, CapturesTypes DEF RestOK, ProducingOK
  <2>2. CountsOK'
    BY <1>1, <1>2, CapturesTypes DEF RestOK, CountsOK
  <2>3. SessionOK'
    BY <1>1, <1>2 DEF RestOK, SessionOK
  <2> QED BY <1>1, <1>2, <2>1, <2>2, <2>3 DEF RestOK, ConsumingOK, ServerOK, consuming
<1>4. SlotsSound' /\ paused' \subseteq Opened' /\ UNCHANGED <<consumer, data, made>>
  BY <1>1 DEF Base, SlotsSound, Opened, consuming
<1> QED BY <1>1, <1>3, <1>4, FewSent, BaseAnswered

LEMMA BaseProduced ==
  ASSUME Base, Produced PROVE Base'
<1> DEFINE m == Head(sent).medium
           p == Len(made) + 1
<1>1. /\ UNCHANGED <<session, crashed, capturing, changing, muted, shownMuted, consuming,
                     history, calls, opens>>
      /\ sent # <<>> /\ Then(<<>>) /\ Len(made) < MaxProducers /\ Head(sent).what = "produce"
      /\ made' = Append(made, m) /\ slot' = [slot EXCEPT ![m] = p]
      /\ alive' = alive \cup {p} /\ server' = [server EXCEPT !.producers = @ \cup {p}]
      /\ progress' = progress \ InProgress(m)
  BY DEF Produced, Done, Possible
<1>2. RestOK
  BY TypeParts DEF Base
<1>3. m \in Medium
  BY <1>1, HeadSound, RequestFields
<1>4. p \in Producer /\ Len(made) \in Nat
  BY <1>1, <1>2 DEF RestOK, ProducingOK, Producer
<1>5. /\ made' \in Seq(Medium) /\ Len(made') = p /\ DOMAIN made' = DOMAIN made \cup {p}
      /\ made'[p] = m /\ \A o \in DOMAIN made : made'[o] = made[o] /\ o # p
  BY <1>1, <1>2, <1>3 DEF RestOK, ProducingOK
<1> HIDE DEF m, p
<1>6. RestOK'
  <2>1. ProducingOK'
    BY <1>1, <1>2, <1>3, <1>4, <1>5 DEF RestOK, ProducingOK
  <2>2. ServerOK'
    BY <1>1, <1>2, <1>5 DEF RestOK, ServerOK
  <2> QED BY <1>1, <1>2, <2>1, <2>2 DEF RestOK, SessionOK, ConsumingOK, CountsOK, session,
                                       consuming, history
<1>7. SlotsSound'
  BY <1>1, <1>2, <1>3, <1>5 DEF Base, SlotsSound, RestOK, ProducingOK
<1>8. paused' \subseteq Opened' /\ UNCHANGED <<consumer, data, up>>
  BY <1>1 DEF Base, Opened, consuming, session
<1>9. \A o \in DOMAIN made : o \in DOMAIN made' /\ made'[o] = made[o]
  BY <1>5
<1> QED BY <1>1, <1>6, <1>7, <1>8, <1>9, FewSent, BaseAnswered

LEMMA BaseProducerAnswer ==
  ASSUME Base, ProducerClosed \/ ProducerPaused \/ ProducerResumed PROVE Base'
<1> DEFINE r == Head(sent)
<1>1. /\ UNCHANGED <<session, crashed, capturing, changing, made, alive, muted, progress,
                     consuming, history, calls, opens>>
      /\ sent # <<>> /\ Then(<<>>) /\ r.what \in OfProducer /\ r.id \in server.producers
      /\ \/ slot' = [slot EXCEPT ![r.medium] = 0] /\ shownMuted' = shownMuted
         \/ /\ slot' = slot
            /\ shownMuted' \subseteq shownMuted \cup ({slot[r.medium]} \ {0})
  BY DEF ProducerClosed, ProducerPaused, ProducerResumed, Done, Possible, OfProducer
<1>2. RestOK
  BY TypeParts DEF Base
<1>3. r \in Request /\ Sound(r) /\ r.medium \in Medium
  BY <1>1, HeadSound, RequestFields
<1>4. \/ server' = [server EXCEPT !.producers = @ \ {r.id}, !.muted = @ \ {r.id}]
      \/ server' = [server EXCEPT !.muted = @ \cup {r.id}]
      \/ server' = [server EXCEPT !.muted = @ \ {r.id}]
  BY DEF ProducerClosed, ProducerPaused, ProducerResumed
<1>5. slot[r.medium] # 0 => slot[r.medium] \in DOMAIN made
  BY <1>3 DEF Base, SlotsSound
<1> HIDE DEF r
<1>6. RestOK'
  <2>1. ProducingOK'
    BY <1>1, <1>2, <1>3, <1>5 DEF RestOK, ProducingOK
  <2>2. ServerOK'
    <3>1. /\ server \in [producers: SUBSET DOMAIN made, muted: SUBSET DOMAIN made,
                         consumers: SUBSET Consumer, paused: SUBSET Consumer]
          /\ r.id \in DOMAIN made /\ made' = made
      BY <1>1, <1>2, <1>3 DEF RestOK, ServerOK, Sound
    <3>2. /\ server'.producers \subseteq DOMAIN made /\ server'.muted \subseteq DOMAIN made
          /\ server'.consumers \subseteq Consumer /\ server'.paused \subseteq Consumer
          /\ server' = [producers |-> server'.producers, muted |-> server'.muted,
                        consumers |-> server'.consumers, paused |-> server'.paused]
      <4>1. CASE server' = [server EXCEPT !.producers = @ \ {r.id}, !.muted = @ \ {r.id}]
        BY <3>1, <4>1
      <4>2. CASE server' = [server EXCEPT !.muted = @ \cup {r.id}]
        BY <3>1, <4>2
      <4>3. CASE server' = [server EXCEPT !.muted = @ \ {r.id}]
        BY <3>1, <4>3
      <4> QED BY <1>4, <4>1, <4>2, <4>3
    <3> QED BY <3>1, <3>2 DEF ServerOK
  <2> QED BY <1>1, <1>2, <2>1, <2>2 DEF RestOK, SessionOK, ConsumingOK, CountsOK, session,
                                       consuming, history
<1>7. SlotsSound'
  BY <1>1, <1>2, <1>3 DEF Base, SlotsSound, RestOK, ProducingOK
<1>8. paused' \subseteq Opened' /\ UNCHANGED <<consumer, data, up>>
  BY <1>1 DEF Base, Opened, consuming, session
<1>9. \A o \in DOMAIN made : o \in DOMAIN made' /\ made'[o] = made[o]
  BY <1>1
<1> QED BY <1>1, <1>6, <1>7, <1>8, <1>9, FewSent, BaseAnswered

LEMMA BaseConsumerAnswer ==
  ASSUME Base, ConsumerPaused \/ ConsumerResumed PROVE Base'
<1> DEFINE c == Head(sent).consumer
<1>1. /\ UNCHANGED <<session, crashed, producing, progress, audioOnly, consumer, data, history,
                     calls, opens>>
      /\ sent # <<>> /\ Then(<<>>) /\ c \in server.consumers
      /\ paused' \subseteq paused \cup ({c} \cap Opened)
  BY DEF ConsumerPaused, ConsumerResumed, Done, Possible
<1>2. RestOK
  BY TypeParts DEF Base
<1>3. \/ server' = [server EXCEPT !.paused = @ \cup {c}]
      \/ server' = [server EXCEPT !.paused = @ \ {c}]
  BY DEF ConsumerPaused, ConsumerResumed
<1>4. c \in Consumer
  BY <1>1, <1>2 DEF RestOK, ServerOK
<1> HIDE DEF c
<1>5. paused' \subseteq Opened' /\ Opened \subseteq Consumer
  BY <1>1 DEF Base, Opened
<1>6. RestOK'
  <2>1. ConsumingOK'
    BY <1>1, <1>2, <1>5 DEF RestOK, ConsumingOK
  <2>2. ServerOK'
    BY <1>1, <1>2, <1>3, <1>4 DEF RestOK, ServerOK, producing
  <2> QED BY <1>1, <1>2, <2>1, <2>2 DEF RestOK, SessionOK, ProducingOK, CountsOK, session,
                                       producing, history
<1>7. SlotsSound' /\ UNCHANGED <<consumer, data, up, made>>
  BY <1>1 DEF Base, SlotsSound, session, producing
<1> QED BY <1>1, <1>5, <1>6, <1>7, FewSent, BaseAnswered

LEMMA BaseOtherAnswer ==
  ASSUME Base, ChatDataProduced \/ BotDataProduced \/ IceRestarted PROVE Base'
<1>1. /\ UNCHANGED <<session, crashed, producing, consuming, server, history, calls, opens>>
      /\ progress' \subseteq progress /\ sent # <<>>
      /\ Then(<<>>) \/ Then(<<About("restartIceRecv")>>)
  BY DEF ChatDataProduced, BotDataProduced, IceRestarted, Done
<1>2. RestOK
  BY TypeParts DEF Base
<1>3. RestOK'
  <2>1. ProducingOK'
    BY <1>1, <1>2 DEF RestOK, ProducingOK, producing
  <2> QED BY <1>1, <1>2, <2>1 DEF RestOK, SessionOK, ConsumingOK, ServerOK, CountsOK, session,
                                  producing, consuming, history
<1>4. /\ SlotsSound' /\ paused' \subseteq Opened' /\ UNCHANGED <<consumer, data, up, made>>
  BY <1>1 DEF Base, SlotsSound, Opened, session, producing, consuming
<1>5. PICK a : a = About("restartIceRecv")
  OBVIOUS
<1>6. a \in Request /\ Sound(a)'
  BY <1>5, AboutSound
<1>7. <<a>> \in Seq(Request) /\ ToSet(<<a>>) = {a}
  BY <1>6, FewSent
<1>8. CASE Then(<<>>)
  BY <1>1, <1>3, <1>4, <1>8, FewSent, BaseAnswered
<1>9. CASE Then(<<a>>)
  BY <1>1, <1>3, <1>4, <1>6, <1>7, <1>9, BaseAnswered
<1> QED BY <1>1, <1>5, <1>8, <1>9

\* The connection and the transports are over.
LEMMA BaseClosed ==
  ASSUME Base, NEW s \in Seq(Request), NEW l \in Seq(Request),
         ToSet(s) \cup ToSet(l) \subseteq Requests, ConnectionLost(s, l), TransportsClosed,
         closed' \in BOOLEAN, UNCHANGED <<crashed, overlapped, calls, opens>>,
         refused' \in BOOLEAN
  PROVE  Base'
<1>1. WireOK' /\ Requests' \subseteq Requests
  BY Losing
<1>2. RestOK
  BY TypeParts DEF Base
<1>3. /\ up' = FALSE /\ sent' = <<>> /\ server' = Forgotten
      /\ send' = FALSE /\ recv' = FALSE /\ connected' = FALSE
      /\ slot' = [m \in Medium |-> IF \E p \in alive : made[p] = m THEN 0 ELSE slot[m]]
      /\ alive' = {} /\ muted' = {} /\ shownMuted' = {} /\ paused' = {}
      /\ consumer' = [c \in Consumer |->
                        IF consumer[c] = "open" THEN "closed" ELSE consumer[c]]
      /\ room' = "closed" /\ progress' = {} /\ audioOnly' = FALSE
      /\ UNCHANGED <<capturing, changing, made, data>>
  BY DEF ConnectionLost, TransportsClosed
<1>4. RestOK'
  <2>1. SessionOK'
    BY <1>2, <1>3 DEF RestOK, SessionOK
  <2>2. ProducingOK'
    BY <1>2, <1>3 DEF RestOK, ProducingOK
  <2>3. ConsumingOK'
    BY <1>2, <1>3 DEF RestOK, ConsumingOK
  <2>4. ServerOK'
    BY <1>2, <1>3 DEF RestOK, ServerOK, Forgotten
  <2>5. CountsOK'
    BY <1>2 DEF RestOK, CountsOK
  <2> QED BY <2>1, <2>2, <2>3, <2>4, <2>5 DEF RestOK
<1>5. RequestsSound'
  <2>1. WireOK /\ RequestsSound
    BY TypeParts DEF Base
  <2>2. \A c \in Consumer : consumer[c] \in {"open", "closed"} =>
          consumer'[c] \in {"open", "closed"} /\ (c \notin data => c \notin data')
    BY <1>3
  <2>3. PICK N : N = {}
    OBVIOUS
  <2>4. Requests' \subseteq Requests \cup N /\ \A r \in N : Sound(r)'
    BY <1>1, <2>3
  <2>5. \A p \in DOMAIN made : p \in DOMAIN made' /\ made'[p] = made[p]
    BY <1>3
  <2> QED BY <2>1, <2>2, <2>4, <2>5, RequestsKeep
<1>6. SlotsSound' /\ ConnectionSound'
  BY <1>3 DEF Base, SlotsSound, ConnectionSound
<1>7. TypeOK'
  BY <1>1, <1>4 DEF TypeOK, RestOK, WireOK, SessionOK, ProducingOK, ConsumingOK, ServerOK,
                    CountsOK
<1> QED BY <1>3, <1>5, <1>6, <1>7 DEF Base

\* A rejection, of a request that leaves s and l behind.
LEMMA BaseRejected ==
  ASSUME Base, NEW r, NEW s \in Seq(Request), NEW l \in Seq(Request), Rejects(r, s, l),
         ToSet(s) \cup ToSet(l) \subseteq Requests, up \/ s = <<>>,
         refused' \in BOOLEAN, UNCHANGED <<overlapped, calls, opens>>
  PROVE  Base'
<1>1. CASE r.what \in ToSet(Joining) /\ ~closed
  BY <1>1, BaseClosed DEF Rejects, Close
<1>2. CASE ~(r.what \in ToSet(Joining) /\ ~closed)
  <2>1. /\ sent' = s /\ lost' = l /\ UNCHANGED <<session, server>>
        /\ crashed' \in BOOLEAN /\ progress' \subseteq progress
        /\ \E m : slot' = [k \in Medium |-> IF k = m THEN 0 ELSE slot[k]] \/ slot' = [k \in Medium |-> slot[k]]
        /\ UNCHANGED <<capturing, changing, made, alive, muted, shownMuted, consuming>>
    <3>1. crashed' \in BOOLEAN
      <4>1. crashed' = (r.what \in {"produceChat", "produceBot"})
        BY <1>2 DEF Rejects
      <4> QED BY <4>1
    <3>2. progress' \subseteq progress
      BY <1>2 DEF Rejects
    <3>3. \E m : \/ slot' = [k \in Medium |-> IF k = m THEN 0 ELSE slot[k]]
                 \/ slot' = [k \in Medium |-> slot[k]]
      <4>1. PICK m : slot' = [k \in Medium |->
                                IF r.what = "closeProducer" /\ k = m THEN 0 ELSE slot[k]]
        BY <1>2 DEF Rejects
      <4> QED BY <4>1
    <3>4. sent' = s /\ lost' = l /\ UNCHANGED <<session, server>>
      BY <1>2 DEF Rejects
    <3>5. UNCHANGED <<capturing, changing, made, alive, muted, shownMuted, consuming>>
      BY <1>2 DEF Rejects
    <3> QED BY <3>1, <3>2, <3>3, <3>4, <3>5
  <2>2. RestOK
    BY TypeParts DEF Base
  <2>3. slot' \in [Medium -> Producer \cup {0}] /\ \A k \in Medium : slot'[k] \in {slot[k], 0}
    BY <2>1, <2>2 DEF RestOK, ProducingOK
  <2>4. RestOK'
    <3>1. SessionOK'
      BY <2>1, <2>2 DEF RestOK, SessionOK, session
    <3>2. ProducingOK'
      BY <2>1, <2>2, <2>3 DEF RestOK, ProducingOK
    <3>3. CountsOK'
      BY <2>2 DEF RestOK, CountsOK
    <3> QED BY <2>1, <2>2, <3>1, <3>2, <3>3 DEF RestOK, ConsumingOK, ServerOK, consuming
  <2>5. WireOK' /\ Requests' \subseteq Requests
    BY <2>1 DEF WireOK, Requests
  <2>6. RequestsSound'
    <3>1. WireOK /\ RequestsSound
      BY TypeParts DEF Base
    <3>2. PICK N : N = {}
      OBVIOUS
    <3>3. Requests' \subseteq Requests \cup N /\ \A k \in N : Sound(k)'
      BY <2>5, <3>2
    <3>4. UNCHANGED <<made, consumer, data>>
      BY <2>1 DEF consuming
    <3> QED BY <3>1, <3>3, <3>4, RequestsKeep
  <2>7. SlotsSound' /\ ConnectionSound' /\ paused' \subseteq Opened'
    BY <2>1, <2>3 DEF Base, SlotsSound, ConnectionSound, Opened, session, consuming
  <2>8. TypeOK'
    BY <2>4, <2>5 DEF TypeOK, RestOK, WireOK, SessionOK, ProducingOK, ConsumingOK, ServerOK,
                      CountsOK
  <2> QED BY <2>6, <2>7, <2>8 DEF Base
<1> QED BY <1>1, <1>2


LEMMA BaseConnection ==
  ASSUME Base, Open \/ Disconnected \/ ProtooClosed PROVE Base'
<1>0. WireOK /\ RestOK
  BY TypeParts DEF Base
<1>1. CASE Open
  <2>1. PICK r : r = About("getRouterRtpCapabilities")
    OBVIOUS
  <2>2. r \in Request /\ Sound(r)'
    BY <2>1, AboutSound
  <2>3. /\ up' = TRUE /\ sent' = <<r>> /\ ~up /\ opens < MaxOpens /\ opens' = opens + 1
        /\ UNCHANGED <<room, closed, crashed, send, recv, connected, lost, producing,
                       progress, consuming, server, history, calls>>
    BY <1>1, <2>1 DEF Open
  <2>4. <<r>> \in Seq(Request) /\ ToSet(<<r>>) = {r}
    BY <2>2, FewSent
  <2>5. WireOK' /\ Requests' \subseteq Requests \cup {r}
    BY <1>0, <2>3, <2>4 DEF WireOK, Requests
  <2>6. RestOK'
    BY <1>0, <2>3 DEF RestOK, SessionOK, ProducingOK, ConsumingOK, ServerOK, CountsOK,
                      producing, consuming, history
  <2>7. UNCHANGED <<room, made, slot, alive, server, consumer, data, paused, Opened>>
    BY <2>3 DEF producing, consuming, Opened
  <2>8. RequestsSound'
    <3>1. PICK N : N = {r}
      OBVIOUS
    <3>2. RequestsSound
      BY DEF Base
    <3> QED BY <1>0, <2>2, <2>5, <2>7, <3>1, <3>2, RequestsKeep
  <2>9. TypeOK'
    BY <2>5, <2>6 DEF TypeOK, RestOK, WireOK, SessionOK, ProducingOK, ConsumingOK, ServerOK,
                      CountsOK
  <2> QED BY <2>3, <2>7, <2>8, <2>9 DEF Base, ConnectionSound, SlotsSound
<1>2. CASE Disconnected \/ ProtooClosed
  <2>1. /\ ConnectionLost(sent, lost) /\ TransportsClosed /\ closed' \in {closed, TRUE}
        /\ UNCHANGED <<crashed, history, calls, opens>>
    BY <1>2 DEF Disconnected, ProtooClosed, Close
  <2>2. closed' \in BOOLEAN /\ refused' \in BOOLEAN /\ UNCHANGED overlapped
    BY <1>0, <2>1 DEF RestOK, SessionOK, CountsOK, history
  <2> QED BY <1>0, <2>1, <2>2, BaseClosed DEF WireOK, Requests
<1> QED BY <1>1, <1>2

LEMMA BaseRefused ==
  ASSUME Base, Refused \/ TimedOut PROVE Base'
<1>0. WireOK /\ RestOK
  BY TypeParts DEF Base
<1>1. CASE Refused
  <2>1. /\ sent # <<>> /\ Rejects(Head(sent), Tail(sent), lost)
        /\ UNCHANGED <<overlapped, calls, opens>>
        /\ refused' \in BOOLEAN
    <3>1. refused' = (refused \/ Possible(Head(sent))) /\ refused \in BOOLEAN
      BY <1>0, <1>1 DEF Refused, RestOK, CountsOK
    <3> QED BY <1>1, <3>1 DEF Refused
  <2>2. Tail(sent) \in Seq(Request) /\ ToSet(Tail(sent)) \subseteq ToSet(sent)
    <3>1. /\ Tail(sent) \in Seq(Request) /\ Lacks(sent, 1, Tail(sent)) /\ 1 \in 1 .. Len(sent)
      BY <1>0, <2>1, HeadGone DEF WireOK
    <3> QED BY <1>0, <3>1, Left DEF WireOK
  <2>3. PICK r, s, l : r = Head(sent) /\ s = Tail(sent) /\ l = lost
    OBVIOUS
  <2>4. ToSet(s) \cup ToSet(l) \subseteq Requests /\ l \in Seq(Request)
    BY <1>0, <2>2, <2>3 DEF WireOK, Requests
  <2>5. up
    BY <2>1 DEF Base, ConnectionSound
  <2> QED BY <2>1, <2>2, <2>3, <2>4, <2>5, BaseRejected
<1>2. CASE TimedOut
  <2>1. PICK i \in DOMAIN lost : Rejects(lost[i], sent, RemoveAt(lost, i))
    BY <1>2 DEF TimedOut
  <2>2. UNCHANGED <<overlapped, refused, calls, opens>> /\ refused' \in BOOLEAN
    BY <1>0, <1>2 DEF TimedOut, history, RestOK, CountsOK
  <2>3. PICK r, s, l : r = lost[i] /\ s = sent /\ l = RemoveAt(lost, i)
    OBVIOUS
  <2>4. i \in 1 .. Len(lost)
    BY <1>0, <2>1 DEF WireOK
  <2>5. l \in Seq(Request) /\ ToSet(l) \subseteq ToSet(lost)
    <3>1. l \in Seq(Request) /\ Lacks(lost, i, l)
      BY <1>0, <2>3, <2>4, OneGone DEF WireOK
    <3> QED BY <1>0, <2>4, <3>1, Left DEF WireOK
  <2>6. s \in Seq(Request) /\ ToSet(s) \cup ToSet(l) \subseteq Requests
    BY <1>0, <2>3, <2>5 DEF WireOK, Requests
  <2>7. up \/ s = <<>>
    BY <2>3 DEF Base, ConnectionSound
  <2> QED BY <2>1, <2>2, <2>3, <2>5, <2>6, <2>7, BaseRejected
<1> QED BY <1>1, <1>2

LEMMA BaseAtFirst == ASSUME Init PROVE Base
<1>1. sent = <<>> /\ lost = <<>> /\ Requests = {}
  BY DEF Init, Requests, ToSet
<1>2. WireOK
  BY <1>1, FewSent DEF WireOK
<1>3. RestOK
  <2>1. made = <<>> /\ DOMAIN made = {} /\ made \in Seq(Medium) /\ Len(made) = 0
    BY DEF Init
  <2>2. ProducingOK
    BY <2>1 DEF Init, ProducingOK
  <2>3. ServerOK
    BY <2>1 DEF Init, ServerOK, Forgotten
  <2>4. SessionOK /\ ConsumingOK
    BY DEF Init, SessionOK, ConsumingOK
  <2>5. CountsOK
    <3>1. 0 \in 0 .. MaxCalls /\ 0 \in 0 .. MaxOpens
      OBVIOUS
    <3> QED BY <3>1 DEF Init, CountsOK
  <2> QED BY <2>2, <2>3, <2>4, <2>5 DEF RestOK
<1>4. ConnectionSound /\ RequestsSound /\ SlotsSound /\ paused \subseteq Opened
  BY <1>1 DEF Init, ConnectionSound, RequestsSound, SlotsSound
<1> QED BY <1>2, <1>3, <1>4, TypeParts DEF Base

LEMMA BaseStep == ASSUME Base, [Next]_vars PROVE Base'
<1>1. CASE UNCHANGED vars
  <2>1. UNCHANGED <<room, closed, up, send, recv, connected, crashed, sent, lost, slot,
                    capturing, changing, made, alive, muted, shownMuted, progress, audioOnly,
                    consumer, data, paused, server, overlapped, refused, calls, opens>>
    BY <1>1 DEF vars, session, wire, producing, consuming, history
  <2> QED BY <2>1 DEF Base, TypeOK, ConnectionSound, RequestsSound, Requests, Sound,
                      SlotsSound, Opened
<1>2. CASE Next
  <2>1. CASE Open \/ Disconnected \/ ProtooClosed
    BY <2>1, BaseConnection
  <2>2. ASSUME NEW m \in Medium,
               \/ Enable(m) \/ Captured(m) \/ CaptureFailed(m) \/ Disable(m)
               \/ Mute(m) \/ Unmute(m)
        PROVE  Base'
    BY <2>2, BaseQuietStep, BaseCaptured, BaseMuted
  <2>3. CASE ChangeWebcam \/ WebcamChanged
    BY <2>3, BaseQuietStep
  <2>4. ASSUME NEW c \in Consumer,
               \/ NewConsumer(c) \/ Consumed(c) \/ ConsumerClosed(c)
               \/ NewDataConsumer(c) \/ DataConsumed(c) \/ DataConsumerClosed(c)
               \/ ConsumeFailed(c)
        PROVE  Base'
    BY <2>4, BaseQuietStep, BaseConsumed
  <2>5. CASE EnableAudioOnly \/ DisableAudioOnly \/ TransportConnected \/ RestartIce
    BY <2>5, BaseAudioOnly, BaseAudioAgain, BaseAbout
  <2>6. CASE Served
    BY <2>6, BaseJoinStep, BaseJoined, BaseProduced, BaseProducerAnswer, BaseConsumerAnswer,
       BaseOtherAnswer DEF Served
  <2>7. CASE Refused \/ TimedOut
    BY <2>7, BaseRefused
  <2> QED BY <1>2, <2>1, <2>2, <2>3, <2>4, <2>5, <2>6, <2>7 DEF Next
<1> QED BY <1>1, <1>2

\* Every variable keeps its type: a Producer in a slot, or that sends, was made, and a
\* request names a Producer or a Consumer that there was.
THEOREM TypeCorrect == Spec => []TypeOK
<1>1. Base => TypeOK
  BY DEF Base
<1> QED BY <1>1, BaseAtFirst, BaseStep, PTL DEF Spec

-----------------------------------------------------------------------------
(* Consumers: the client and the server agree on which are paused.         *)

\* The server has paused Consumers that were there, and the client has paused those of
\* them that are.
ConsumersSound ==
  /\ \A c \in server.paused : consumer[c] \in {"open", "closed"}
  /\ paused = server.paused \cap Opened

LEMMA ConsumersKept ==
  ASSUME ConsumersSound, UNCHANGED <<consumer, data, paused, server.paused>>
  PROVE  ConsumersSound'
BY DEF ConsumersSound, Opened

LEMMA ConsumersStep ==
  ASSUME Base, ConsumersSound, NEW c \in Consumer,
         \/ NewConsumer(c) \/ Consumed(c) \/ ConsumerClosed(c)
         \/ NewDataConsumer(c) \/ DataConsumed(c) \/ DataConsumerClosed(c)
         \/ ConsumeFailed(c)
  PROVE  ConsumersSound'
<1>0. RestOK
  BY TypeParts DEF Base
<1> USE DEF ConsumersSound, Opened
<1>1. CASE NewConsumer(c) \/ NewDataConsumer(c)
  <2>1. /\ consumer' = [consumer EXCEPT ![c] = "consuming"] /\ consumer[c] = "none"
        /\ data' \in {data, data \cup {c}} /\ paused' = paused
        /\ server'.paused = server.paused
    BY <1>0, <1>1 DEF NewConsumer, NewDataConsumer, Offered, RestOK, ServerOK
  <2> QED BY <1>0, <2>1 DEF RestOK, ConsumingOK, ServerOK
<1>2. CASE Consumed(c) \/ DataConsumed(c)
  <2>1. /\ consumer' = [consumer EXCEPT ![c] = "open"] /\ consumer[c] = "consuming"
        /\ UNCHANGED <<data, paused, server>>
    BY <1>2 DEF Consumed, Pause, DataConsumed
  <2> QED BY <1>0, <2>1 DEF RestOK, ConsumingOK, ServerOK
<1>3. CASE ConsumerClosed(c) \/ DataConsumerClosed(c)
  <2>1. /\ consumer' = [consumer EXCEPT ![c] = IF @ = "open" THEN "closed" ELSE @]
        /\ server'.paused = server.paused \ {c} /\ paused' = paused \ {c} /\ data' = data
    BY <1>0, <1>3 DEF ConsumerClosed, DataConsumerClosed, ClosedAtServer, RestOK, ServerOK
  <2> QED BY <1>0, <2>1 DEF RestOK, ConsumingOK, ServerOK
<1>4. CASE ConsumeFailed(c)
  BY <1>4 DEF ConsumeFailed, consuming
<1> QED BY <1>1, <1>2, <1>3, <1>4

LEMMA ConsumersAnswered ==
  ASSUME Base, ConsumersSound, ConsumerPaused \/ ConsumerResumed PROVE ConsumersSound'
<1>0. RestOK
  BY TypeParts DEF Base
<1>1. PICK c : c = Head(sent).consumer
  OBVIOUS
<1>2. /\ UNCHANGED <<consumer, data>> /\ sent # <<>> /\ Head(sent).what \in OfConsumers
      /\ \/ /\ server'.paused = server.paused \cup {c}
            /\ paused' = paused \cup ({c} \cap Opened)
         \/ server'.paused = server.paused \ {c} /\ paused' = paused \ {c}
  BY <1>0, <1>1 DEF ConsumerPaused, ConsumerResumed, Done, RestOK, ServerOK, OfConsumers
<1>3. consumer[c] \in {"open", "closed"}
  BY <1>1, <1>2, HeadSound DEF Sound
<1> QED BY <1>2, <1>3 DEF ConsumersSound, Opened

LEMMA ConsumersForgotten ==
  ASSUME NEW s, NEW l, ConnectionLost(s, l), TransportsClosed PROVE ConsumersSound'
BY DEF ConnectionLost, TransportsClosed, ConsumersSound, Forgotten

LEMMA ConsumersNext == ASSUME Base, ConsumersSound, [Next]_vars PROVE ConsumersSound'
<1>0. ServerOK
  BY TypeParts DEF Base, RestOK
<1>1. CASE UNCHANGED vars
  BY <1>1, ConsumersKept DEF vars, consuming
<1>2. CASE Next
  <2>1. CASE Open
    BY <2>1, ConsumersKept DEF Open, consuming
  <2>2. CASE Disconnected \/ ProtooClosed
    BY <2>2, ConsumersForgotten DEF Disconnected, ProtooClosed, Close
  <2>3. ASSUME NEW m \in Medium,
               \/ Enable(m) \/ Captured(m) \/ CaptureFailed(m) \/ Disable(m)
               \/ Mute(m) \/ Unmute(m)
        PROVE  ConsumersSound'
    BY <2>3, ConsumersKept DEF Enable, Captured, CaptureFailed, Disable, Mute, Unmute, consuming
  <2>4. CASE ChangeWebcam \/ WebcamChanged
    BY <2>4, ConsumersKept DEF ChangeWebcam, WebcamChanged, consuming
  <2>5. ASSUME NEW c \in Consumer,
               \/ NewConsumer(c) \/ Consumed(c) \/ ConsumerClosed(c)
               \/ NewDataConsumer(c) \/ DataConsumed(c) \/ DataConsumerClosed(c)
               \/ ConsumeFailed(c)
        PROVE  ConsumersSound'
    BY <2>5, ConsumersStep
  <2>6. CASE EnableAudioOnly \/ DisableAudioOnly \/ TransportConnected \/ RestartIce
    BY <2>6, ConsumersKept
       DEF EnableAudioOnly, DisableAudioOnly, TransportConnected, RestartIce, consuming
  <2>7. CASE Served
    <3>1. CASE ConsumerPaused \/ ConsumerResumed
      BY <3>1, ConsumersAnswered
    <3>2. CASE \/ JoinStepDone \/ Joined \/ ChatDataProduced \/ BotDataProduced \/ IceRestarted
      BY <3>2, ConsumersKept
         DEF JoinStepDone, Joined, ChatDataProduced, BotDataProduced, IceRestarted, consuming
    <3>3. CASE Produced \/ ProducerClosed \/ ProducerPaused \/ ProducerResumed
      <4>1. server'.paused = server.paused /\ UNCHANGED consuming
        BY <1>0, <3>3 DEF Produced, ProducerClosed, ProducerPaused, ProducerResumed, ServerOK
      <4> QED BY <4>1, ConsumersKept DEF consuming
    <3> QED BY <2>7, <3>1, <3>2, <3>3 DEF Served
  <2>8. CASE Refused \/ TimedOut
    <3>1. PICK r, s, l : Rejects(r, s, l)
      BY <2>8 DEF Refused, TimedOut
    <3> QED BY <3>1, ConsumersKept, ConsumersForgotten DEF Rejects, Close, consuming
  <2> QED BY <1>2, <2>1, <2>2, <2>3, <2>4, <2>5, <2>6, <2>7, <2>8 DEF Next
<1> QED BY <1>1, <1>2

-----------------------------------------------------------------------------
(* The requests that empty a slot and those that fill it.                  *)

Is(r, what, m) == r.what = what /\ r.medium = m
Has(s, what, m) == \E i \in 1 .. Len(s) : Is(s[i], what, m)
Once(s, what, m) ==
  \A i, j \in 1 .. Len(s) : Is(s[i], what, m) /\ Is(s[j], what, m) => i = j

LEMMA HasElement ==
  ASSUME NEW S, NEW s \in Seq(S), NEW what, NEW m
  PROVE  Has(s, what, m) <=> \E r \in ToSet(s) : Is(r, what, m)
BY Elements DEF Has

LEMMA HasTogether ==
  ASSUME NEW S, NEW s \in Seq(S), NEW t \in Seq(S), NEW what, NEW m
  PROVE  /\ Has(s \o t, what, m) <=> Has(s, what, m) \/ Has(t, what, m)
         /\ Once(s, what, m) /\ Once(t, what, m) /\ ~(Has(s, what, m) /\ Has(t, what, m))
              => Once(s \o t, what, m)
<1>1. s \o t \in Seq(S) /\ ToSet(s \o t) = ToSet(s) \cup ToSet(t)
  BY Together
<1>2. Has(s \o t, what, m) <=> Has(s, what, m) \/ Has(t, what, m)
  BY <1>1, HasElement
<1>3. ASSUME Once(s, what, m), Once(t, what, m), ~(Has(s, what, m) /\ Has(t, what, m)),
             NEW i \in 1 .. Len(s \o t), NEW j \in 1 .. Len(s \o t),
             Is((s \o t)[i], what, m), Is((s \o t)[j], what, m)
      PROVE  i = j
  <2> DEFINE r == s \o t
  <2>1. /\ Len(r) = Len(s) + Len(t) /\ Len(s) \in Nat /\ Len(t) \in Nat
        /\ \A k \in 1 .. Len(s) : r[k] = s[k]
        /\ \A k \in Len(s) + 1 .. Len(s) + Len(t) :
             r[k] = t[k - Len(s)] /\ k - Len(s) \in 1 .. Len(t)
    BY Together
  <2>2. i \in 1 .. Len(r) /\ j \in 1 .. Len(r) /\ Is(r[i], what, m) /\ Is(r[j], what, m)
    BY <1>3
  <2> HIDE DEF r
  <2>3. \A k \in 1 .. Len(r) : Is(r[k], what, m) =>
          \/ k \in 1 .. Len(s) /\ Is(s[k], what, m) /\ Has(s, what, m)
          \/ k - Len(s) \in 1 .. Len(t) /\ Is(t[k - Len(s)], what, m) /\ Has(t, what, m)
    <3>1. SUFFICES ASSUME NEW k \in 1 .. Len(r), Is(r[k], what, m)
                   PROVE  \/ k \in 1 .. Len(s) /\ Is(s[k], what, m) /\ Has(s, what, m)
                          \/ /\ k - Len(s) \in 1 .. Len(t) /\ Is(t[k - Len(s)], what, m)
                             /\ Has(t, what, m)
      OBVIOUS
    <3>2. k \in 1 .. Len(s) \/ k \in Len(s) + 1 .. Len(s) + Len(t)
      BY <2>1
    <3> QED BY <2>1, <3>1, <3>2 DEF Has
  <2>4. CASE Has(s, what, m)
    BY <1>3, <2>2, <2>3, <2>4 DEF Once
  <2>5. CASE ~Has(s, what, m)
    <3>1. /\ i - Len(s) \in 1 .. Len(t) /\ Is(t[i - Len(s)], what, m)
          /\ j - Len(s) \in 1 .. Len(t) /\ Is(t[j - Len(s)], what, m)
      BY <2>2, <2>3, <2>5
    <3>2. i - Len(s) = j - Len(s)
      BY <1>3, <3>1 DEF Once
    <3> QED BY <2>1, <2>2, <3>2
  <2> QED BY <2>4, <2>5
<1>4. ASSUME Once(s, what, m), Once(t, what, m), ~(Has(s, what, m) /\ Has(t, what, m))
      PROVE  Once(s \o t, what, m)
  BY <1>3, <1>4 DEF Once
<1> QED BY <1>2, <1>4

LEMMA HasLeft ==
  ASSUME NEW S, NEW s \in Seq(S), NEW t \in Seq(S), NEW k \in 1 .. Len(s), Lacks(s, k, t),
         NEW what, NEW m
  PROVE  /\ Has(t, what, m) => Has(s, what, m)
         /\ Once(s, what, m) => Once(t, what, m)
         /\ Once(s, what, m) /\ Is(s[k], what, m) => ~Has(t, what, m)
<1> DEFINE at(i) == IF i < k THEN i ELSE i + 1
<1>1. \A i \in 1 .. Len(t) : at(i) \in 1 .. Len(s) /\ at(i) # k /\ t[i] = s[at(i)]
  BY DEF Lacks
<1>2. \A i, j \in 1 .. Len(t) : at(i) = at(j) => i = j
  OBVIOUS
<1> HIDE DEF at
<1> QED BY <1>1, <1>2 DEF Has, Once

\* Of each medium one produce waits at most, and one closeProducer of all connections.
Unique(s, l, m) ==
  /\ Once(s, "produce", m) /\ Once(s, "closeProducer", m) /\ Once(l, "closeProducer", m)
  /\ ~(Has(s, "closeProducer", m) /\ Has(l, "closeProducer", m))

\* From s and l to t and k, no such request comes.
Less(s, l, t, k) ==
  /\ \A m \in Medium :
       /\ Has(t, "produce", m) => Has(s, "produce", m)
       /\ Unique(s, l, m) => Unique(t, k, m)
  /\ \A r \in ToSet(t) \cup ToSet(k) :
       r.what = "closeProducer" => r \in ToSet(s) \cup ToSet(l)

Plain(q) == \A r \in ToSet(q) : r.what \notin {"produce", "closeProducer"}

LEMMA PlainHas ==
  ASSUME NEW q \in Seq(Request), Plain(q), NEW m, NEW what \in {"produce", "closeProducer"}
  PROVE  ~Has(q, what, m) /\ Once(q, what, m)
<1>1. ~Has(q, what, m)
  BY HasElement DEF Plain, Is
<1> QED BY <1>1 DEF Has, Once

LEMMA LessAfter ==
  ASSUME NEW s \in Seq(Request), NEW l \in Seq(Request), NEW q \in Seq(Request), Plain(q)
  PROVE  Less(s, l, s \o q, l) /\ Less(s, l, s, l \o q)
<1>1. /\ \A r \in ToSet(s \o q) : r \in ToSet(s) \/ r \in ToSet(q)
      /\ \A r \in ToSet(l \o q) : r \in ToSet(l) \/ r \in ToSet(q)
  BY Together
<1>2. ASSUME NEW m \in Medium
      PROVE  /\ Has(s \o q, "produce", m) => Has(s, "produce", m)
             /\ Unique(s, l, m) => Unique(s \o q, l, m) /\ Unique(s, l \o q, m)
  <2>1. ASSUME NEW what \in {"produce", "closeProducer"}
        PROVE  /\ ~Has(q, what, m) /\ Once(q, what, m)
               /\ (Has(s \o q, what, m) <=> Has(s, what, m))
               /\ (Has(l \o q, what, m) <=> Has(l, what, m))
               /\ (Once(s, what, m) => Once(s \o q, what, m))
               /\ (Once(l, what, m) => Once(l \o q, what, m))
    BY PlainHas, HasTogether
  <2> QED BY <2>1 DEF Unique
<1> QED BY <1>1, <1>2 DEF Less, Plain

LEMMA LessLeft ==
  ASSUME NEW s \in Seq(Request), NEW l \in Seq(Request), NEW t \in Seq(Request)
  PROVE  /\ \A k \in 1 .. Len(s) : Lacks(s, k, t) => Less(s, l, t, l)
         /\ \A k \in 1 .. Len(l) : Lacks(l, k, t) => Less(s, l, s, t)
<1>1. ASSUME NEW k \in 1 .. Len(s), Lacks(s, k, t) PROVE Less(s, l, t, l)
  BY <1>1, HasLeft, Left DEF Less, Unique
<1>2. ASSUME NEW k \in 1 .. Len(l), Lacks(l, k, t) PROVE Less(s, l, s, t)
  BY <1>2, HasLeft, Left DEF Less, Unique
<1> QED BY <1>1, <1>2

LEMMA LessLost ==
  ASSUME NEW s \in Seq(Request), NEW l \in Seq(Request)
  PROVE  Less(s, l, <<>>, l \o s)
<1>1. <<>> \in Seq(Request) /\ ToSet(<<>>) = {} /\ ToSet(l \o s) = ToSet(l) \cup ToSet(s)
  BY FewSent, Together
<1>2. \A m, what : ~Has(<<>>, what, m) /\ Once(<<>>, what, m)
  BY DEF Has, Once
<1>3. \A m \in Medium : Unique(s, l, m) => Unique(<<>>, l \o s, m)
  BY <1>2, HasTogether DEF Unique
<1> QED BY <1>1, <1>2, <1>3 DEF Less

LEMMA LessThen ==
  ASSUME NEW s, NEW l, NEW t, NEW k, NEW u, NEW v, Less(s, l, t, k), Less(t, k, u, v)
  PROVE  Less(s, l, u, v)
BY DEF Less

\* The wire, so that no such request comes.
WireLess == Less(sent, lost, sent', lost')

LEMMA WireKept ==
  ASSUME UNCHANGED <<sent, lost>> PROVE WireLess
BY DEF WireLess, Less

LEMMA WireSends ==
  ASSUME WireOK, NEW q \in Seq(Request), Plain(q), Sends(q) PROVE WireLess
BY LessAfter DEF WireOK, WireLess, Sends

LEMMA WireAnswers ==
  ASSUME WireOK, NEW q \in Seq(Request), Plain(q), sent # <<>>, Then(q) PROVE WireLess
<1>1. Tail(sent) \in Seq(Request) /\ Lacks(sent, 1, Tail(sent)) /\ 1 \in 1 .. Len(sent)
  BY HeadGone DEF WireOK
<1>2. Less(sent, lost, Tail(sent), lost)
  BY <1>1, LessLeft DEF WireOK
<1>3. Less(Tail(sent), lost, Tail(sent) \o q, lost)
  BY <1>1, LessAfter DEF WireOK
<1>4. sent' = Tail(sent) \o q /\ lost' = lost
  BY DEF Then
<1> QED BY <1>2, <1>3, <1>4, LessThen DEF WireLess

\* The request r is gone, s and l are left.
Gone(r, s, l) ==
  /\ r \in Requests /\ Less(sent, lost, s, l)
  /\ s \in Seq(Request) /\ l \in Seq(Request)
  /\ \A m \in Medium : Unique(sent, lost, m) /\ Is(r, "closeProducer", m) =>
       ~Has(s, "closeProducer", m) /\ ~Has(l, "closeProducer", m)

LEMMA GoneFirst ==
  ASSUME WireOK, sent # <<>> PROVE Gone(Head(sent), Tail(sent), lost)
<1>1. /\ Tail(sent) \in Seq(Request) /\ Lacks(sent, 1, Tail(sent)) /\ 1 \in 1 .. Len(sent)
      /\ Head(sent) = sent[1]
  BY HeadGone DEF WireOK
<1>2. Less(sent, lost, Tail(sent), lost)
  BY <1>1, LessLeft DEF WireOK
<1>3. Head(sent) \in Requests
  <2>1. sent[1] \in ToSet(sent)
    BY <1>1, Left DEF WireOK
  <2> QED BY <1>1, <2>1 DEF Requests
<1>4. ASSUME NEW m \in Medium, Unique(sent, lost, m), Is(sent[1], "closeProducer", m)
      PROVE  ~Has(Tail(sent), "closeProducer", m) /\ ~Has(lost, "closeProducer", m)
  <2>1. Has(sent, "closeProducer", m)
    BY <1>1, <1>4 DEF Has
  <2>2. ~Has(Tail(sent), "closeProducer", m)
    BY <1>1, <1>4, HasLeft DEF WireOK, Unique
  <2> QED BY <1>4, <2>1, <2>2 DEF Unique
<1> QED BY <1>1, <1>2, <1>3, <1>4 DEF Gone, WireOK

LEMMA GoneLost ==
  ASSUME WireOK, NEW i \in DOMAIN lost PROVE Gone(lost[i], sent, RemoveAt(lost, i))
<1> DEFINE l == RemoveAt(lost, i)
<1>0. i \in 1 .. Len(lost)
  BY DEF WireOK
<1>1. l \in Seq(Request) /\ Lacks(lost, i, l)
  BY <1>0, OneGone DEF WireOK
<1> HIDE DEF l
<1>2. Less(sent, lost, sent, l)
  BY <1>0, <1>1, LessLeft DEF WireOK
<1>3. lost[i] \in Requests
  BY <1>0, <1>1, Left DEF WireOK, Requests
<1>4. ASSUME NEW m \in Medium, Unique(sent, lost, m), Is(lost[i], "closeProducer", m)
      PROVE  ~Has(sent, "closeProducer", m) /\ ~Has(l, "closeProducer", m)
  <2>1. Has(lost, "closeProducer", m)
    BY <1>0, <1>4 DEF Has
  <2>2. ~Has(l, "closeProducer", m)
    BY <1>0, <1>1, <1>4, HasLeft DEF WireOK, Unique
  <2> QED BY <1>4, <2>1, <2>2 DEF Unique
<1>5. Gone(lost[i], sent, l)
  BY <1>1, <1>2, <1>3, <1>4 DEF Gone, WireOK
<1> QED BY <1>5 DEF l

-----------------------------------------------------------------------------
(* One call for a medium at a time: the Producer that sends is in the slot. *)

\* For one medium: while a Producer is made, the slot is empty; one that is being closed
\* is in it; and none sends that is not.
AloneAt(m) ==
  /\ capturing[m] > 0 => capturing[m] = 1 /\ slot[m] = 0 /\ ~Has(sent, "produce", m)
  /\ Has(sent, "produce", m) => slot[m] = 0
  /\ Unique(sent, lost, m)
  /\ \A r \in Requests :
       Is(r, "closeProducer", m) => r.id = slot[m] /\ slot[m] \notin alive
  /\ \A p \in alive : made[p] = m => slot[m] = p

Alone == ~overlapped => \A m \in Medium : AloneAt(m)

\* A step that brings no such request and leaves the slots.
LEMMA AloneCalm ==
  ASSUME Base, Base', Alone, WireLess, overlapped => overlapped', UNCHANGED slot,
         alive' \subseteq alive, \A p \in alive : made'[p] = made[p],
         ~overlapped' => \A m \in Medium : capturing'[m] > 0 =>
           \/ capturing[m] > 0 /\ capturing'[m] <= capturing[m]
           \/ capturing'[m] = 1 /\ slot[m] = 0 /\ ~Has(sent, "produce", m)
  PROVE  Alone'
<1> SUFFICES ASSUME ~overlapped', NEW m \in Medium PROVE AloneAt(m)'
  BY DEF Alone
<1>1. AloneAt(m)
  BY DEF Alone
<1>2. capturing \in [Medium -> Nat] /\ capturing' \in [Medium -> Nat]
  BY TypeParts DEF Base, TypeOK, RestOK, ProducingOK
<1>3. Has(sent', "produce", m) => Has(sent, "produce", m)
  BY DEF WireLess, Less
<1>4. (capturing[m] > 0 => capturing[m] = 1 /\ slot[m] = 0 /\ ~Has(sent, "produce", m))'
  <2>1. SUFFICES ASSUME capturing'[m] > 0
                 PROVE  capturing'[m] = 1 /\ slot[m] = 0 /\ ~Has(sent', "produce", m)
    BY DEF Has
  <2>2. slot[m] = 0 /\ ~Has(sent, "produce", m)
    BY <1>1, <2>1 DEF AloneAt
  <2>3. capturing'[m] = 1
    BY <1>1, <1>2, <2>1 DEF AloneAt
  <2> QED BY <1>3, <2>2, <2>3
<1>5. Unique(sent', lost', m)
  BY <1>1 DEF WireLess, Less, AloneAt
<1>6. \A r \in Requests' : Is(r, "closeProducer", m) => r \in Requests
  BY DEF WireLess, Less, Requests, Is
<1>7. (Has(sent, "produce", m) => slot[m] = 0)'
  BY <1>1, <1>3 DEF AloneAt, Has
<1>8. (\A r \in Requests : Is(r, "closeProducer", m) => r.id = slot[m] /\ slot[m] \notin alive)'
  BY <1>1, <1>6 DEF AloneAt, Is
<1>9. (\A p \in alive : made[p] = m => slot[m] = p)'
  BY <1>1 DEF AloneAt
<1>10. Unique(sent, lost, m)'
  BY <1>5 DEF Unique, Has, Once
<1> QED BY <1>4, <1>7, <1>8, <1>9, <1>10 DEF AloneAt

\* As it is, with fewer calls in getUserMedia() or those that the empty slots allow.
LEMMA AloneCaptures ==
  ASSUME Base, NEW ms \in SUBSET Medium, Captures(ms)
  PROVE  /\ overlapped => overlapped'
         /\ ~overlapped' => \A m \in Medium : capturing'[m] > 0 =>
              \/ capturing[m] > 0 /\ capturing'[m] <= capturing[m]
              \/ capturing'[m] = 1 /\ slot[m] = 0 /\ ~Has(sent, "produce", m)
<1>1. RestOK /\ WireOK
  BY TypeParts DEF Base
<1> DEFINE empty == {m \in ms : slot[m] = 0}
<1>2. /\ capturing' = [m \in Medium |-> capturing[m] + IF m \in empty THEN 1 ELSE 0]
      /\ overlapped' = (overlapped \/ \E m \in empty : Enabling(m))
  BY DEF Captures
<1>3. ASSUME ~overlapped', NEW m \in Medium, capturing'[m] > 0
      PROVE  \/ capturing[m] > 0 /\ capturing'[m] <= capturing[m]
             \/ capturing'[m] = 1 /\ slot[m] = 0 /\ ~Has(sent, "produce", m)
  <2>1. capturing[m] \in Nat
    BY <1>1 DEF RestOK, ProducingOK
  <2>2. CASE m \in empty
    <3>1. ~Enabling(m) /\ slot[m] = 0
      BY <1>2, <1>3, <2>2
    <3>2. ~(capturing[m] > 0) /\ ~Has(sent, "produce", m)
      BY <1>1, <3>1 DEF Enabling, Has, Is, WireOK
    <3> QED BY <1>2, <2>1, <2>2, <3>1, <3>2
  <2>3. CASE m \notin empty
    BY <1>2, <1>3, <2>1, <2>3
  <2> QED BY <2>2, <2>3
<1> QED BY <1>2, <1>3

\* The slot of m is emptied by an answer.
LEMMA AloneEmptied ==
  ASSUME Base, Base', Alone, NEW m \in Medium, NEW r, Is(r, "closeProducer", m),
         Gone(r, sent', lost'), slot'[m] = 0, \A k \in Medium \ {m} : slot'[k] = slot[k],
         UNCHANGED <<alive, made, capturing, overlapped>>
  PROVE  Alone'
<1> SUFFICES ASSUME ~overlapped', NEW k \in Medium PROVE AloneAt(k)'
  BY DEF Alone
<1>1. AloneAt(k) /\ AloneAt(m)
  BY DEF Alone
<1>3. Has(sent', "produce", k) => Has(sent, "produce", k)
  BY DEF Gone, Less
<1>4. (capturing[k] > 0 => capturing[k] = 1 /\ slot[k] = 0 /\ ~Has(sent, "produce", k))'
  BY <1>1, <1>3 DEF AloneAt, Has
<1>5. Unique(sent', lost', k)
  BY <1>1 DEF Gone, Less, AloneAt
<1>6. \A q \in Requests' : Is(q, "closeProducer", k) => q \in Requests /\ k # m
  <2>1. ASSUME NEW q \in Requests', Is(q, "closeProducer", k) PROVE q \in Requests
    BY <2>1 DEF Gone, Less, Requests, Is
  <2>2. ~Has(sent', "closeProducer", m) /\ ~Has(lost', "closeProducer", m)
    BY <1>1 DEF Gone, AloneAt
  <2>3. ASSUME NEW q \in Requests', Is(q, "closeProducer", k) PROVE k # m
    <3>1. sent' \in Seq(Request) /\ lost' \in Seq(Request)
      BY DEF Gone
    <3>2. q \in ToSet(sent') \/ q \in ToSet(lost')
      BY DEF Requests
    <3> QED BY <2>2, <2>3, <3>1, <3>2, HasElement
  <2> QED BY <2>1, <2>3
<1>7. (Has(sent, "produce", k) => slot[k] = 0)'
  BY <1>1, <1>3 DEF AloneAt, Has
<1>8. (\A q \in Requests : Is(q, "closeProducer", k) => q.id = slot[k] /\ slot[k] \notin alive)'
  BY <1>1, <1>6 DEF AloneAt, Is
<1>9. (\A p \in alive : made[p] = k => slot[k] = p)'
  <2>1. r \in Requests
    BY DEF Gone
  <2> QED BY <1>1, <2>1 DEF AloneAt
<1>10. Unique(sent, lost, k)'
  BY <1>5 DEF Unique, Has, Once
<1> QED BY <1>4, <1>7, <1>8, <1>9, <1>10 DEF AloneAt

\* The transports are closed.
LEMMA AloneClosed ==
  ASSUME Base, Base', Alone, NEW s, NEW l, s \in Seq(Request), l \in Seq(Request),
         Less(sent, lost, s, l), ConnectionLost(s, l), TransportsClosed, UNCHANGED overlapped
  PROVE  Alone'
<1>1. sent' = <<>> /\ lost' = l \o s /\ alive' = {} /\ UNCHANGED capturing
  BY DEF ConnectionLost, TransportsClosed
<1>2. WireLess
  BY <1>1, LessLost, LessThen DEF WireLess
<1> SUFFICES ASSUME ~overlapped', NEW m \in Medium PROVE AloneAt(m)'
  BY DEF Alone
<1>3. AloneAt(m)
  BY DEF Alone
<1>4. ~Has(sent, "produce", m)'
  BY <1>1 DEF Has
<1>5. slot'[m] = IF \E p \in alive : made[p] = m THEN 0 ELSE slot[m]
  BY DEF TransportsClosed
<1>6. Unique(sent, lost, m)'
  <2>1. Unique(sent', lost', m)
    BY <1>2, <1>3 DEF WireLess, Less, AloneAt
  <2> QED BY <2>1 DEF Unique, Has, Once
<1>7. (\A r \in Requests : Is(r, "closeProducer", m) => r.id = slot[m] /\ slot[m] \notin alive)'
  <2>1. \A r \in Requests' : Is(r, "closeProducer", m) => r \in Requests
    BY <1>2 DEF WireLess, Less, Requests, Is
  <2> QED BY <1>1, <1>3, <1>5, <2>1 DEF AloneAt, Is
<1>8. (capturing[m] > 0 => capturing[m] = 1 /\ slot[m] = 0 /\ ~Has(sent, "produce", m))'
  BY <1>1, <1>3, <1>4, <1>5 DEF AloneAt
<1> QED BY <1>1, <1>4, <1>6, <1>7, <1>8 DEF AloneAt

LEMMA AloneRejected ==
  ASSUME Base, Base', Alone, NEW r, NEW s, NEW l, Gone(r, s, l), Rejects(r, s, l),
         UNCHANGED overlapped
  PROVE  Alone'
<1>1. CASE r.what \in ToSet(Joining) /\ ~closed
  BY <1>1, AloneClosed DEF Rejects, Close, Gone
<1>2. CASE ~(r.what \in ToSet(Joining) /\ ~closed)
  <2>1. sent' = s /\ lost' = l /\ UNCHANGED <<capturing, made, alive>>
    BY <1>2 DEF Rejects
  <2>2. slot \in [Medium -> Producer \cup {0}] /\ slot' \in [Medium -> Producer \cup {0}]
    BY DEF Base, TypeOK
  <2>3. WireLess
    BY <2>1 DEF Gone, WireLess
  <2>4. r \in Request
    <3>1. r \in Requests /\ WireOK
      BY TypeParts DEF Gone, Base
    <3> QED BY <3>1, Elements DEF Requests, WireOK
  <2>5. CASE r.what = "closeProducer"
    <3>1. r.medium \in Medium /\ "medium" \in DOMAIN r
      <4>1. r.medium \in Medium
        BY <2>4, <2>5, RequestFields DEF OfProducer
      <4>2. r \in [what: OfProducer, medium: Medium, id: Producer]
        BY <2>4, <2>5 DEF OfProducer, Request, Joining, ToSet
      <4> QED BY <4>1, <4>2
    <3>2. slot' = [k \in Medium |-> IF k = r.medium THEN 0 ELSE slot[k]]
      BY <1>2, <2>5, <3>1 DEF Rejects
    <3>3. PICK m \in Medium : m = r.medium
      BY <3>1
    <3>4. Is(r, "closeProducer", m) /\ slot'[m] = 0
          /\ \A k \in Medium \ {m} : slot'[k] = slot[k]
      BY <2>5, <3>2, <3>3 DEF Is
    <3>5. Gone(r, sent', lost')
      BY <2>1
    <3> QED BY <2>1, <3>4, <3>5, AloneEmptied
  <2>6. CASE r.what # "closeProducer"
    <3>1. slot' = [m \in Medium |-> slot[m]]
      BY <1>2, <2>6 DEF Rejects
    <3>2. slot' = slot
      BY <2>2, <3>1
    <3>3. \A m \in Medium : capturing[m] <= capturing[m]
      BY TypeParts DEF Base, RestOK, ProducingOK
    <3> QED BY <2>1, <2>3, <3>2, <3>3, AloneCalm
  <2> QED BY <2>5, <2>6
<1> QED BY <1>1, <1>2

\* Steps that leave the media as they are.
LEMMA AloneStill ==
  ASSUME Base, Base', Alone, WireLess, UNCHANGED <<overlapped, slot, alive, made, capturing>>
  PROVE  Alone'
<1>1. \A m \in Medium : capturing[m] <= capturing[m]
  BY TypeParts DEF Base, RestOK, ProducingOK
<1> QED BY <1>1, AloneCalm

LEMMA AnswersLess ==
  ASSUME Base, NEW q \in Seq(Request), Plain(q), sent # <<>>, Then(q) PROVE WireLess
BY WireAnswers, TypeParts DEF Base

LEMMA AboutPlain ==
  /\ Plain(<<>>)
  /\ \A r \in Request : r.what \notin {"produce", "closeProducer"} => Plain(<<r>>)
  /\ \A r \in Request, k \in Request :
       {r.what, k.what} \cap {"produce", "closeProducer"} = {} => Plain(<<r, k>>)
<1>1. Plain(<<>>)
  BY FewSent DEF Plain
<1>2. ASSUME NEW r \in Request, r.what \notin {"produce", "closeProducer"} PROVE Plain(<<r>>)
  BY <1>2, FewSent DEF Plain
<1>3. ASSUME NEW r \in Request, NEW k \in Request,
             {r.what, k.what} \cap {"produce", "closeProducer"} = {}
      PROVE  Plain(<<r, k>>)
  <2>1. ToSet(<<r, k>>) = {r, k}
    BY FewSent
  <2> QED BY <1>3, <2>1 DEF Plain
<1> QED BY <1>1, <1>2, <1>3

\* What is sent about the Consumers of cs.
LEMMA ConsumersPlain ==
  ASSUME NEW what \in OfConsumers, NEW cs \in SUBSET Consumer, NEW q,
         q = SetToSeq({OfConsumer(what, c) : c \in cs})
  PROVE  /\ q \in Seq(Request) /\ Plain(q)
         /\ \A r \in ToSet(q) : r.what = what /\ what \notin OfProducer
<1>1. q \in Seq(Request) /\ ToSet(q) \subseteq {OfConsumer(what, c) : c \in cs}
  BY ConsumersListed DEF OfConsumers
<1>2. \A r \in ToSet(q) : r.what = what
  BY <1>1 DEF OfConsumer
<1> QED BY <1>1, <1>2 DEF Plain, OfConsumers, OfProducer

\* A step that keeps what the server has, or has it answer, and sends nothing about a
\* Producer but pauseProducer and resumeProducer.
LEMMA PlainSends ==
  ASSUME Base,
         \/ \E m \in Medium : Mute(m) \/ Unmute(m)
         \/ \E c \in Consumer : Consumed(c)
         \/ DisableAudioOnly \/ TransportConnected \/ RestartIce
  PROVE  WireLess
<1>0. WireOK /\ RestOK
  BY TypeParts DEF Base
<1>1. ASSUME NEW m \in Medium, Mute(m) \/ Unmute(m) PROVE WireLess
  <2>1. PICK what \in {"pauseProducer", "resumeProducer"} :
          Sends(<<OfMedium(what, m, slot[m])>>) /\ slot[m] # 0
    BY <1>1 DEF Mute, Unmute
  <2>2. PICK r : r = OfMedium(what, m, slot[m])
    OBVIOUS
  <2>3. r \in Request /\ r.what = what
    BY <2>1, <2>2, SlotRequest DEF OfProducer, OfMedium
  <2>4. <<r>> \in Seq(Request) /\ Plain(<<r>>)
    BY <2>3, FewSent, AboutPlain
  <2> QED BY <1>0, <2>1, <2>2, <2>4, WireSends
<1>2. ASSUME NEW c \in Consumer, Consumed(c) PROVE WireLess
  <2>1. PICK cs : cs = (IF audioOnly THEN {c} ELSE {}) \ paused
    OBVIOUS
  <2>2. PICK q : q = SetToSeq({OfConsumer("pauseConsumer", d) : d \in cs})
    OBVIOUS
  <2>3. cs \in SUBSET Consumer /\ "pauseConsumer" \in OfConsumers
    BY <2>1 DEF OfConsumers
  <2>4. q \in Seq(Request) /\ Plain(q)
    BY <2>2, <2>3, ConsumersPlain
  <2>5. Sends(q)
    BY <1>2, <2>1, <2>2 DEF Consumed, Pause
  <2> QED BY <1>0, <2>4, <2>5, WireSends
<1>3. CASE DisableAudioOnly
  <2>1. PICK q : q = SetToSeq({OfConsumer("resumeConsumer", c) : c \in paused})
    OBVIOUS
  <2>2. paused \in SUBSET Consumer /\ "resumeConsumer" \in OfConsumers
    BY <1>0 DEF OfConsumers, RestOK, ConsumingOK
  <2>3. q \in Seq(Request) /\ Plain(q)
    BY <2>1, <2>2, ConsumersPlain
  <2>4. Sends(q)
    BY <1>3, <2>1 DEF DisableAudioOnly
  <2> QED BY <1>0, <2>3, <2>4, WireSends
<1>4. CASE TransportConnected
  <2>1. PICK a, b : a = About("produceChat") /\ b = About("produceBot")
    OBVIOUS
  <2>2. a \in Request /\ b \in Request /\ a.what = "produceChat" /\ b.what = "produceBot"
    BY <2>1, Made
  <2>3. <<a, b>> \in Seq(Request) /\ Plain(<<a, b>>)
    BY <2>2, FewSent, AboutPlain
  <2> QED BY <1>0, <1>4, <2>1, <2>3, WireSends DEF TransportConnected
<1>5. CASE RestartIce
  <2>1. PICK a : a = About(IF send THEN "restartIceSend" ELSE "restartIceRecv")
    OBVIOUS
  <2>2. a \in Request /\ a.what \in {"restartIceSend", "restartIceRecv"}
    BY <2>1, Made
  <2>3. <<a>> \in Seq(Request) /\ Plain(<<a>>)
    BY <2>2, FewSent, AboutPlain
  <2> QED BY <1>0, <1>5, <2>1, <2>3, WireSends DEF RestartIce
<1> QED BY <1>1, <1>2, <1>3, <1>4, <1>5

LEMMA PlainAnswers ==
  ASSUME Base, Served
  PROVE  /\ WireLess /\ sent # <<>>
         /\ \E q \in Seq(Request) : Plain(q) /\ Then(q) /\ \A r \in ToSet(q) : r.what \notin OfProducer
<1>1. \/ \E i \in 1 .. 3 : Then(<<About(Joining[i + 1])>>)
      \/ Then(<<>>) \/ Then(<<About("restartIceRecv")>>)
  BY DEF Served, JoinStepDone, Joined, Produced, ProducerClosed, ProducerPaused,
         ProducerResumed, ConsumerPaused, ConsumerResumed, ChatDataProduced,
         BotDataProduced, IceRestarted
<1>2. sent # <<>>
  BY DEF Served, JoinStepDone, Joined, Produced, ProducerClosed, ProducerPaused,
         ProducerResumed, ConsumerPaused, ConsumerResumed, ChatDataProduced,
         BotDataProduced, IceRestarted, Done
<1>3. \/ Then(<<>>)
      \/ \E what \in {"createSendTransport", "createRecvTransport", "join", "restartIceRecv"} :
           Then(<<About(what)>>)
  <2>1. \A i \in 1 .. 3 :
          Joining[i + 1] \in {"createSendTransport", "createRecvTransport", "join"}
    BY DEF Joining
  <2> QED BY <1>1, <2>1
<1>4. \E q \in Seq(Request) : Plain(q) /\ Then(q) /\ \A r \in ToSet(q) : r.what \notin OfProducer
  <2>1. CASE Then(<<>>)
    BY <2>1, FewSent, AboutPlain
  <2>2. ASSUME NEW what \in {"createSendTransport", "createRecvTransport", "join",
                             "restartIceRecv"},
               Then(<<About(what)>>)
        PROVE  \E q \in Seq(Request) :
                 Plain(q) /\ Then(q) /\ \A r \in ToSet(q) : r.what \notin OfProducer
    <3>1. PICK a : a = About(what)
      OBVIOUS
    <3>2. a \in Request /\ a.what = what
      BY <3>1, Made
    <3>3. <<a>> \in Seq(Request) /\ Plain(<<a>>) /\ ToSet(<<a>>) = {a}
      BY <3>2, FewSent, AboutPlain
    <3> QED BY <2>2, <3>1, <3>2, <3>3 DEF OfProducer
  <2> QED BY <1>3, <2>1, <2>2
<1> QED BY <1>2, <1>4, AnswersLess

LEMMA AloneKeep ==
  ASSUME Base, Base', Alone,
         \/ UNCHANGED vars
         \/ Open
         \/ \E m \in Medium : CaptureFailed(m) \/ Mute(m) \/ Unmute(m)
         \/ ChangeWebcam \/ WebcamChanged
         \/ \E c \in Consumer :
              \/ NewConsumer(c) \/ Consumed(c) \/ ConsumerClosed(c)
              \/ NewDataConsumer(c) \/ DataConsumed(c) \/ DataConsumerClosed(c)
              \/ ConsumeFailed(c)
         \/ TransportConnected \/ RestartIce
         \/ JoinStepDone \/ ProducerPaused \/ ProducerResumed \/ ConsumerPaused
         \/ ConsumerResumed \/ ChatDataProduced \/ BotDataProduced \/ IceRestarted
  PROVE  Alone'
<1>0. WireOK /\ RestOK
  BY TypeParts DEF Base
<1>1. CASE UNCHANGED vars
  BY <1>1, WireKept, AloneStill DEF vars, wire, producing, history
<1>2. CASE Open
  <2>1. PICK r : r = About("getRouterRtpCapabilities")
    OBVIOUS
  <2>2. r \in Request /\ r.what = "getRouterRtpCapabilities"
    BY <2>1, Made
  <2>3. <<r>> \in Seq(Request) /\ Plain(<<r>>)
    BY <2>2, FewSent, AboutPlain
  <2>4. sent = <<>> /\ sent' = <<r>> /\ lost' = lost
    BY <1>2, <2>1 DEF Open, Base, ConnectionSound
  <2>5. sent' = sent \o <<r>>
    BY <2>2, <2>3, <2>4
  <2>6. WireLess
    BY <1>0, <2>3, <2>4, <2>5, LessAfter DEF WireOK, WireLess
  <2> QED BY <1>2, <2>6, AloneStill DEF Open, producing, history
<1>3. ASSUME NEW m \in Medium, CaptureFailed(m) PROVE Alone'
  <2>1. capturing' = [capturing EXCEPT ![m] = @ - 1] /\ capturing \in [Medium -> Nat]
    BY <1>0, <1>3 DEF CaptureFailed, RestOK, ProducingOK
  <2>2. \A k \in Medium : capturing'[k] > 0 => capturing[k] > 0 /\ capturing'[k] <= capturing[k]
    BY <2>1
  <2>3. WireLess
    BY <1>3, WireKept DEF CaptureFailed, wire
  <2> QED BY <1>3, <2>2, <2>3, AloneCalm DEF CaptureFailed, history
<1>4. ASSUME NEW m \in Medium, Mute(m) \/ Unmute(m) PROVE Alone'
  <2>1. WireLess
    BY <1>4, PlainSends
  <2> QED BY <1>4, <2>1, AloneStill DEF Mute, Unmute, history
<1>5. CASE ChangeWebcam \/ WebcamChanged
  <2>1. WireLess
    BY <1>5, WireKept DEF ChangeWebcam, WebcamChanged, wire
  <2> QED BY <1>5, <2>1, AloneStill DEF ChangeWebcam, WebcamChanged, history
<1>6. ASSUME NEW c \in Consumer,
             \/ NewConsumer(c) \/ ConsumerClosed(c)
             \/ NewDataConsumer(c) \/ DataConsumed(c) \/ DataConsumerClosed(c)
             \/ ConsumeFailed(c)
      PROVE  Alone'
  <2>1. UNCHANGED <<sent, lost, overlapped, slot, alive, made, capturing>>
    BY <1>6 DEF NewConsumer, NewDataConsumer, Offered, DataConsumed, ConsumerClosed,
                DataConsumerClosed, ClosedAtServer, ConsumeFailed, wire, producing, history
  <2>2. WireLess
    BY <2>1, WireKept
  <2> QED BY <2>1, <2>2, AloneStill
<1>7. ASSUME NEW c \in Consumer, Consumed(c) PROVE Alone'
  <2>1. WireLess
    BY <1>7, PlainSends
  <2> QED BY <1>7, <2>1, AloneStill DEF Consumed, producing, history
<1>8. CASE TransportConnected \/ RestartIce
  <2>1. WireLess
    BY <1>8, PlainSends
  <2> QED BY <1>8, <2>1, AloneStill DEF TransportConnected, RestartIce, producing, history
<1>9. CASE \/ JoinStepDone \/ ProducerPaused \/ ProducerResumed \/ ConsumerPaused
           \/ ConsumerResumed \/ ChatDataProduced \/ BotDataProduced \/ IceRestarted
  <2>1. Served
    BY <1>9 DEF Served
  <2>2. WireLess
    BY <2>1, PlainAnswers
  <2>3. UNCHANGED <<overlapped, slot, alive, made, capturing>>
    BY <1>9 DEF JoinStepDone, ProducerPaused, ProducerResumed, ConsumerPaused,
                ConsumerResumed, ChatDataProduced, BotDataProduced, IceRestarted, producing,
                history
  <2> QED BY <2>2, <2>3, AloneStill
<1> QED BY <1>1, <1>2, <1>3, <1>4, <1>5, <1>6, <1>7, <1>8, <1>9

LEMMA AloneCapturing ==
  ASSUME Base, Base', Alone,
         (\E m \in Medium : Enable(m)) \/ DisableAudioOnly \/ Joined
  PROVE  Alone'
<1>1. PICK ms \in SUBSET Medium : Captures(ms)
  <2>1. {"webcam"} \in SUBSET Medium
    OBVIOUS
  <2> QED BY <2>1 DEF Enable, DisableAudioOnly, Joined
<1>2. WireLess
  <2>1. CASE \E m \in Medium : Enable(m)
    BY <2>1, WireKept DEF Enable, wire
  <2>2. CASE DisableAudioOnly
    BY <2>2, PlainSends
  <2>3. CASE Joined
    BY <2>3, PlainAnswers DEF Served
  <2> QED BY <2>1, <2>2, <2>3
<1>3. UNCHANGED <<slot, alive, made>>
  BY DEF Enable, DisableAudioOnly, Joined
<1> QED BY <1>1, <1>2, <1>3, AloneCaptures, AloneCalm

\* One request more.
LEMMA OneMore ==
  ASSUME NEW s \in Seq(Request), NEW r \in Request, NEW what, NEW m
  PROVE  /\ <<r>> \in Seq(Request) /\ ToSet(<<r>>) = {r}
         /\ Has(<<r>>, what, m) <=> Is(r, what, m)
         /\ Once(<<r>>, what, m)
         /\ Has(s \o <<r>>, what, m) <=> Has(s, what, m) \/ Is(r, what, m)
         /\ Once(s, what, m) /\ ~(Has(s, what, m) /\ Is(r, what, m))
              => Once(s \o <<r>>, what, m)
<1>1. <<r>> \in Seq(Request) /\ ToSet(<<r>>) = {r}
  BY FewSent
<1>2. Has(<<r>>, what, m) <=> Is(r, what, m)
  BY <1>1, HasElement
<1>3. Once(<<r>>, what, m)
  <2>1. Len(<<r>>) = 1 /\ \A i, j \in 1 .. 1 : i = j
    OBVIOUS
  <2> QED BY <2>1 DEF Once
<1>4. PICK q : q = <<r>>
  OBVIOUS
<1>5. /\ Has(s \o q, what, m) <=> Has(s, what, m) \/ Has(q, what, m)
      /\ Once(s, what, m) /\ Once(q, what, m) /\ ~(Has(s, what, m) /\ Has(q, what, m))
           => Once(s \o q, what, m)
  BY <1>1, <1>4, HasTogether
<1> QED BY <1>1, <1>2, <1>3, <1>4, <1>5

LEMMA AloneCaptured ==
  ASSUME Base, Base', Alone, NEW m \in Medium, Captured(m) PROVE Alone'
<1>0. WireOK /\ RestOK
  BY TypeParts DEF Base
<1>1. capturing' = [capturing EXCEPT ![m] = @ - 1] /\ capturing \in [Medium -> Nat]
      /\ capturing[m] > 0 /\ UNCHANGED <<overlapped, slot, alive, made>>
  BY <1>0 DEF Captured, RestOK, ProducingOK, history
<1>2. \A k \in Medium : capturing'[k] > 0 => capturing[k] > 0 /\ capturing'[k] <= capturing[k]
  BY <1>1
<1>3. CASE ~send
  <2>1. WireLess
    BY <1>3, WireKept DEF Captured, wire
  <2> QED BY <1>1, <1>2, <2>1, AloneCalm
<1>4. CASE send
  <2>1. PICK r : r = [what |-> "produce", medium |-> m]
    OBVIOUS
  <2>2. Sends(<<r>>) /\ r \in Request /\ r.what = "produce" /\ r.medium = m
    BY <1>4, <2>1, Made DEF Captured
  <2>3. CASE ~up
    <3>1. sent' = sent /\ lost' = lost \o <<r>> /\ ToSet(lost') = ToSet(lost) \cup {r}
      <4>1. PICK q : q = <<r>>
        OBVIOUS
      <4>2. q \in Seq(Request) /\ ToSet(q) = {r}
        BY <2>2, <4>1, FewSent
      <4>3. ToSet(lost \o q) = ToSet(lost) \cup ToSet(q)
        BY <1>0, <4>2, Together DEF WireOK
      <4> QED BY <2>2, <2>3, <4>1, <4>2, <4>3 DEF Sends
    <3>2. ASSUME NEW k \in Medium, Unique(sent, lost, k) PROVE Unique(sent', lost', k)
      BY <1>0, <2>2, <3>1, <3>2, OneMore DEF Unique, WireOK, Is
    <3>3. WireLess
      BY <2>2, <3>1, <3>2 DEF WireLess, Less
    <3> QED BY <1>1, <1>2, <3>3, AloneCalm
  <2>4. CASE up
    <3>1. sent' = sent \o <<r>> /\ lost' = lost /\ ToSet(sent') = ToSet(sent) \cup {r}
      <4>1. PICK q : q = <<r>>
        OBVIOUS
      <4>2. q \in Seq(Request) /\ ToSet(q) = {r}
        BY <2>2, <4>1, FewSent
      <4>3. ToSet(sent \o q) = ToSet(sent) \cup ToSet(q)
        BY <1>0, <4>2, Together DEF WireOK
      <4> QED BY <2>2, <2>4, <4>1, <4>2, <4>3 DEF Sends
    <3>2. Requests' = Requests \cup {r}
      BY <3>1 DEF Requests
    <3> SUFFICES ASSUME ~overlapped', NEW k \in Medium PROVE AloneAt(k)'
      BY DEF Alone
    <3>3. AloneAt(k) /\ AloneAt(m)
      BY <1>1 DEF Alone
    <3>4. ASSUME NEW what
          PROVE  /\ Has(sent', what, k) <=> Has(sent, what, k) \/ Is(r, what, k)
                 /\ Once(sent, what, k) /\ ~(Has(sent, what, k) /\ Is(r, what, k))
                      => Once(sent', what, k)
      BY <1>0, <2>2, <3>1, OneMore DEF WireOK
    <3>5. capturing[m] = 1 /\ slot[m] = 0 /\ ~Has(sent, "produce", m) /\ capturing'[m] = 0
      BY <1>1, <3>3 DEF AloneAt
    <3>6. (Is(r, "produce", k) <=> k = m) /\ ~Is(r, "closeProducer", k)
      BY <2>2 DEF Is
    <3>7. Unique(sent', lost', k)
      BY <3>1, <3>3, <3>4, <3>5, <3>6 DEF AloneAt, Unique
    <3>8. Has(sent', "produce", k) => slot[k] = 0
      BY <3>3, <3>4, <3>5, <3>6 DEF AloneAt
    <3>9. capturing'[k] > 0 => capturing'[k] = 1 /\ slot[k] = 0 /\ ~Has(sent', "produce", k)
      BY <1>1, <3>3, <3>4, <3>5, <3>6 DEF AloneAt
    <3>10. \A q \in Requests' : Is(q, "closeProducer", k) => q \in Requests
      BY <3>2, <3>6
    <3>11. Unique(sent, lost, k)' /\ (Has(sent, "produce", k) => slot[k] = 0)'
           /\ (capturing[k] > 0 => capturing[k] = 1 /\ slot[k] = 0 /\ ~Has(sent, "produce", k))'
      BY <1>1, <3>7, <3>8, <3>9 DEF Unique, Has, Once
    <3>12. (\A q \in Requests : Is(q, "closeProducer", k) => q.id = slot[k] /\ slot[k] \notin alive)'
      BY <1>1, <3>3, <3>10 DEF AloneAt, Is
    <3> QED BY <1>1, <3>3, <3>11, <3>12 DEF AloneAt
  <2> QED BY <2>3, <2>4
<1> QED BY <1>3, <1>4

\* A function for m sends closeProducer for the Producer in its slot, and q is what it sends.
LEMMA AloneDisabled ==
  ASSUME Base, Base', Alone, NEW m \in Medium, slot[m] # 0, NEW q \in Seq(Request), Sends(q),
         \A k : ~Has(q, "produce", k) /\ Once(q, "produce", k) /\ Once(q, "closeProducer", k),
         \A r \in ToSet(q) : r.what = "closeProducer" => r.medium = m /\ r.id = slot[m],
         alive' = alive \ {slot[m]}, overlapped' = (overlapped \/ Disabling(m)),
         UNCHANGED <<slot, made, capturing>>
  PROVE  Alone'
<1>0. WireOK
  BY TypeParts DEF Base
<1> SUFFICES ASSUME ~overlapped', NEW k \in Medium PROVE AloneAt(k)'
  BY DEF Alone
<1>1. AloneAt(k) /\ ~Disabling(m)
  BY DEF Alone
<1>2. /\ sent' \in {sent, sent \o q} /\ lost' \in {lost, lost \o q}
      /\ sent' = sent \/ lost' = lost
      /\ Requests' = Requests \cup ToSet(q)
  BY <1>0, Sending DEF Sends
<1>3. \A r \in Requests : ~Is(r, "closeProducer", m)
  <2>1. ToSet(sent \o lost) = Requests
    BY <1>0, Together DEF WireOK, Requests
  <2> QED BY <1>1, <2>1 DEF Disabling, Is
<1>4. ~Has(sent, "closeProducer", m) /\ ~Has(lost, "closeProducer", m)
  BY <1>0, <1>3, HasElement DEF WireOK, Requests
<1>5. Has(q, "closeProducer", k) => k = m
  BY HasElement DEF Is
<1>6. \A what : /\ Has(sent \o q, what, k) <=> Has(sent, what, k) \/ Has(q, what, k)
                /\ Has(lost \o q, what, k) <=> Has(lost, what, k) \/ Has(q, what, k)
                /\ Once(sent, what, k) /\ Once(q, what, k)
                     /\ ~(Has(sent, what, k) /\ Has(q, what, k)) => Once(sent \o q, what, k)
                /\ Once(lost, what, k) /\ Once(q, what, k)
                     /\ ~(Has(lost, what, k) /\ Has(q, what, k)) => Once(lost \o q, what, k)
  BY <1>0, HasTogether DEF WireOK
<1>7. Unique(sent, lost, k) => Unique(sent', lost', k)
  <2>1. Unique(sent, lost, k) => Unique(sent \o q, lost, k) /\ Unique(sent, lost \o q, k)
    BY <1>4, <1>5, <1>6 DEF Unique
  <2> QED BY <1>2, <2>1
<1>8. Has(sent', "produce", k) => Has(sent, "produce", k)
  BY <1>2, <1>6
<1>9. \A r \in Requests' :
        Is(r, "closeProducer", k) => r.id = slot[k] /\ slot[k] \notin alive'
  <2>1. ASSUME NEW r \in Requests, Is(r, "closeProducer", k)
        PROVE  r.id = slot[k] /\ slot[k] \notin alive'
    BY <1>1, <2>1 DEF AloneAt
  <2>2. ASSUME NEW r \in ToSet(q), Is(r, "closeProducer", k)
        PROVE  r.id = slot[k] /\ slot[k] \notin alive'
    BY <2>2 DEF Is
  <2> QED BY <1>2, <2>1, <2>2
<1>10. Unique(sent, lost, k)' /\ (Has(sent, "produce", k) => slot[k] = 0)'
       /\ (capturing[k] > 0 => capturing[k] = 1 /\ slot[k] = 0 /\ ~Has(sent, "produce", k))'
  BY <1>1, <1>7, <1>8 DEF AloneAt, Unique, Has, Once
<1>11. (\A r \in Requests : Is(r, "closeProducer", k) => r.id = slot[k] /\ slot[k] \notin alive)'
  BY <1>9 DEF Is
<1> QED BY <1>1, <1>10, <1>11 DEF AloneAt

\* What disableMic(), disableWebcam() and enableAudioOnly() send.
LEMMA Closing ==
  ASSUME NEW r \in Request, r.what = "closeProducer",
         NEW s \in Seq(Request), Plain(s), \A x \in ToSet(s) : x.what \notin OfProducer,
         NEW q, q = <<r>> \o s
  PROVE  /\ q \in Seq(Request) /\ ToSet(q) = {r} \cup ToSet(s) /\ Len(q) >= 1 /\ q[1] = r
         /\ \A k : ~Has(q, "produce", k) /\ Once(q, "produce", k) /\ Once(q, "closeProducer", k)
         /\ \A x \in ToSet(q) : x.what = "closeProducer" => x = r
<1>1. PICK f : f = <<r>>
  OBVIOUS
<1>2. f \in Seq(Request) /\ ToSet(f) = {r} /\ Len(f) = 1 /\ f[1] = r
  BY <1>1, FewSent
<1>3. /\ q \in Seq(Request) /\ ToSet(q) = {r} \cup ToSet(s) /\ Len(q) = 1 + Len(s)
      /\ q[1] = r
  <2>0. f \in Seq(Request)
    BY <1>2
  <2>1. f \o s \in Seq(Request) /\ Len(f \o s) = Len(f) + Len(s)
        /\ ToSet(f \o s) = ToSet(f) \cup ToSet(s)
        /\ \A i \in 1 .. Len(f) : (f \o s)[i] = f[i]
    BY <2>0, Together
  <2>2. 1 \in 1 .. Len(f)
    BY <1>2
  <2> QED BY <1>1, <1>2, <2>1, <2>2
<1>4. ASSUME NEW k
      PROVE ~Has(q, "produce", k) /\ Once(q, "produce", k) /\ Once(q, "closeProducer", k)
  <2>1. \A what \in {"produce", "closeProducer"} : ~Has(s, what, k) /\ Once(s, what, k)
    BY PlainHas
  <2>2. \A what \in {"produce", "closeProducer"} :
          (Has(f, what, k) <=> Is(r, what, k)) /\ Once(f, what, k)
    BY <1>1, OneMore
  <2>3. ~Is(r, "produce", k)
    BY DEF Is
  <2> QED BY <1>1, <1>2, <2>1, <2>2, <2>3, HasTogether
<1>5. \A x \in ToSet(q) : x.what = "closeProducer" => x = r
  BY <1>3 DEF OfProducer
<1>6. Len(q) >= 1
  BY <1>3
<1> QED BY <1>3, <1>4, <1>5, <1>6

\* The two kinds of step that close a Producer, as what they send.
LEMMA Disables ==
  ASSUME Base, NEW m \in Medium, slot[m] # 0,
         Disable(m) \/ (EnableAudioOnly /\ m = "webcam")
  PROVE  \E r \in Request, s \in Seq(Request), q \in Seq(Request) :
           /\ r = OfMedium("closeProducer", m, slot[m]) /\ Plain(s)
           /\ \A x \in ToSet(s) : x.what \notin OfProducer
           /\ q = <<r>> \o s /\ Sends(q)
<1>1. PICK r : r = OfMedium("closeProducer", m, slot[m])
  OBVIOUS
<1>2. r \in Request
  BY <1>1, SlotRequest DEF OfProducer
<1>3. <<r>> \in Seq(Request)
  BY <1>2, FewSent
<1>4. CASE Disable(m)
  <2>1. <<>> \in Seq(Request) /\ Plain(<<>>) /\ ToSet(<<>>) = {}
    BY FewSent, AboutPlain
  <2>2. <<r>> = <<r>> \o <<>>
    BY <1>3
  <2> QED BY <1>1, <1>2, <1>3, <1>4, <2>1, <2>2 DEF Disable
<1>5. CASE EnableAudioOnly /\ m = "webcam"
  <2>1. PICK s : s = SetToSeq({OfConsumer("pauseConsumer", c) : c \in Opened \ paused})
    OBVIOUS
  <2>2. Opened \ paused \in SUBSET Consumer /\ "pauseConsumer" \in OfConsumers
    BY DEF Opened, OfConsumers
  <2>3. s \in Seq(Request) /\ Plain(s) /\ \A x \in ToSet(s) : x.what \notin OfProducer
    <3>1. /\ s \in Seq(Request) /\ Plain(s)
          /\ \A x \in ToSet(s) :
               x.what = "pauseConsumer" /\ "pauseConsumer" \notin OfProducer
      BY <2>1, <2>2, ConsumersPlain
    <3> QED BY <3>1
  <2>4. PICK q : q = <<r>> \o s
    OBVIOUS
  <2>5. q \in Seq(Request)
    BY <1>3, <2>3, <2>4, Together
  <2>6. Sends(q)
    BY <1>1, <1>5, <2>1, <2>4 DEF EnableAudioOnly
  <2> QED BY <1>1, <1>2, <2>3, <2>4, <2>5, <2>6
<1> QED BY <1>4, <1>5

LEMMA AloneDisable ==
  ASSUME Base, Base', Alone, (\E m \in Medium : Disable(m)) \/ EnableAudioOnly
  PROVE  Alone'
<1>1. ASSUME NEW m \in Medium, slot[m] # 0, Disable(m) \/ (EnableAudioOnly /\ m = "webcam")
      PROVE  Alone'
  <2>1. PICK r \in Request, s \in Seq(Request), q \in Seq(Request) :
           /\ r = OfMedium("closeProducer", m, slot[m]) /\ Plain(s)
           /\ \A x \in ToSet(s) : x.what \notin OfProducer
           /\ q = <<r>> \o s /\ Sends(q)
    BY <1>1, Disables
  <2>2. /\ \A k : /\ ~Has(q, "produce", k) /\ Once(q, "produce", k)
                  /\ Once(q, "closeProducer", k)
        /\ \A x \in ToSet(q) : x.what = "closeProducer" => x.medium = m /\ x.id = slot[m]
    <3>1. r.what = "closeProducer" /\ r.medium = m /\ r.id = slot[m]
      BY <2>1 DEF OfMedium
    <3>2. /\ \A x \in ToSet(q) : x.what = "closeProducer" => x = r
          /\ \A k : /\ ~Has(q, "produce", k) /\ Once(q, "produce", k)
                    /\ Once(q, "closeProducer", k)
      BY <2>1, <3>1, Closing
    <3> QED BY <3>1, <3>2
  <2>3. /\ alive' = alive \ {slot[m]} /\ UNCHANGED <<slot, made, capturing>>
        /\ overlapped' = (overlapped \/ Disabling(m))
    BY <1>1 DEF Disable, EnableAudioOnly
  <2> QED BY <1>1, <2>1, <2>2, <2>3, AloneDisabled
<1>2. CASE EnableAudioOnly /\ slot["webcam"] = 0
  <2>1. PICK s : s = SetToSeq({OfConsumer("pauseConsumer", c) : c \in Opened \ paused})
    OBVIOUS
  <2>2. Opened \ paused \in SUBSET Consumer /\ "pauseConsumer" \in OfConsumers
    BY DEF Opened, OfConsumers
  <2>3. s \in Seq(Request) /\ Plain(s)
    BY <2>1, <2>2, ConsumersPlain
  <2>4. Sends(s)
    <3>1. Sends(<<>> \o s)
      BY <1>2, <2>1 DEF EnableAudioOnly
    <3>2. <<>> \o s = s
      BY <2>3
    <3> QED BY <3>1, <3>2
  <2>5. WireLess
    BY <2>3, <2>4, WireSends, TypeParts DEF Base
  <2>6. /\ UNCHANGED <<slot, made, capturing>> /\ alive' \subseteq alive
        /\ overlapped' = overlapped
    BY <1>2 DEF EnableAudioOnly, Base, TypeOK
  <2>7. \A m \in Medium : capturing[m] <= capturing[m]
    <3>1. capturing \in [Medium -> Nat]
      BY DEF Base, TypeOK
    <3> QED BY <3>1
  <2> QED BY <2>5, <2>6, <2>7, AloneCalm
<1>3. ASSUME NEW m \in Medium, Disable(m) PROVE Alone'
  BY <1>1, <1>3 DEF Disable
<1> QED BY <1>1, <1>2, <1>3

LEMMA AloneProduced ==
  ASSUME Base, Base', Alone, Produced PROVE Alone'
<1>0. WireOK /\ RestOK
  BY TypeParts DEF Base
<1>1. PICK m : m = Head(sent).medium
  OBVIOUS
<1>2. PICK p : p = Len(made) + 1
  OBVIOUS
<1>3. /\ UNCHANGED <<overlapped, capturing>> /\ sent # <<>> /\ Then(<<>>)
      /\ Head(sent).what = "produce" /\ made' = Append(made, m)
      /\ slot' = [slot EXCEPT ![m] = p] /\ alive' = alive \cup {p}
  BY <1>1, <1>2 DEF Produced, Done, history
<1>4. m \in Medium
  BY <1>1, <1>3, HeadSound, RequestFields
<1>5. slot \in [Medium -> Producer \cup {0}] /\ made \in Seq(Medium) /\ alive \subseteq DOMAIN made
  BY <1>0 DEF RestOK, ProducingOK
<1>6. /\ made'[p] = m /\ p \notin DOMAIN made /\ \A o \in DOMAIN made : made'[o] = made[o]
  BY <1>2, <1>3, <1>4, <1>5
<1>7. Gone(Head(sent), sent', lost') /\ sent' = Tail(sent) /\ lost' = lost
  <2>1. sent' = Tail(sent) \o <<>> /\ lost' = lost /\ Tail(sent) \in Seq(Request)
    BY <1>0, <1>3, HeadGone DEF Then, WireOK
  <2>2. sent' = Tail(sent)
    BY <2>1
  <2> QED BY <1>0, <1>3, <2>1, <2>2, GoneFirst
<1> SUFFICES ASSUME ~overlapped', NEW k \in Medium PROVE AloneAt(k)'
  BY DEF Alone
<1>8. AloneAt(k) /\ AloneAt(m)
  BY <1>3, <1>4 DEF Alone
<1>9. Has(sent, "produce", m) /\ ~Has(sent', "produce", m)
  <2>1. /\ Lacks(sent, 1, Tail(sent)) /\ 1 \in 1 .. Len(sent) /\ Head(sent) = sent[1]
        /\ Tail(sent) \in Seq(Request)
    BY <1>0, <1>3, HeadGone DEF WireOK
  <2>2. Is(sent[1], "produce", m)
    BY <1>1, <1>3, <2>1 DEF Is
  <2>3. Has(sent, "produce", m)
    BY <2>1, <2>2 DEF Has
  <2> QED BY <1>0, <1>7, <1>8, <2>1, <2>2, <2>3, HasLeft DEF WireOK, AloneAt, Unique
<1>10. slot[m] = 0 /\ ~(capturing[m] > 0)
  BY <1>8, <1>9 DEF AloneAt
<1>11. \A r \in Requests : ~Is(r, "closeProducer", m)
  <2>1. SUFFICES ASSUME NEW r \in Requests, Is(r, "closeProducer", m) PROVE FALSE
    OBVIOUS
  <2>2. r.id = 0
    BY <1>8, <1>10, <2>1 DEF AloneAt
  <2>3. r \in Request
    BY <1>0, Elements DEF Requests, WireOK
  <2>4. r.id \in 1 .. MaxProducers
    BY <2>1, <2>3, RequestFields DEF Is, OfProducer, Producer
  <2> QED BY <2>2, <2>4
<1>12. /\ Has(sent', "produce", k) => Has(sent, "produce", k)
       /\ \A r \in Requests' : Is(r, "closeProducer", k) => r \in Requests
       /\ Unique(sent', lost', k)
  <2>1. Has(sent', "produce", k) => Has(sent, "produce", k)
    BY <1>7 DEF Gone, Less
  <2>2. \A r \in Requests' : Is(r, "closeProducer", k) => r \in Requests
    BY <1>7 DEF Gone, Less, Requests, Is
  <2>3. Unique(sent', lost', k)
    BY <1>7, <1>8 DEF Gone, Less, AloneAt
  <2> QED BY <2>1, <2>2, <2>3
<1>13. (\A r \in Requests : Is(r, "closeProducer", k) => r.id = slot[k] /\ slot[k] \notin alive)'
  <2>1. ASSUME NEW r \in Requests', Is(r, "closeProducer", k)
        PROVE  r.id = slot'[k] /\ slot'[k] \notin alive'
    <3>1. r \in Requests /\ k # m
      BY <1>11, <1>12, <2>1
    <3>2. r.id = slot[k] /\ slot[k] \notin alive /\ slot'[k] = slot[k]
      BY <1>3, <1>5, <1>8, <2>1, <3>1 DEF AloneAt
    <3>3. slot[k] # p
      <4>1. r.id \in DOMAIN made
        BY <2>1, <3>1 DEF Base, RequestsSound, Sound, Is, OfProducer
      <4> QED BY <1>6, <3>2, <4>1
    <3> QED BY <1>3, <3>2, <3>3
  <2> QED BY <2>1 DEF Is
<1>14. \A o \in alive' : made'[o] = k => slot'[k] = o
  <2>1. ASSUME NEW o \in alive, made'[o] = k PROVE slot'[k] = o
    <3>1. made[o] = k /\ slot[k] = o /\ o # 0
      BY <1>5, <1>6, <1>8, <2>1 DEF AloneAt
    <3>2. k # m
      BY <1>10, <3>1
    <3> QED BY <1>3, <1>5, <3>1, <3>2
  <2>2. made'[p] = k => slot'[k] = p
    BY <1>3, <1>4, <1>5, <1>6
  <2> QED BY <1>3, <2>1, <2>2
<1>15. k # m => slot'[k] = slot[k]
  BY <1>3, <1>5
<1>16. (Has(sent, "produce", k) => slot[k] = 0)'
  BY <1>8, <1>9, <1>12, <1>15 DEF AloneAt, Has
<1>17. (capturing[k] > 0 => capturing[k] = 1 /\ slot[k] = 0 /\ ~Has(sent, "produce", k))'
  <2>1. CASE k = m
    BY <1>3, <1>10, <2>1
  <2>2. CASE k # m
    BY <1>3, <1>8, <1>12, <1>15, <2>2 DEF AloneAt, Has
  <2> QED BY <2>1, <2>2
<1>18. Unique(sent, lost, k)' /\ (\A o \in alive : made[o] = k => slot[k] = o)'
  BY <1>12, <1>14 DEF Unique, Has, Once
<1> QED BY <1>13, <1>16, <1>17, <1>18 DEF AloneAt

LEMMA AloneClose ==
  ASSUME Base, Base', Alone, ProducerClosed PROVE Alone'
<1>0. WireOK /\ RestOK
  BY TypeParts DEF Base
<1>1. PICK r : r = Head(sent)
  OBVIOUS
<1>2. /\ UNCHANGED <<alive, made, capturing, overlapped>> /\ sent # <<>> /\ Then(<<>>)
      /\ r.what = "closeProducer" /\ slot' = [slot EXCEPT ![r.medium] = 0]
  BY <1>1 DEF ProducerClosed, Done, history
<1>3. r.medium \in Medium
  BY <1>1, <1>2, HeadSound, RequestFields DEF OfProducer
<1>4. Gone(r, sent', lost')
  <2>1. sent' = Tail(sent) \o <<>> /\ lost' = lost /\ Tail(sent) \in Seq(Request)
    BY <1>0, <1>2, HeadGone DEF Then, WireOK
  <2>2. sent' = Tail(sent)
    BY <2>1
  <2> QED BY <1>0, <1>1, <1>2, <2>1, <2>2, GoneFirst
<1>5. PICK m \in Medium : m = r.medium
  BY <1>3
<1>6. Is(r, "closeProducer", m) /\ slot'[m] = 0 /\ \A k \in Medium \ {m} : slot'[k] = slot[k]
  BY <1>0, <1>2, <1>5 DEF Is, RestOK, ProducingOK
<1> QED BY <1>2, <1>4, <1>6, AloneEmptied

LEMMA AloneStep == ASSUME Base, Base', Alone, [Next]_vars PROVE Alone'
<1>0. WireOK
  BY TypeParts DEF Base
<1>1. CASE UNCHANGED vars
  BY <1>1, AloneKeep
<1>2. CASE Next
  <2>1. CASE Open
    BY <2>1, AloneKeep
  <2>2. CASE Disconnected \/ ProtooClosed
    <3>1. ConnectionLost(sent, lost) /\ TransportsClosed /\ UNCHANGED overlapped
      BY <2>2 DEF Disconnected, ProtooClosed, Close, history
    <3>2. Less(sent, lost, sent, lost)
      BY DEF Less
    <3> QED BY <1>0, <3>1, <3>2, AloneClosed DEF WireOK
  <2>3. ASSUME NEW m \in Medium,
               \/ Enable(m) \/ Captured(m) \/ CaptureFailed(m) \/ Disable(m)
               \/ Mute(m) \/ Unmute(m)
        PROVE  Alone'
    BY <2>3, AloneKeep, AloneCapturing, AloneCaptured, AloneDisable
  <2>4. CASE ChangeWebcam \/ WebcamChanged
    BY <2>4, AloneKeep
  <2>5. ASSUME NEW c \in Consumer,
               \/ NewConsumer(c) \/ Consumed(c) \/ ConsumerClosed(c)
               \/ NewDataConsumer(c) \/ DataConsumed(c) \/ DataConsumerClosed(c)
               \/ ConsumeFailed(c)
        PROVE  Alone'
    BY <2>5, AloneKeep
  <2>6. CASE EnableAudioOnly \/ DisableAudioOnly \/ TransportConnected \/ RestartIce
    BY <2>6, AloneKeep, AloneCapturing, AloneDisable
  <2>7. CASE Served
    BY <2>7, AloneKeep, AloneCapturing, AloneProduced, AloneClose DEF Served
  <2>8. CASE Refused
    <3>1. PICK r, s : r = Head(sent) /\ s = Tail(sent)
      OBVIOUS
    <3>2. Gone(r, s, lost) /\ Rejects(r, s, lost) /\ UNCHANGED overlapped
      BY <1>0, <2>8, <3>1, GoneFirst DEF Refused
    <3> QED BY <3>2, AloneRejected
  <2>9. CASE TimedOut
    <3>1. PICK i \in DOMAIN lost : Rejects(lost[i], sent, RemoveAt(lost, i))
      BY <2>9 DEF TimedOut
    <3>2. Gone(lost[i], sent, RemoveAt(lost, i)) /\ UNCHANGED overlapped
      BY <1>0, <2>9, GoneLost DEF TimedOut, history
    <3>3. PICK r, l : r = lost[i] /\ l = RemoveAt(lost, i)
      OBVIOUS
    <3>4. Gone(r, sent, l) /\ Rejects(r, sent, l)
      BY <3>1, <3>2, <3>3
    <3> QED BY <3>2, <3>4, AloneRejected
  <2> QED BY <1>2, <2>1, <2>2, <2>3, <2>4, <2>5, <2>6, <2>7, <2>8, <2>9 DEF Next
<1> QED BY <1>1, <1>2

LEMMA AloneAtFirst == ASSUME Init PROVE Alone
<1>1. /\ sent = <<>> /\ lost = <<>> /\ alive = {} /\ Requests = {}
      /\ capturing = [m \in Medium |-> 0] /\ slot = [m \in Medium |-> 0]
  BY DEF Init, Requests, ToSet
<1>2. \A what, m : ~Has(<<>>, what, m) /\ Once(<<>>, what, m)
  BY DEF Has, Once
<1>3. \A m \in Medium : Unique(sent, lost, m)
  BY <1>1, <1>2 DEF Unique
<1> QED BY <1>1, <1>2, <1>3 DEF Alone, AloneAt

\* A Producer that sends is in the slot of its medium, unless calls for it overlapped.
THEOREM AliveStaysInSlot == Spec => []AliveIsInSlot
<1>1. Init => Base /\ Alone
  BY BaseAtFirst, AloneAtFirst
<1>2. Base /\ Alone /\ [Next]_vars => (Base /\ Alone)'
  BY BaseStep, AloneStep
<1>3. Base /\ Alone => AliveIsInSlot
  <2>1. ASSUME Base, Alone, NEW p \in alive, ~overlapped PROVE slot[made[p]] = p
    <3>1. made[p] \in Medium
      BY <2>1 DEF Base, TypeOK
    <3> QED BY <2>1, <3>1 DEF Alone, AloneAt
  <2> QED BY <2>1 DEF AliveIsInSlot
<1> QED BY <1>1, <1>2, <1>3, PTL DEF Spec

-----------------------------------------------------------------------------
(* What the server will have when it has served the requests that wait.     *)

Closes(r, p) == r.what = "closeProducer" /\ r.id = p
Switches(r, p) == r.what \in {"pauseProducer", "resumeProducer"} /\ r.id = p

\* The last request of q that switches p is at i.
Latest(q, i, p) == Switches(q[i], p) /\ \A j \in i + 1 .. Len(q) : ~Switches(q[j], p)

\* The client has the Producers in al, those in mu paused.  The server has those in sp,
\* those in sm paused, and is asked in q to make up for the difference.
Agree(q, al, mu, sp, sm) ==
  /\ al \subseteq sp /\ sm \subseteq sp
  /\ \A p \in sp \ al : \E r \in ToSet(q) : Closes(r, p)
  /\ \A p \in al : \A r \in ToSet(q) : ~Closes(r, p)
  /\ \A p \in al : (\A r \in ToSet(q) : ~Switches(r, p)) => (p \in mu <=> p \in sm)
  /\ \A p \in al : \A i \in 1 .. Len(q) :
       Latest(q, i, p) => (p \in mu <=> q[i].what = "pauseProducer")

\* The client does something and sends t.
LEMMA AgreeAfter ==
  ASSUME NEW q \in Seq(Request), NEW t \in Seq(Request),
         NEW al, NEW mu, NEW sp, NEW sm, NEW al2, NEW mu2,
         Agree(q, al, mu, sp, sm), al2 \subseteq al,
         \A p \in al2 : \A r \in ToSet(t) : ~Closes(r, p),
         \A p \in al \ al2 : \E r \in ToSet(t) : Closes(r, p),
         \A p \in al2 :
           \/ (\A r \in ToSet(t) : ~Switches(r, p)) /\ (p \in mu2 <=> p \in mu)
           \/ Len(t) = 1 /\ Switches(t[1], p) /\ (p \in mu2 <=> t[1].what = "pauseProducer")
  PROVE  Agree(q \o t, al2, mu2, sp, sm)
<1> DEFINE u == q \o t
<1>1. /\ u \in Seq(Request) /\ Len(u) = Len(q) + Len(t) /\ Len(q) \in Nat /\ Len(t) \in Nat
      /\ \A i \in 1 .. Len(q) : u[i] = q[i]
      /\ \A i \in Len(q) + 1 .. Len(q) + Len(t) :
           u[i] = t[i - Len(q)] /\ i - Len(q) \in 1 .. Len(t)
      /\ ToSet(u) = ToSet(q) \cup ToSet(t)
  BY Together
<1> HIDE DEF u
<1>2. ToSet(t) = {t[i] : i \in 1 .. Len(t)} /\ ToSet(q) = {q[i] : i \in 1 .. Len(q)}
  BY Elements
<1>3. al2 \subseteq sp /\ sm \subseteq sp /\ \A p \in sp \ al2 : \E r \in ToSet(u) : Closes(r, p)
  BY <1>1 DEF Agree
<1>4. \A p \in al2 : \A r \in ToSet(u) : ~Closes(r, p)
  BY <1>1 DEF Agree
<1>5. ASSUME NEW p \in al2, \A r \in ToSet(u) : ~Switches(r, p)
      PROVE  p \in mu2 <=> p \in sm
  <2>1. ~(Len(t) = 1 /\ Switches(t[1], p))
    BY <1>1, <1>2, <1>5
  <2>2. p \in mu2 <=> p \in mu
    BY <2>1
  <2> QED BY <1>1, <1>5, <2>2 DEF Agree
<1>6. ASSUME NEW p \in al2, NEW i \in 1 .. Len(u), Latest(u, i, p)
      PROVE  p \in mu2 <=> u[i].what = "pauseProducer"
  <2>1. CASE (\A r \in ToSet(t) : ~Switches(r, p)) /\ (p \in mu2 <=> p \in mu)
    <3>1. i \in 1 .. Len(q)
      <4>1. SUFFICES ASSUME i \notin 1 .. Len(q) PROVE FALSE
        OBVIOUS
      <4>2. i \in Len(q) + 1 .. Len(q) + Len(t)
        BY <1>1, <4>1
      <4>3. u[i] = t[i - Len(q)] /\ i - Len(q) \in 1 .. Len(t)
        BY <1>1, <4>2
      <4> QED BY <1>2, <1>6, <2>1, <4>3 DEF Latest
    <3>2. u[i] = q[i] /\ \A j \in i + 1 .. Len(q) : u[j] = q[j] /\ j \in i + 1 .. Len(u)
      BY <1>1, <3>1
    <3>3. Latest(q, i, p)
      BY <1>6, <3>2 DEF Latest
    <3> QED BY <2>1, <3>1, <3>2, <3>3 DEF Agree
  <2>2. CASE Len(t) = 1 /\ Switches(t[1], p) /\ (p \in mu2 <=> t[1].what = "pauseProducer")
    <3>1. /\ Len(u) = Len(q) + 1 /\ Len(u) \in Len(q) + 1 .. Len(q) + Len(t)
          /\ Len(u) - Len(q) = 1
      BY <1>1, <2>2
    <3>2. u[Len(u)] = t[1]
      BY <1>1, <3>1
    <3>3. i = Len(u)
      <4>1. SUFFICES ASSUME i # Len(u) PROVE FALSE
        OBVIOUS
      <4>2. Len(u) \in i + 1 .. Len(u)
        BY <1>1, <4>1
      <4> QED BY <1>6, <2>2, <3>2, <4>2 DEF Latest
    <3> QED BY <2>2, <3>2, <3>3
  <2> QED BY <2>1, <2>2
<1>7. Agree(u, al2, mu2, sp, sm)
  BY <1>3, <1>4, <1>5, <1>6 DEF Agree
<1> QED BY <1>7 DEF u

\* What is sent is about no Producer.
LEMMA AgreeSame ==
  ASSUME NEW q \in Seq(Request), NEW t \in Seq(Request),
         NEW al, NEW mu, NEW sp, NEW sm, Agree(q, al, mu, sp, sm),
         \A r \in ToSet(t) : r.what \notin OfProducer
  PROVE  Agree(q \o t, al, mu, sp, sm)
<1>1. \A p : \A r \in ToSet(t) : ~Closes(r, p) /\ ~Switches(r, p)
  BY DEF OfProducer, Closes, Switches
<1> QED BY <1>1, AgreeAfter

\* The server serves the first request, or refuses what it could not do.
LEMMA AgreeServed ==
  ASSUME NEW q \in Seq(Request), NEW t \in Seq(Request), 1 \in 1 .. Len(q), Lacks(q, 1, t),
         NEW al, NEW mu, NEW sp, NEW sm, NEW sp2, NEW sm2, Agree(q, al, mu, sp, sm),
         \/ q[1].what \notin OfProducer /\ sp2 = sp /\ sm2 = sm
         \/ q[1].id \notin sp /\ sp2 = sp /\ sm2 = sm
         \/ q[1].what = "closeProducer" /\ sp2 = sp \ {q[1].id} /\ sm2 = sm \ {q[1].id}
         \/ q[1].what = "pauseProducer" /\ sp2 = sp /\ sm2 = sm \cup {q[1].id}
              /\ q[1].id \in sp
         \/ q[1].what = "resumeProducer" /\ sp2 = sp /\ sm2 = sm \ {q[1].id}
  PROVE  Agree(t, al, mu, sp2, sm2)
<1> DEFINE r == q[1]
<1>1. ToSet(q) = ToSet(t) \cup {r} /\ r \in ToSet(q) /\ ToSet(t) \subseteq ToSet(q)
  BY Left
<1>2. /\ Len(q) = Len(t) + 1 /\ Len(t) \in Nat
      /\ \A i \in 1 .. Len(t) : t[i] = q[i + 1] /\ i + 1 \in 1 .. Len(q)
  BY DEF Lacks
<1>3. \A p \in al : ~Closes(r, p) /\ p \in sp
  BY <1>1 DEF Agree
<1> HIDE DEF r
<1>4. /\ q[1] = r
      /\ \/ r.what \notin OfProducer /\ sp2 = sp /\ sm2 = sm
         \/ r.id \notin sp /\ sp2 = sp /\ sm2 = sm
         \/ r.what = "closeProducer" /\ sp2 = sp \ {r.id} /\ sm2 = sm \ {r.id}
         \/ r.what = "pauseProducer" /\ sp2 = sp /\ sm2 = sm \cup {r.id} /\ r.id \in sp
         \/ r.what = "resumeProducer" /\ sp2 = sp /\ sm2 = sm \ {r.id}
  BY DEF r
<1>5. al \subseteq sp2 /\ sm2 \subseteq sp2
  BY <1>3, <1>4 DEF Agree, Closes
<1>6. ASSUME NEW p \in sp2 \ al PROVE \E k \in ToSet(t) : Closes(k, p)
  <2>1. ~Closes(r, p)
    BY <1>4, <1>6 DEF Closes, OfProducer
  <2>2. p \in sp
    BY <1>4, <1>6
  <2> QED BY <1>1, <1>6, <2>1, <2>2 DEF Agree
<1>7. \A p \in al : \A k \in ToSet(t) : ~Closes(k, p)
  BY <1>1 DEF Agree
<1>8. ASSUME NEW p \in al, NEW i \in 1 .. Len(t), Latest(t, i, p)
      PROVE  p \in mu <=> t[i].what = "pauseProducer"
  <2>1. t[i] = q[i + 1] /\ i + 1 \in 1 .. Len(q)
    BY <1>2
  <2>2. ASSUME NEW j \in (i + 1) + 1 .. Len(q) PROVE ~Switches(q[j], p)
    <3>1. j - 1 \in i + 1 .. Len(t) /\ j - 1 \in 1 .. Len(t) /\ (j - 1) + 1 = j
      BY <1>2, <2>2
    <3>2. t[j - 1] = q[j]
      BY <1>2, <3>1
    <3> QED BY <1>8, <3>1, <3>2 DEF Latest
  <2>3. Latest(q, i + 1, p)
    BY <1>8, <2>1, <2>2 DEF Latest
  <2> QED BY <2>1, <2>3 DEF Agree
<1>9. ASSUME NEW p \in al, \A k \in ToSet(t) : ~Switches(k, p)
      PROVE  p \in mu <=> p \in sm2
  <2>1. CASE Switches(r, p)
    <3>1. ASSUME NEW j \in 1 + 1 .. Len(q) PROVE ~Switches(q[j], p)
      <4>1. j - 1 \in 1 .. Len(t) /\ (j - 1) + 1 = j
        BY <1>2, <3>1
      <4>2. t[j - 1] = q[j] /\ t[j - 1] \in ToSet(t)
        BY <1>2, <4>1, Elements
      <4> QED BY <1>9, <4>2
    <3>2. Latest(q, 1, p)
      BY <1>4, <2>1, <3>1 DEF Latest
    <3>3. p \in mu <=> r.what = "pauseProducer"
      BY <1>4, <3>2 DEF Agree
    <3> QED BY <1>3, <1>4, <2>1, <3>3 DEF Switches, OfProducer
  <2>2. CASE ~Switches(r, p)
    <3>1. p \in mu <=> p \in sm
      BY <1>1, <1>9, <2>2 DEF Agree
    <3>2. p \in sm2 <=> p \in sm
      BY <1>3, <1>4, <2>2 DEF Switches, Closes
    <3> QED BY <3>1, <3>2
  <2> QED BY <2>1, <2>2
<1> QED BY <1>5, <1>6, <1>7, <1>8, <1>9 DEF Agree

\* A Producer that is new to both.
LEMMA AgreeNew ==
  ASSUME NEW q \in Seq(Request), NEW al, NEW mu, NEW sp, NEW sm, NEW p,
         Agree(q, al, mu, sp, sm), p \notin sp, p \notin mu,
         \A r \in ToSet(q) : r.what \in OfProducer => r.id # p
  PROVE  Agree(q, al \cup {p}, mu, sp \cup {p}, sm)
<1>1. \A r \in ToSet(q) : ~Closes(r, p) /\ ~Switches(r, p)
  BY DEF Closes, Switches, OfProducer
<1>2. \A i \in 1 .. Len(q) : ~Latest(q, i, p)
  BY <1>1, Elements DEF Latest
<1> QED BY <1>1, <1>2 DEF Agree

-----------------------------------------------------------------------------
(* The Producers of the client and of the server.                          *)

\* The server will have what the client has, once it has served the requests that wait.
ServerSound ==
  ~refused => Agree(sent, alive, muted, server.producers, server.muted)

LEMMA AgreeNothing == ASSUME NEW q, NEW mu PROVE Agree(q, {}, mu, {}, {})
BY DEF Agree

\* The connection is over.
LEMMA ServerOff == ASSUME Base', ~up' PROVE ServerSound'
<1>1. alive' = {} /\ server'.producers = {} /\ server'.muted = {}
  BY DEF Base, ConnectionSound, Forgotten
<1>2. Agree(sent', alive', muted', server'.producers, server'.muted)
  BY <1>1, AgreeNothing
<1> QED BY <1>2 DEF ServerSound

LEMMA ServerKept ==
  ASSUME ServerSound, refused => refused',
         UNCHANGED <<sent, alive, muted, server.producers, server.muted>>
  PROVE  ServerSound'
BY DEF ServerSound

\* The client sends nothing about a Producer.
LEMMA ServerSends ==
  ASSUME Base, Base', ServerSound, NEW q \in Seq(Request), Sends(q),
         \A r \in ToSet(q) : r.what \notin OfProducer,
         UNCHANGED <<up, alive, muted, server, refused>>
  PROVE  ServerSound'
<1>1. CASE ~up
  BY <1>1, ServerOff
<1>2. CASE up
  <2>1. sent' = sent \o q /\ sent \in Seq(Request)
    BY <1>2, TypeParts DEF Sends, Base, WireOK
  <2>2. ~refused => Agree(sent \o q, alive, muted, server.producers, server.muted)
    BY <2>1, AgreeSame DEF ServerSound
  <2> QED BY <2>1, <2>2 DEF ServerSound
<1> QED BY <1>1, <1>2

\* The client closes or switches Producers and sends q about it.
LEMMA ServerTold ==
  ASSUME Base, Base', ServerSound, NEW q \in Seq(Request), Sends(q),
         UNCHANGED <<up, server, refused>>, alive' \subseteq alive,
         \A p \in alive' : \A r \in ToSet(q) : ~Closes(r, p),
         \A p \in alive \ alive' : \E r \in ToSet(q) : Closes(r, p),
         \A p \in alive' :
           \/ (\A r \in ToSet(q) : ~Switches(r, p)) /\ (p \in muted' <=> p \in muted)
           \/ /\ Len(q) = 1 /\ Switches(q[1], p)
              /\ p \in muted' <=> q[1].what = "pauseProducer"
  PROVE  ServerSound'
<1>1. CASE ~up
  BY <1>1, ServerOff
<1>2. CASE up
  <2>1. sent' = sent \o q /\ sent \in Seq(Request)
    BY <1>2, TypeParts DEF Sends, Base, WireOK
  <2>2. PICK al2, mu2 : al2 = alive' /\ mu2 = muted'
    OBVIOUS
  <2>3. ~refused => Agree(sent \o q, al2, mu2, server.producers, server.muted)
    BY <2>1, <2>2, AgreeAfter DEF ServerSound
  <2> QED BY <2>1, <2>2, <2>3 DEF ServerSound
<1> QED BY <1>1, <1>2

LEMMA ServerMuted ==
  ASSUME Base, Base', ServerSound, NEW m \in Medium, Mute(m) \/ Unmute(m)
  PROVE  ServerSound'
<1>1. PICK what \in {"pauseProducer", "resumeProducer"} :
        /\ Sends(<<OfMedium(what, m, slot[m])>>) /\ slot[m] # 0
        /\ UNCHANGED <<up, server, refused, alive>>
        /\ muted' = IF what = "pauseProducer" THEN muted \cup ({slot[m]} \cap alive)
                    ELSE muted \ {slot[m]}
  BY DEF Mute, Unmute, session, history
<1>2. PICK r : r = OfMedium(what, m, slot[m])
  OBVIOUS
<1>3. r \in Request /\ r.what = what /\ r.id = slot[m]
  BY <1>1, <1>2, SlotRequest DEF OfProducer, OfMedium
<1>4. PICK q : q = <<r>>
  OBVIOUS
<1>5. q \in Seq(Request) /\ ToSet(q) = {r} /\ Len(q) = 1 /\ q[1] = r
  BY <1>3, <1>4, FewSent
<1>6. \A p \in alive' : \A k \in ToSet(q) : ~Closes(k, p)
  BY <1>3, <1>5 DEF Closes
<1>7. ASSUME NEW p \in alive'
      PROVE \/ (\A k \in ToSet(q) : ~Switches(k, p)) /\ (p \in muted' <=> p \in muted)
            \/ /\ Len(q) = 1 /\ Switches(q[1], p)
               /\ p \in muted' <=> q[1].what = "pauseProducer"
  BY <1>1, <1>3, <1>5 DEF Switches
<1> QED BY <1>1, <1>2, <1>4, <1>5, <1>6, <1>7, ServerTold

LEMMA ServerDisabled ==
  ASSUME Base, Base', ServerSound, NEW m \in Medium, slot[m] # 0,
         Disable(m) \/ (EnableAudioOnly /\ m = "webcam")
  PROVE  ServerSound'
<1>1. PICK r \in Request, s \in Seq(Request), q \in Seq(Request) :
           /\ r = OfMedium("closeProducer", m, slot[m]) /\ Plain(s)
           /\ \A x \in ToSet(s) : x.what \notin OfProducer
           /\ q = <<r>> \o s /\ Sends(q)
  BY Disables
<1>2. r.what = "closeProducer" /\ r.id = slot[m]
  BY <1>1 DEF OfMedium
<1>3. ToSet(q) = {r} \cup ToSet(s)
  BY <1>1, <1>2, Closing
<1>4. /\ alive' = alive \ {slot[m]} /\ muted' = muted \ {slot[m]}
      /\ UNCHANGED <<up, server, refused>>
  BY DEF Disable, EnableAudioOnly, session
<1>5. \A p \in alive' : \A x \in ToSet(q) : ~Closes(x, p) /\ ~Switches(x, p)
  BY <1>1, <1>2, <1>3, <1>4 DEF Closes, Switches, OfProducer
<1>6. \A p \in alive \ alive' : \E x \in ToSet(q) : Closes(x, p)
  BY <1>2, <1>3, <1>4 DEF Closes
<1>7. \A p \in alive' : p \in muted' <=> p \in muted
  BY <1>4
<1> QED BY <1>1, <1>4, <1>5, <1>6, <1>7, ServerTold

\* The other calls and callbacks of the client.
LEMMA ServerPlain ==
  ASSUME Base, Base', ServerSound,
         \/ \E m \in Medium : Captured(m)
         \/ \E c \in Consumer : Consumed(c)
         \/ EnableAudioOnly /\ slot["webcam"] = 0
         \/ DisableAudioOnly \/ TransportConnected \/ RestartIce
  PROVE  ServerSound'
<1>0. RestOK
  BY TypeParts DEF Base
<1>1. ASSUME NEW m \in Medium, Captured(m) PROVE ServerSound'
  <2>1. UNCHANGED <<up, alive, muted, server, refused>>
    BY <1>1 DEF Captured, session, history
  <2>2. CASE ~send
    BY <1>1, <2>1, <2>2, ServerKept DEF Captured, wire
  <2>3. CASE send
    <3>1. PICK r : r = [what |-> "produce", medium |-> m]
      OBVIOUS
    <3>2. r \in Request /\ r.what = "produce"
      BY <3>1, Made
    <3>3. PICK q : q = <<r>>
      OBVIOUS
    <3>4. q \in Seq(Request) /\ \A k \in ToSet(q) : k.what \notin OfProducer
      BY <3>2, <3>3, FewSent DEF OfProducer
    <3>5. Sends(q)
      BY <1>1, <2>3, <3>1, <3>3 DEF Captured
    <3> QED BY <2>1, <3>4, <3>5, ServerSends
  <2> QED BY <2>2, <2>3
<1>2. ASSUME NEW c \in Consumer, Consumed(c) PROVE ServerSound'
  <2>1. PICK cs : cs = (IF audioOnly THEN {c} ELSE {}) \ paused
    OBVIOUS
  <2>2. PICK q : q = SetToSeq({OfConsumer("pauseConsumer", d) : d \in cs})
    OBVIOUS
  <2>3. cs \in SUBSET Consumer /\ "pauseConsumer" \in OfConsumers
    BY <2>1 DEF OfConsumers
  <2>4. q \in Seq(Request) /\ \A r \in ToSet(q) : r.what = "pauseConsumer"
    BY <2>2, <2>3, ConsumersPlain
  <2>5. Sends(q)
    BY <1>2, <2>1, <2>2 DEF Consumed, Pause
  <2>6. UNCHANGED <<up, alive, muted, server, refused>>
    BY <1>2 DEF Consumed, session, producing, history
  <2>7. \A r \in ToSet(q) : r.what \notin OfProducer
    BY <2>4 DEF OfProducer
  <2> QED BY <2>4, <2>5, <2>6, <2>7, ServerSends
<1>3. CASE EnableAudioOnly /\ slot["webcam"] = 0
  <2>1. PICK q : q = SetToSeq({OfConsumer("pauseConsumer", c) : c \in Opened \ paused})
    OBVIOUS
  <2>2. Opened \ paused \in SUBSET Consumer /\ "pauseConsumer" \in OfConsumers
    BY DEF Opened, OfConsumers
  <2>3. q \in Seq(Request) /\ \A r \in ToSet(q) : r.what = "pauseConsumer"
    BY <2>1, <2>2, ConsumersPlain
  <2>4. Sends(q)
    <3>1. Sends(<<>> \o q)
      BY <1>3, <2>1 DEF EnableAudioOnly
    <3>2. <<>> \o q = q
      BY <2>3
    <3> QED BY <3>1, <3>2
  <2>5. alive \subseteq Nat \ {0} /\ muted \subseteq alive
    BY <1>0 DEF RestOK, ProducingOK
  <2>6. UNCHANGED <<up, alive, muted, server, refused>>
    BY <1>3, <2>5 DEF EnableAudioOnly, session
  <2>7. \A r \in ToSet(q) : r.what \notin OfProducer
    BY <2>3 DEF OfProducer
  <2> QED BY <2>3, <2>4, <2>6, <2>7, ServerSends
<1>4. CASE DisableAudioOnly
  <2>1. PICK q : q = SetToSeq({OfConsumer("resumeConsumer", c) : c \in paused})
    OBVIOUS
  <2>2. paused \in SUBSET Consumer /\ "resumeConsumer" \in OfConsumers
    BY <1>0 DEF OfConsumers, RestOK, ConsumingOK
  <2>3. q \in Seq(Request) /\ \A r \in ToSet(q) : r.what = "resumeConsumer"
    BY <2>1, <2>2, ConsumersPlain
  <2>4. Sends(q)
    BY <1>4, <2>1 DEF DisableAudioOnly
  <2>5. UNCHANGED <<up, alive, muted, server, refused>>
    BY <1>4 DEF DisableAudioOnly, session
  <2>6. \A r \in ToSet(q) : r.what \notin OfProducer
    BY <2>3 DEF OfProducer
  <2> QED BY <2>3, <2>4, <2>5, <2>6, ServerSends
<1>5. CASE TransportConnected \/ RestartIce
  <2>1. \E q \in Seq(Request) : Sends(q) /\ \A r \in ToSet(q) : r.what \notin OfProducer
    <3>1. CASE TransportConnected
      <4>1. PICK a, b : a = About("produceChat") /\ b = About("produceBot")
        OBVIOUS
      <4>2. a \in Request /\ b \in Request /\ a.what = "produceChat" /\ b.what = "produceBot"
        BY <4>1, Made
      <4>3. <<a, b>> \in Seq(Request) /\ ToSet(<<a, b>>) = {a, b}
        BY <4>2, FewSent
      <4> QED BY <3>1, <4>1, <4>2, <4>3 DEF TransportConnected, OfProducer
    <3>2. CASE RestartIce
      <4>1. PICK a : a = About(IF send THEN "restartIceSend" ELSE "restartIceRecv")
        OBVIOUS
      <4>2. a \in Request /\ a.what \in {"restartIceSend", "restartIceRecv"}
        BY <4>1, Made
      <4>3. <<a>> \in Seq(Request) /\ ToSet(<<a>>) = {a}
        BY <4>2, FewSent
      <4> QED BY <3>2, <4>1, <4>2, <4>3 DEF RestartIce, OfProducer
    <3> QED BY <1>5, <3>1, <3>2
  <2>2. UNCHANGED <<up, alive, muted, server, refused>>
    BY <1>5 DEF TransportConnected, RestartIce, session, producing, history
  <2> QED BY <2>1, <2>2, ServerSends
<1> QED BY <1>1, <1>2, <1>3, <1>4, <1>5

\* The request that is served or refused first, and what is left.
LEMMA FirstOut ==
  ASSUME Base, sent # <<>>
  PROVE  /\ sent \in Seq(Request) /\ Tail(sent) \in Seq(Request) /\ Lacks(sent, 1, Tail(sent))
         /\ 1 \in 1 .. Len(sent) /\ Head(sent) = sent[1] /\ sent[1] \in ToSet(sent)
         /\ ToSet(Tail(sent)) \subseteq ToSet(sent) /\ Tail(sent) \o <<>> = Tail(sent)
<1>1. sent \in Seq(Request)
  BY TypeParts DEF Base, WireOK
<1>2. /\ Tail(sent) \in Seq(Request) /\ Lacks(sent, 1, Tail(sent)) /\ 1 \in 1 .. Len(sent)
      /\ Head(sent) = sent[1]
  BY <1>1, HeadGone
<1>3. ToSet(Tail(sent)) \subseteq ToSet(sent) /\ sent[1] \in ToSet(sent)
  BY <1>1, <1>2, Left
<1>4. Tail(sent) \o <<>> = Tail(sent)
  BY <1>2
<1> QED BY <1>1, <1>2, <1>3, <1>4

\* An answer about no Producer.
LEMMA ServerAnswers ==
  ASSUME Base, ServerSound, sent # <<>>, Head(sent).what \notin OfProducer,
         NEW q \in Seq(Request), Then(q), \A r \in ToSet(q) : r.what \notin OfProducer,
         UNCHANGED <<alive, muted, server.producers, server.muted, refused>>
  PROVE  ServerSound'
<1>1. PICK t : t = Tail(sent)
  OBVIOUS
<1>2. t \in Seq(Request) /\ sent \in Seq(Request) /\ sent' = t \o q
  BY <1>1, FirstOut DEF Then
<1>3. ~refused => Agree(t, alive, muted, server.producers, server.muted)
  BY <1>1, FirstOut, AgreeServed DEF ServerSound
<1>4. ~refused => Agree(t \o q, alive, muted, server.producers, server.muted)
  BY <1>2, <1>3, AgreeSame
<1> QED BY <1>2, <1>4 DEF ServerSound

\* An answer about a Producer that the server has.
LEMMA ServerSwitched ==
  ASSUME Base, ServerSound, ProducerClosed \/ ProducerPaused \/ ProducerResumed
  PROVE  ServerSound'
<1>0. ServerOK
  BY TypeParts DEF Base, RestOK
<1>1. PICK r, t, sp2, sm2 :
        r = Head(sent) /\ t = Tail(sent) /\ sp2 = server'.producers /\ sm2 = server'.muted
  OBVIOUS
<1>2. /\ sent # <<>> /\ Then(<<>>) /\ UNCHANGED <<alive, muted, refused>>
      /\ r.id \in server.producers
      /\ \/ /\ r.what = "closeProducer" /\ sp2 = server.producers \ {r.id}
            /\ sm2 = server.muted \ {r.id}
         \/ /\ r.what = "pauseProducer" /\ sp2 = server.producers
            /\ sm2 = server.muted \cup {r.id}
         \/ /\ r.what = "resumeProducer" /\ sp2 = server.producers
            /\ sm2 = server.muted \ {r.id}
  BY <1>0, <1>1 DEF ProducerClosed, ProducerPaused, ProducerResumed, Done, Possible, ServerOK,
                    history
<1>3. t \in Seq(Request) /\ sent \in Seq(Request) /\ sent' = t
  BY <1>1, <1>2, FirstOut DEF Then
<1>4. ~refused => Agree(t, alive, muted, sp2, sm2)
  <2>1. r = sent[1] /\ 1 \in 1 .. Len(sent) /\ Lacks(sent, 1, t)
    BY <1>1, <1>2, FirstOut
  <2> QED BY <1>2, <1>3, <2>1, AgreeServed DEF ServerSound
<1> QED BY <1>1, <1>2, <1>3, <1>4 DEF ServerSound

LEMMA ServerProduced ==
  ASSUME Base, ServerSound, Produced PROVE ServerSound'
<1>0. RestOK
  BY TypeParts DEF Base
<1>1. PICK p, t : p = Len(made) + 1 /\ t = Tail(sent)
  OBVIOUS
<1>2. /\ sent # <<>> /\ Then(<<>>) /\ UNCHANGED <<muted, refused>>
      /\ Head(sent).what = "produce" /\ alive' = alive \cup {p}
      /\ server' = [server EXCEPT !.producers = @ \cup {p}]
  BY <1>1 DEF Produced, Done, history
<1>3. server'.producers = server.producers \cup {p} /\ server'.muted = server.muted
  BY <1>0, <1>2 DEF RestOK, ServerOK
<1>4. t \in Seq(Request) /\ sent \in Seq(Request) /\ sent' = t /\ ToSet(t) \subseteq ToSet(sent)
  BY <1>1, <1>2, FirstOut DEF Then
<1>5. ~refused => Agree(t, alive, muted, server.producers, server.muted)
  <2>1. Head(sent).what \notin OfProducer
    BY <1>2 DEF OfProducer
  <2> QED BY <1>1, <1>2, <1>4, <2>1, FirstOut, AgreeServed DEF ServerSound
<1>6. p \notin DOMAIN made
  <2>1. made \in Seq(Medium)
    BY <1>0 DEF RestOK, ProducingOK
  <2> QED BY <1>1, <2>1
<1>7. p \notin server.producers /\ p \notin muted
  BY <1>0, <1>6 DEF RestOK, ProducingOK, ServerOK
<1>8. \A r \in ToSet(t) : r.what \in OfProducer => r.id # p
  BY <1>4, <1>6 DEF Base, RequestsSound, Sound, Requests
<1>9. ~refused => Agree(t, alive \cup {p}, muted, server.producers \cup {p}, server.muted)
  BY <1>4, <1>5, <1>7, <1>8, AgreeNew
<1> QED BY <1>2, <1>3, <1>4, <1>9 DEF ServerSound

LEMMA ServerServed == ASSUME Base, ServerSound, Served PROVE ServerSound'
<1>0. ServerOK
  BY TypeParts DEF Base, RestOK
<1>1. CASE \/ JoinStepDone \/ Joined \/ ConsumerPaused \/ ConsumerResumed
           \/ ChatDataProduced \/ BotDataProduced \/ IceRestarted
  <2>1. PICK q \in Seq(Request) : Then(q) /\ \A r \in ToSet(q) : r.what \notin OfProducer
    BY PlainAnswers
  <2>2. /\ sent # <<>>
        /\ UNCHANGED <<alive, muted, server.producers, server.muted, refused>>
    BY <1>0, <1>1 DEF JoinStepDone, Joined, ConsumerPaused, ConsumerResumed,
                      ChatDataProduced, BotDataProduced, IceRestarted, Done, producing,
                      history, ServerOK
  <2>3. Head(sent).what \notin OfProducer
    <3>1. CASE JoinStepDone
      BY <3>1 DEF JoinStepDone, Done, Joining, OfProducer
    <3>2. CASE \/ Joined \/ ConsumerPaused \/ ConsumerResumed
               \/ ChatDataProduced \/ BotDataProduced \/ IceRestarted
      BY <3>2 DEF Joined, ConsumerPaused, ConsumerResumed, ChatDataProduced,
                  BotDataProduced, IceRestarted, Done, OfProducer
    <3> QED BY <1>1, <3>1, <3>2
  <2> QED BY <2>1, <2>2, <2>3, ServerAnswers
<1> QED BY <1>1, ServerSwitched, ServerProduced DEF Served

LEMMA ServerRefused ==
  ASSUME Base, Base', ServerSound, Refused \/ TimedOut PROVE ServerSound'
<1>1. CASE ~up'
  BY <1>1, ServerOff
<1>2. CASE up' /\ TimedOut
  <2>1. PICK i \in DOMAIN lost : Rejects(lost[i], sent, RemoveAt(lost, i))
    BY <1>2 DEF TimedOut
  <2>2. ~(lost[i].what \in ToSet(Joining) /\ ~closed)
    BY <1>2, <2>1 DEF Rejects, Close, ConnectionLost
  <2>3. UNCHANGED <<sent, alive, muted, server, refused>>
    BY <1>2, <2>1, <2>2 DEF Rejects, TimedOut, history
  <2> QED BY <2>3, ServerKept
<1>3. CASE up' /\ Refused
  <2>1. sent # <<>> /\ Rejects(Head(sent), Tail(sent), lost)
        /\ refused' = (refused \/ Possible(Head(sent)))
    BY <1>3 DEF Refused
  <2>2. ~(Head(sent).what \in ToSet(Joining) /\ ~closed)
    BY <1>3, <2>1 DEF Rejects, Close, ConnectionLost
  <2>3. sent' = Tail(sent) /\ UNCHANGED <<alive, muted, server>>
    BY <2>1, <2>2 DEF Rejects
  <2>4. ~refused' => \/ Head(sent).what \notin OfProducer
                     \/ Head(sent).id \notin server.producers
    BY <2>1 DEF Possible, OfProducer
  <2>5. PICK t : t = Tail(sent)
    OBVIOUS
  <2>6. ~refused' => Agree(t, alive, muted, server.producers, server.muted)
    <3>1. t \in Seq(Request) /\ sent \in Seq(Request) /\ 1 \in 1 .. Len(sent)
          /\ Lacks(sent, 1, t) /\ Head(sent) = sent[1]
      BY <2>1, <2>5, FirstOut
    <3> QED BY <2>1, <2>4, <3>1, AgreeServed DEF ServerSound
  <2> QED BY <2>3, <2>5, <2>6 DEF ServerSound
<1> QED BY <1>1, <1>2, <1>3

LEMMA ServerStep == ASSUME Base, Base', ServerSound, [Next]_vars PROVE ServerSound'
<1>0. ServerOK
  BY TypeParts DEF Base, RestOK
<1>1. CASE UNCHANGED vars
  BY <1>1, ServerKept DEF vars, wire, producing, history
<1>2. CASE Next
  <2>1. CASE Open
    <3>1. /\ UNCHANGED <<alive, muted, server, refused>> /\ alive = {}
          /\ server = Forgotten
      BY <2>1 DEF Open, producing, history, Base, ConnectionSound
    <3>2. server.producers = {} /\ server.muted = {}
      BY <3>1 DEF Forgotten
    <3>3. Agree(sent', alive', muted', server'.producers, server'.muted)
      BY <3>1, <3>2, AgreeNothing
    <3> QED BY <3>3 DEF ServerSound
  <2>2. CASE Disconnected \/ ProtooClosed
    BY <2>2, ServerOff DEF Disconnected, ProtooClosed, Close, ConnectionLost
  <2>3. ASSUME NEW m \in Medium, Captured(m) \/ Mute(m) \/ Unmute(m)
        PROVE  ServerSound'
    BY <2>3, ServerPlain, ServerMuted
  <2>4. ASSUME NEW m \in Medium, Disable(m) PROVE ServerSound'
    BY <2>4, ServerDisabled DEF Disable
  <2>5. CASE EnableAudioOnly
    BY <2>5, ServerDisabled, ServerPlain
  <2>6. CASE (\E m \in Medium : Enable(m) \/ CaptureFailed(m)) \/ ChangeWebcam \/ WebcamChanged
    <3>1. UNCHANGED <<sent, alive, muted, server, refused>>
      <4>1. ASSUME NEW m \in Medium, Enable(m) \/ CaptureFailed(m)
            PROVE  UNCHANGED <<sent, alive, muted, server, refused>>
        BY <4>1 DEF Enable, CaptureFailed, wire, history
      <4>2. CASE ChangeWebcam \/ WebcamChanged
        BY <4>2 DEF ChangeWebcam, WebcamChanged, wire, history
      <4> QED BY <2>6, <4>1, <4>2
    <3> QED BY <3>1, ServerKept
  <2>7. ASSUME NEW c \in Consumer, Consumed(c) PROVE ServerSound'
    BY <2>7, ServerPlain
  <2>8. ASSUME NEW c \in Consumer,
               \/ NewConsumer(c) \/ ConsumerClosed(c)
               \/ NewDataConsumer(c) \/ DataConsumed(c) \/ DataConsumerClosed(c)
               \/ ConsumeFailed(c)
        PROVE  ServerSound'
    <3>1. UNCHANGED <<sent, alive, muted, server.producers, server.muted, refused>>
      BY <1>0, <2>8 DEF NewConsumer, NewDataConsumer, Offered, DataConsumed, ConsumerClosed,
                        DataConsumerClosed, ClosedAtServer, ConsumeFailed, wire, producing,
                        history, ServerOK
    <3> QED BY <3>1, ServerKept
  <2>9. CASE DisableAudioOnly \/ TransportConnected \/ RestartIce
    BY <2>9, ServerPlain
  <2>10. CASE Served
    BY <2>10, ServerServed
  <2>11. CASE Refused \/ TimedOut
    BY <2>11, ServerRefused
  <2> QED BY <1>2, <2>1, <2>2, <2>3, <2>4, <2>5, <2>6, <2>7, <2>8, <2>9, <2>10, <2>11 DEF Next
<1> QED BY <1>1, <1>2

-----------------------------------------------------------------------------
(* The Producers that the store has as paused.                             *)

\* The store changes with the answer to a request, when the server has changed.
StoreSound ==
  ~refused /\ ~overlapped => \A p \in alive : p \in shownMuted <=> p \in server.muted

LEMMA StoreOff == ASSUME Base', ~up' PROVE StoreSound'
BY DEF Base, ConnectionSound, StoreSound

\* Producers are closed, the client's and the store's.
LEMMA StoreKept ==
  ASSUME StoreSound, refused => refused', overlapped => overlapped', alive' \subseteq alive,
         UNCHANGED server.muted, \A p \in alive' : p \in shownMuted' <=> p \in shownMuted
  PROVE  StoreSound'
BY DEF StoreSound

\* The store is told of the Producer in the slot, which is the one that was switched.
LEMMA StoreTold ==
  ASSUME Base, Alone, ServerSound, StoreSound, ProducerPaused \/ ProducerResumed
  PROVE  StoreSound'
<1>0. RestOK
  BY TypeParts DEF Base
<1>1. PICK r : r = Head(sent)
  OBVIOUS
<1>2. /\ sent # <<>> /\ UNCHANGED <<alive, refused, overlapped>> /\ r.what \in OfProducer
      /\ r.id \in server.producers
      /\ \/ /\ server'.muted = server.muted \cup {r.id}
            /\ shownMuted' = shownMuted \cup ({slot[r.medium]} \ {0})
         \/ /\ server'.muted = server.muted \ {r.id}
            /\ shownMuted' = shownMuted \ {slot[r.medium]}
  BY <1>0, <1>1 DEF ProducerPaused, ProducerResumed, Done, Possible, OfProducer, RestOK,
                    ServerOK, history
<1>3. /\ r \in Request /\ r.medium \in Medium /\ r.id \in DOMAIN made
      /\ made[r.id] = r.medium
  BY <1>1, <1>2, HeadSound, RequestFields DEF Sound
<1>4. ASSUME ~refused, ~overlapped, NEW p \in alive
      PROVE  p = r.id <=> p = slot[r.medium]
  <2>1. AloneAt(r.medium)
    BY <1>3, <1>4 DEF Alone
  <2>2. CASE p = r.id
    BY <1>3, <1>4, <2>1, <2>2 DEF AloneAt
  <2>3. CASE p = slot[r.medium]
    <3>1. CASE r.id \in alive
      BY <1>3, <2>1, <2>3, <3>1 DEF AloneAt
    <3>2. CASE r.id \notin alive
      <4>1. PICK k \in ToSet(sent) : Closes(k, r.id)
        BY <1>2, <1>4, <3>2 DEF ServerSound, Agree
      <4>2. k \in Requests /\ k.what = "closeProducer" /\ k.id = r.id
        BY <4>1 DEF Requests, Closes
      <4>3. k.medium = r.medium
        BY <1>3, <4>2 DEF Base, RequestsSound, Sound, OfProducer
      <4>4. slot[r.medium] \notin alive
        BY <2>1, <4>2, <4>3 DEF AloneAt, Is
      <4> QED BY <1>4, <2>3, <4>4
    <3> QED BY <3>1, <3>2
  <2> QED BY <2>2, <2>3
<1>5. ASSUME ~refused', ~overlapped', NEW p \in alive'
      PROVE  p \in shownMuted' <=> p \in server'.muted
  <2>1. /\ p \in alive /\ (p = r.id <=> p = slot[r.medium])
        /\ (p \in shownMuted <=> p \in server.muted)
    BY <1>2, <1>4, <1>5 DEF StoreSound
  <2>2. p # 0
    BY <1>0, <2>1 DEF RestOK, ProducingOK
  <2> QED BY <1>2, <2>1, <2>2
<1> QED BY <1>5 DEF StoreSound

LEMMA StoreServed ==
  ASSUME Base, Alone, ServerSound, StoreSound, Served PROVE StoreSound'
<1>0. RestOK
  BY TypeParts DEF Base
<1>1. CASE ProducerPaused \/ ProducerResumed
  BY <1>1, StoreTold
<1>2. CASE ProducerClosed
  <2>1. PICK r : r = Head(sent)
    OBVIOUS
  <2>2. /\ sent # <<>> /\ UNCHANGED <<alive, shownMuted, refused, overlapped>>
        /\ r.what = "closeProducer" /\ server'.muted = server.muted \ {r.id}
    BY <1>0, <1>2, <2>1 DEF ProducerClosed, Done, RestOK, ServerOK, history
  <2>3. r \in ToSet(sent)
    BY <2>1, <2>2, FirstOut
  <2>4. ~refused => r.id \notin alive
    BY <2>2, <2>3 DEF ServerSound, Agree, Closes
  <2> QED BY <2>2, <2>4 DEF StoreSound
<1>3. CASE Produced
  <2>1. PICK p : p = Len(made) + 1
    OBVIOUS
  <2>2. /\ alive' = alive \cup {p} /\ server'.muted = server.muted
        /\ UNCHANGED <<shownMuted, refused, overlapped>>
    BY <1>0, <1>3, <2>1 DEF Produced, RestOK, ServerOK, history
  <2>3. p \notin DOMAIN made
    <3>1. made \in Seq(Medium)
      BY <1>0 DEF RestOK, ProducingOK
    <3> QED BY <2>1, <3>1
  <2>4. p \notin shownMuted /\ p \notin server.muted
    BY <1>0, <2>3 DEF RestOK, ProducingOK, ServerOK
  <2> QED BY <2>2, <2>4 DEF StoreSound
<1>4. CASE Joined
  <2>1. Captures(Medium) /\ UNCHANGED <<alive, shownMuted, server, refused>>
    BY <1>4 DEF Joined
  <2> QED BY <2>1, StoreKept DEF Captures
<1>5. CASE \/ JoinStepDone \/ ConsumerPaused \/ ConsumerResumed
           \/ ChatDataProduced \/ BotDataProduced \/ IceRestarted
  <2>1. UNCHANGED <<alive, shownMuted, server.muted, refused, overlapped>>
    BY <1>0, <1>5 DEF JoinStepDone, ConsumerPaused, ConsumerResumed, ChatDataProduced,
                      BotDataProduced, IceRestarted, producing, history, RestOK, ServerOK
  <2> QED BY <2>1, StoreKept
<1> QED BY <1>1, <1>2, <1>3, <1>4, <1>5 DEF Served

LEMMA StoreStep ==
  ASSUME Base, Base', Alone, ServerSound, StoreSound, [Next]_vars PROVE StoreSound'
<1>0. RestOK
  BY TypeParts DEF Base
<1>1. CASE UNCHANGED vars
  BY <1>1, StoreKept DEF vars, producing, history
<1>2. CASE Next
  <2>1. CASE Open
    BY <2>1, StoreKept DEF Open, producing, history
  <2>2. CASE Disconnected \/ ProtooClosed
    BY <2>2, StoreOff DEF Disconnected, ProtooClosed, Close, ConnectionLost
  <2>3. ASSUME NEW m \in Medium,
               Captured(m) \/ CaptureFailed(m) \/ Disable(m) \/ Mute(m) \/ Unmute(m)
        PROVE  StoreSound'
    <3>1. /\ alive' \subseteq alive /\ UNCHANGED <<server, refused>>
          /\ overlapped => overlapped'
          /\ \A p \in alive' : p \in shownMuted' <=> p \in shownMuted
      <4>1. CASE Captured(m) \/ CaptureFailed(m) \/ Mute(m) \/ Unmute(m)
        BY <4>1 DEF Captured, CaptureFailed, Mute, Unmute, history
      <4>2. CASE Disable(m)
        <5>1. /\ alive' = alive \ {slot[m]} /\ shownMuted' = shownMuted \ {slot[m]}
              /\ UNCHANGED <<server, refused>>
              /\ overlapped' = (overlapped \/ Disabling(m))
          BY <4>2 DEF Disable
        <5> QED BY <5>1
      <4> QED BY <2>3, <4>1, <4>2
    <3> QED BY <3>1, StoreKept
  <2>4. CASE (\E m \in Medium : Enable(m)) \/ DisableAudioOnly
    <3>1. UNCHANGED <<alive, shownMuted, server, refused>> /\ (overlapped => overlapped')
      BY <2>4 DEF Enable, DisableAudioOnly, Captures
    <3> QED BY <3>1, StoreKept
  <2>5. CASE EnableAudioOnly
    <3>1. /\ alive' \subseteq alive /\ UNCHANGED <<server, refused>>
          /\ overlapped => overlapped'
          /\ \A p \in alive' : p \in shownMuted' <=> p \in shownMuted
      BY <2>5 DEF EnableAudioOnly
    <3> QED BY <3>1, StoreKept
  <2>6. CASE ChangeWebcam \/ WebcamChanged \/ TransportConnected \/ RestartIce
    BY <2>6, StoreKept
       DEF ChangeWebcam, WebcamChanged, TransportConnected, RestartIce, producing, history
  <2>7. ASSUME NEW c \in Consumer,
               \/ NewConsumer(c) \/ Consumed(c) \/ ConsumerClosed(c)
               \/ NewDataConsumer(c) \/ DataConsumed(c) \/ DataConsumerClosed(c)
               \/ ConsumeFailed(c)
        PROVE  StoreSound'
    <3>1. UNCHANGED <<alive, shownMuted, server.muted, refused, overlapped>>
      BY <1>0, <2>7 DEF NewConsumer, NewDataConsumer, Offered, Consumed, DataConsumed,
                        ConsumerClosed, DataConsumerClosed, ClosedAtServer, ConsumeFailed,
                        producing, history, RestOK, ServerOK
    <3> QED BY <3>1, StoreKept
  <2>8. CASE Served
    BY <2>8, StoreServed
  <2>9. CASE Refused \/ TimedOut
    <3>1. PICK r, s, l : Rejects(r, s, l) /\ (refused => refused') /\ UNCHANGED overlapped
      <4>1. CASE Refused
        <5>1. refused' = (refused \/ Possible(Head(sent)))
          BY <4>1 DEF Refused
        <5>2. Rejects(Head(sent), Tail(sent), lost) /\ UNCHANGED overlapped
          BY <4>1 DEF Refused
        <5> QED BY <5>1, <5>2
      <4>2. CASE TimedOut
        BY <4>2 DEF TimedOut, history
      <4> QED BY <2>9, <4>1, <4>2
    <3>2. CASE r.what \in ToSet(Joining) /\ ~closed
      BY <3>1, <3>2, StoreOff DEF Rejects, Close, ConnectionLost
    <3>3. CASE ~(r.what \in ToSet(Joining) /\ ~closed)
      BY <3>1, <3>3, StoreKept DEF Rejects
    <3> QED BY <3>2, <3>3
  <2> QED BY <1>2, <2>1, <2>2, <2>3, <2>4, <2>5, <2>6, <2>7, <2>8, <2>9 DEF Next
<1> QED BY <1>1, <1>2

-----------------------------------------------------------------------------
(* When nothing is under way.                                              *)

IInv == Base /\ Alone /\ ServerSound /\ StoreSound /\ ConsumersSound

LEMMA IInvAtFirst == ASSUME Init PROVE IInv
<1>1. ServerSound /\ StoreSound /\ ConsumersSound
  BY AgreeNothing DEF Init, Forgotten, ServerSound, StoreSound, ConsumersSound
<1> QED BY <1>1, BaseAtFirst, AloneAtFirst DEF IInv

LEMMA IInvStep == ASSUME IInv, [Next]_vars PROVE IInv'
<1>1. Base'
  BY BaseStep DEF IInv
<1> QED BY <1>1, AloneStep, ServerStep, StoreStep, ConsumersNext DEF IInv

LEMMA IInvAgrees == ASSUME IInv, Quiet PROVE ServerAgrees
<1>1. paused = server.paused \cap Opened
  BY DEF IInv, ConsumersSound
<1>2. sent = <<>> /\ ToSet(sent) = {}
  BY DEF Quiet, ToSet
<1>3. ASSUME ~refused PROVE alive = server.producers /\ muted = server.muted
  <2>1. Agree(sent, alive, muted, server.producers, server.muted) /\ muted \subseteq alive
    BY <1>3 DEF IInv, ServerSound, Base, TypeOK
  <2>2. alive = server.producers
    BY <1>2, <2>1 DEF Agree
  <2>3. \A p \in alive : p \in muted <=> p \in server.muted
    BY <1>2, <2>1 DEF Agree
  <2>4. server.muted \subseteq alive
    BY <2>1, <2>2 DEF Agree
  <2> QED BY <2>1, <2>2, <2>3, <2>4
<1>4. ASSUME ~refused, ~overlapped PROVE muted = shownMuted \cap alive
  <2>1. \A p \in alive : p \in shownMuted <=> p \in server.muted
    BY <1>4 DEF IInv, StoreSound
  <2>2. muted = server.muted /\ muted \subseteq alive
    BY <1>3, <1>4 DEF IInv, Base, TypeOK
  <2> QED BY <2>1, <2>2
<1> QED BY <1>1, <1>3, <1>4 DEF ServerAgrees

\* In every state the requests that wait make up the difference between the client and the
\* server (the functions that await a request before they change a slot or a pause).
THEOREM ClientInStep == Spec => []IInv
<1>1. Init => IInv
  BY IInvAtFirst
<1>2. IInv /\ [Next]_vars => IInv'
  BY IInvStep
<1> QED BY <1>1, <1>2, PTL DEF Spec

\* When no answer is missing, and the server refused nothing that it could have done, client
\* and server have the same Producers, the same of them and of the Consumers paused; and the
\* store shows it, unless calls for a medium overlapped.
THEOREM ServerWillAgree == Spec => []ServerAgrees
<1>1. IInv => ServerAgrees
  BY IInvAgrees DEF ServerAgrees
<1> QED BY <1>1, ClientInStep, PTL
=============================================================================
