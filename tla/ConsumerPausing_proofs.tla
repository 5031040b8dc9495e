------------------------ MODULE ConsumerPausing_proofs ------------------------
(***************************************************************************)
(* Proofs about ConsumerPausing, for every set of Consumers and any number *)
(* of pauses and of messages under way.  What a channel will do to one     *)
(* side is told by the last message of a kind in it: that message agrees   *)
(* with the other side, and when there is none the two sides agree.        *)
(***************************************************************************)
EXTENDS ConsumerPausing, SequenceTheorems, FiniteSetTheorems, TLAPS

DownType == {"newConsumer", "consumerPaused", "consumerResumed", "consumerClosed"}
UpType == {"accept", "pauseConsumer", "resumeConsumer", "setConsumerPreferredLayers"}
DownMessage == [type: DownType, id: Consumer, paused: BOOLEAN]
UpMessage == [type: UpType, id: Consumer, layers: Layers]

\* The messages by what they are about.
New == {"newConsumer"}
Closing == {"consumerClosed"}
Pausing == {"accept", "pauseConsumer", "resumeConsumer"}
Wishing == {"setConsumerPreferredLayers"}

-----------------------------------------------------------------------------
(* Channels.                                                               *)

\* Where q has messages about c whose type is in T, and the last one of them.
About(q, c, T) == {i \in 1 .. Len(q) : q[i].id = c /\ q[i].type \in T}
Matches(m, c, T) == m.id = c /\ m.type \in T
Mentions(q, c, T) == About(q, c, T) # {}
LastMessage(q, c, T, m) ==
  \E i \in About(q, c, T) : q[i] = m /\ \A j \in About(q, c, T) : j <= i

\* c is created once, and before it is closed.
Ordered(q, c) ==
  \A i \in About(q, c, New), j \in About(q, c, New \cup Closing) : i <= j

-----------------------------------------------------------------------------
(* The inductive invariant, for each Consumer.                             *)

\* The life of c as the channel down tells it.
DownSound(c) ==
  /\ Ordered(down, c)
  /\ Mentions(down, c, New) => c \notin known \cup refused
  /\ c \in producers => ~Mentions(down, c, Closing)
  /\ c \in producers \ server =>
       ~Mentions(down, c, DownType) /\ c \notin known \cup refused
  /\ c \in server => Mentions(down, c, New) \/ c \in known \cup refused
  /\ c \notin producers /\ (c \in known \/ Mentions(down, c, New)) =>
       Mentions(down, c, Closing)

\* Whether the client will show the Producer of c as paused once it has handled m.
ShowsPause(m) == IF m.type = "newConsumer" THEN m.paused ELSE m.type = "consumerPaused"

RemoteSound(c) ==
  c \in server =>
    /\ \A m \in DownMessage : LastMessage(down, c, DownType, m) =>
         (ShowsPause(m) <=> c \in producerPaused)
    /\ c \in known /\ ~Mentions(down, c, DownType) =>
         (c \in remotely <=> c \in producerPaused)

\* Nobody asks for anything about a Consumer that the client does not have.
UpSound(c) ==
  c \in producers \ known =>
    ~Mentions(up, c, UpType) /\ (c \in server => c \in paused)

LocalSound(c) ==
  c \in server \cap known =>
    /\ \A m \in UpMessage : LastMessage(up, c, Pausing, m) =>
         (m.type = "pauseConsumer" <=> c \in locally)
    /\ ~Mentions(up, c, Pausing) => (c \in paused <=> c \in locally)

LayersSound(c) ==
  c \in producers =>
    /\ \A m \in UpMessage : LastMessage(up, c, Wishing, m) => m.layers = wished[c]
    /\ ~Mentions(up, c, Wishing) => layers[c] = wished[c]

Sound(c) ==
  DownSound(c) /\ RemoteSound(c) /\ UpSound(c) /\ LocalSound(c) /\ LayersSound(c)

Agreement ==
  /\ TypeOK
  /\ IsFiniteSet(known)
  /\ server \subseteq producers
  /\ \A c \in Consumer : Sound(c)

-----------------------------------------------------------------------------
(* Lemmas about channels.                                                  *)

\* A channel that gets one more message.
LEMMA AppendedMessage ==
  ASSUME NEW M, NEW q \in Seq(M), NEW e \in M, NEW c, NEW T
  PROVE  /\ Append(q, e) \in Seq(M)
         /\ Mentions(Append(q, e), c, T) <=> Mentions(q, c, T) \/ Matches(e, c, T)
         /\ \A m : LastMessage(Append(q, e), c, T, m) <=>
                   IF Matches(e, c, T) THEN m = e ELSE LastMessage(q, c, T, m)
<1>1. /\ Append(q, e) \in Seq(M) /\ Len(Append(q, e)) = Len(q) + 1 /\ Len(q) \in Nat
      /\ \A i \in 1 .. Len(q) : Append(q, e)[i] = q[i]
      /\ Append(q, e)[Len(q) + 1] = e
  BY AppendProperties, LenProperties
<1>2. About(Append(q, e), c, T) =
        About(q, c, T) \cup (IF Matches(e, c, T) THEN {Len(q) + 1} ELSE {})
  BY <1>1 DEF About, Matches
<1>3. About(q, c, T) \subseteq 1 .. Len(q)
  BY DEF About
<1>4. Mentions(Append(q, e), c, T) <=> Mentions(q, c, T) \/ Matches(e, c, T)
  BY <1>2 DEF Mentions
<1>5. ASSUME NEW m
      PROVE  LastMessage(Append(q, e), c, T, m) <=>
               IF Matches(e, c, T) THEN m = e ELSE LastMessage(q, c, T, m)
  <2>1. CASE Matches(e, c, T)
    BY <2>1, <1>1, <1>2, <1>3 DEF LastMessage
  <2>2. CASE ~Matches(e, c, T)
    BY <2>2, <1>1, <1>2, <1>3 DEF LastMessage
  <2> QED BY <2>1, <2>2
<1> QED BY <1>1, <1>4, <1>5

\* A channel from which the first message is taken.
LEMMA TakenMessage ==
  ASSUME NEW M, NEW q \in Seq(M), q # <<>>, NEW c, NEW T
  PROVE  /\ Head(q) \in M /\ Tail(q) \in Seq(M)
         /\ Mentions(q, c, T) <=> Mentions(Tail(q), c, T) \/ Matches(Head(q), c, T)
         /\ \A m : LastMessage(Tail(q), c, T, m) => LastMessage(q, c, T, m)
         /\ Matches(Head(q), c, T) /\ ~Mentions(Tail(q), c, T) =>
              LastMessage(q, c, T, Head(q))
<1>1. /\ Head(q) \in M /\ Tail(q) \in Seq(M) /\ Len(Tail(q)) = Len(q) - 1
      /\ Len(q) \in Nat \ {0} /\ Head(q) = q[1]
      /\ \A i \in 1 .. Len(Tail(q)) : Tail(q)[i] = q[i + 1]
  BY HeadTailProperties, EmptySeq, LenProperties
<1>2. \A i \in Int : i \in About(Tail(q), c, T) <=> i >= 1 /\ i + 1 \in About(q, c, T)
  BY <1>1 DEF About
<1>3. About(q, c, T) \subseteq 1 .. Len(q) /\ About(Tail(q), c, T) \subseteq 1 .. Len(q) - 1
  BY <1>1 DEF About
<1>4. 1 \in About(q, c, T) <=> Matches(Head(q), c, T)
  BY <1>1 DEF About, Matches
<1>5. \A i \in About(q, c, T) : i = 1 \/ i - 1 \in About(Tail(q), c, T)
  BY <1>1, <1>2, <1>3
<1>6. Mentions(q, c, T) <=> Mentions(Tail(q), c, T) \/ Matches(Head(q), c, T)
  <2>1. ASSUME Mentions(Tail(q), c, T) PROVE Mentions(q, c, T)
    <3>1. PICK i \in About(Tail(q), c, T) : TRUE
      BY <2>1 DEF Mentions
    <3>2. i + 1 \in About(q, c, T)
      BY <1>1, <1>2, <1>3
    <3> QED BY <3>2 DEF Mentions
  <2>2. ASSUME Matches(Head(q), c, T) PROVE Mentions(q, c, T)
    BY <2>2, <1>4 DEF Mentions
  <2>3. ASSUME Mentions(q, c, T), ~Matches(Head(q), c, T) PROVE Mentions(Tail(q), c, T)
    BY <2>3, <1>4, <1>5 DEF Mentions
  <2> QED BY <2>1, <2>2, <2>3
<1>7. ASSUME NEW m, LastMessage(Tail(q), c, T, m) PROVE LastMessage(q, c, T, m)
  <2>1. PICK i \in About(Tail(q), c, T) :
               Tail(q)[i] = m /\ \A j \in About(Tail(q), c, T) : j <= i
    BY <1>7 DEF LastMessage
  <2>2. i + 1 \in About(q, c, T) /\ q[i + 1] = m /\ i \in Nat
    BY <2>1, <1>1, <1>2, <1>3
  <2>3. ASSUME NEW j \in About(q, c, T) PROVE j <= i + 1
    BY <2>1, <2>2, <1>3, <1>5
  <2> QED BY <2>2, <2>3 DEF LastMessage
<1>8. ASSUME Matches(Head(q), c, T), ~Mentions(Tail(q), c, T)
      PROVE  LastMessage(q, c, T, Head(q))
  BY <1>8, <1>1, <1>4, <1>5 DEF LastMessage, Mentions
<1> QED BY <1>1, <1>6, <1>7, <1>8

\* A channel that gets several messages at once.
LEMMA ConcatenatedMessages ==
  ASSUME NEW M, NEW q \in Seq(M), NEW s \in Seq(M), NEW c, NEW T
  PROVE  /\ q \o s \in Seq(M)
         /\ Mentions(q \o s, c, T) <=> Mentions(q, c, T) \/ Mentions(s, c, T)
         /\ \A m : LastMessage(q \o s, c, T, m) <=>
              IF Mentions(s, c, T) THEN LastMessage(s, c, T, m)
                                   ELSE LastMessage(q, c, T, m)
<1>1. /\ q \o s \in Seq(M) /\ Len(q \o s) = Len(q) + Len(s)
      /\ Len(q) \in Nat /\ Len(s) \in Nat
      /\ \A i \in 1 .. Len(q) + Len(s) :
           (q \o s)[i] = IF i <= Len(q) THEN q[i] ELSE s[i - Len(q)]
  BY ConcatProperties, LenProperties
<1>2. \A i \in 1 .. Len(q) : i \in About(q \o s, c, T) <=> i \in About(q, c, T)
  BY <1>1 DEF About
<1>3. \A i \in 1 .. Len(s) : Len(q) + i \in About(q \o s, c, T) <=> i \in About(s, c, T)
  BY <1>1 DEF About
<1>4. /\ About(q, c, T) \subseteq 1 .. Len(q) /\ About(s, c, T) \subseteq 1 .. Len(s)
      /\ About(q \o s, c, T) \subseteq 1 .. Len(q) + Len(s)
  BY <1>1 DEF About
<1>5. \A i \in About(q \o s, c, T) :
        i \in About(q, c, T) \/ (i > Len(q) /\ i - Len(q) \in About(s, c, T))
  BY <1>1, <1>2, <1>3, <1>4
<1>6. Mentions(q \o s, c, T) <=> Mentions(q, c, T) \/ Mentions(s, c, T)
  <2>1. ASSUME NEW i \in About(q, c, T) PROVE i \in About(q \o s, c, T)
    BY <1>2, <1>4
  <2>2. ASSUME NEW i \in About(s, c, T) PROVE Len(q) + i \in About(q \o s, c, T)
    BY <1>3, <1>4
  <2> QED BY <2>1, <2>2, <1>5 DEF Mentions
<1>7. ASSUME NEW m, Mentions(s, c, T)
      PROVE  LastMessage(q \o s, c, T, m) <=> LastMessage(s, c, T, m)
  <2>1. ASSUME LastMessage(q \o s, c, T, m) PROVE LastMessage(s, c, T, m)
    <3>1. PICK i \in About(q \o s, c, T) :
                 (q \o s)[i] = m /\ \A j \in About(q \o s, c, T) : j <= i
      BY <2>1 DEF LastMessage
    <3>2. PICK k \in About(s, c, T) : TRUE
      BY <1>7 DEF Mentions
    <3>3. Len(q) + k <= i
      BY <3>1, <3>2, <1>3, <1>4
    <3>4. i - Len(q) \in About(s, c, T) /\ s[i - Len(q)] = m
      BY <3>1, <3>3, <1>1, <1>4, <1>5
    <3>5. ASSUME NEW j \in About(s, c, T) PROVE j <= i - Len(q)
      <4>1. Len(q) + j <= i
        BY <3>1, <1>3, <1>4
      <4> QED BY <4>1, <3>4, <1>1, <1>4
    <3> QED BY <3>4, <3>5 DEF LastMessage
  <2>2. ASSUME LastMessage(s, c, T, m) PROVE LastMessage(q \o s, c, T, m)
    <3>1. PICK i \in About(s, c, T) : s[i] = m /\ \A j \in About(s, c, T) : j <= i
      BY <2>2 DEF LastMessage
    <3>2. Len(q) + i \in About(q \o s, c, T) /\ (q \o s)[Len(q) + i] = m /\ i \in 1 .. Len(s)
      BY <3>1, <1>1, <1>3, <1>4
    <3>3. ASSUME NEW j \in About(q \o s, c, T) PROVE j <= Len(q) + i
      BY <3>1, <3>2, <1>1, <1>4, <1>5
    <3> QED BY <3>2, <3>3 DEF LastMessage
  <2> QED BY <2>1, <2>2
<1>8. ASSUME NEW m, ~Mentions(s, c, T)
      PROVE  LastMessage(q \o s, c, T, m) <=> LastMessage(q, c, T, m)
  <2>1. About(q \o s, c, T) = About(q, c, T)
    BY <1>8, <1>1, <1>2, <1>4, <1>5 DEF Mentions
  <2>2. \A i \in About(q, c, T) : (q \o s)[i] = q[i]
    BY <1>1, <1>4
  <2> QED BY <2>1, <2>2 DEF LastMessage
<1> QED BY <1>1, <1>6, <1>7, <1>8

\* The order of creation and closure, when messages come and go.
LEMMA OrderedAppended ==
  ASSUME NEW M, NEW q \in Seq(M), NEW e \in M, NEW c, Ordered(q, c),
         Matches(e, c, New) => ~Mentions(q, c, New \cup Closing)
  PROVE  Ordered(Append(q, e), c)
<1>1. /\ Len(Append(q, e)) = Len(q) + 1 /\ Len(q) \in Nat
      /\ \A i \in 1 .. Len(q) : Append(q, e)[i] = q[i]
      /\ Append(q, e)[Len(q) + 1] = e
  BY AppendProperties, LenProperties
<1>2. \A T : About(Append(q, e), c, T) =
              About(q, c, T) \cup (IF Matches(e, c, T) THEN {Len(q) + 1} ELSE {})
  BY <1>1 DEF About, Matches
<1>3. \A T : About(q, c, T) \subseteq 1 .. Len(q)
  BY DEF About
<1>4. About(q, c, New) \subseteq About(q, c, New \cup Closing)
  BY DEF About
<1>5. ASSUME NEW i \in About(Append(q, e), c, New),
             NEW j \in About(Append(q, e), c, New \cup Closing)
      PROVE  i <= j
  <2>1. i \in 1 .. Len(q) + 1 /\ j \in 1 .. Len(q) + 1
    BY <1>1 DEF About
  <2>2. CASE j = Len(q) + 1
    BY <2>1, <2>2, <1>1
  <2>3. CASE j # Len(q) + 1
    <3>1. j \in About(q, c, New \cup Closing)
      BY <2>3, <1>2
    <3>2. i \in About(q, c, New)
      BY <3>1, <1>2 DEF Mentions
    <3> QED BY <3>1, <3>2 DEF Ordered
  <2> QED BY <2>2, <2>3
<1> QED BY <1>5 DEF Ordered

LEMMA OrderedTaken ==
  ASSUME NEW M, NEW q \in Seq(M), q # <<>>, NEW c, Ordered(q, c)
  PROVE  /\ Ordered(Tail(q), c)
         /\ Matches(Head(q), c, New \cup Closing) => ~Mentions(Tail(q), c, New)
<1>1. /\ Len(Tail(q)) = Len(q) - 1 /\ Len(q) \in Nat \ {0} /\ Head(q) = q[1]
      /\ \A i \in 1 .. Len(Tail(q)) : Tail(q)[i] = q[i + 1]
  BY HeadTailProperties, EmptySeq, LenProperties
<1>2. \A T : \A i \in About(Tail(q), c, T) : i \in Nat \ {0} /\ i + 1 \in About(q, c, T)
  BY <1>1 DEF About
<1>3. Matches(Head(q), c, New \cup Closing) => 1 \in About(q, c, New \cup Closing)
  BY <1>1 DEF About, Matches
<1>4. ASSUME NEW i \in About(Tail(q), c, New), NEW j \in About(Tail(q), c, New \cup Closing)
      PROVE  i <= j
  <2>1. i + 1 <= j + 1 /\ i \in Nat /\ j \in Nat
    BY <1>2 DEF Ordered
  <2> QED BY <2>1
<1>5. ASSUME Matches(Head(q), c, New \cup Closing), NEW i \in About(Tail(q), c, New)
      PROVE  FALSE
  <2>1. i + 1 <= 1 /\ i \in Nat \ {0}
    BY <1>2, <1>3, <1>5 DEF Ordered
  <2> QED BY <2>1
<1> QED BY <1>4, <1>5 DEF Ordered, Mentions

\* An empty channel says nothing.
LEMMA EmptyChannel == ASSUME NEW c, NEW T PROVE ~Mentions(<<>>, c, T)
<1>1. Len(<<>>) = 0
  BY EmptySeq
<1> QED BY <1>1 DEF Mentions, About

\* Messages(): one about each Consumer of the set, and about no other.
LEMMA ListedMessages ==
  ASSUME NEW type \in UpType, NEW S \in SUBSET Consumer, IsFiniteSet(S),
         wished \in [Consumer -> Layers], NEW c, NEW T
  PROVE  /\ Messages(type, S) \in Seq(UpMessage)
         /\ Mentions(Messages(type, S), c, T) <=> c \in S /\ type \in T
         /\ \A m : LastMessage(Messages(type, S), c, T, m) => m = Up(type, c)
<1> DEFINE n == Cardinality(S)
           q == Messages(type, S)
<1>1. n \in Nat /\ IsFiniteSet(1 .. n) /\ Cardinality(1 .. n) = n
  <2>1. n \in Nat
    BY FS_CardinalityType
  <2>2. IsFiniteSet(1 .. n) /\ Cardinality(1 .. n) = IF 1 > n THEN 0 ELSE n - 1 + 1
    BY <2>1, FS_Interval
  <2> QED BY <2>1, <2>2
<1>2. /\ SetToSeq(S) \in [1 .. n -> S]
      /\ \A d \in S : \E i \in 1 .. n : SetToSeq(S)[i] = d
  <2>1. \E f \in [1 .. n -> S] : IsInjective(f)
    BY FS_CardinalityType DEF ExistsBijection, Bijection, Injection
  <2>2. SetToSeq(S) \in [1 .. n -> S] /\ IsInjective(SetToSeq(S))
    BY <2>1 DEF SetToSeq
  <2>3. SetToSeq(S) \in Injection(1 .. n, S)
    BY <2>2 DEF Injection
  <2>4. SetToSeq(S) \in Surjection(1 .. n, S)
    BY <1>1, <2>3, FS_Injection
  <2> QED BY <2>2, <2>4 DEF Surjection
<1>3. \A d \in Consumer : Up(type, d) \in UpMessage /\ Up(type, d).id = d /\ Up(type, d).type = type
  BY DEF Up, UpMessage
<1>4. /\ q = [i \in 1 .. n |-> Up(type, SetToSeq(S)[i])]
      /\ \A i \in 1 .. n : q[i] = Up(type, SetToSeq(S)[i]) /\ SetToSeq(S)[i] \in Consumer
  BY <1>2 DEF Messages
<1>5. q \in Seq(UpMessage) /\ Len(q) = n
  <2>1. \A i \in 1 .. n : q[i] \in UpMessage
    BY <1>3, <1>4
  <2>2. q \in [1 .. n -> UpMessage]
    BY <1>4, <2>1
  <2> QED BY <1>1, <2>2, SeqDef, LenProperties
<1> HIDE DEF n, q
<1>6. About(q, c, T) = {i \in 1 .. n : SetToSeq(S)[i] = c /\ type \in T}
  <2>1. \A i \in 1 .. n : q[i].id = SetToSeq(S)[i] /\ q[i].type = type
    BY <1>3, <1>4
  <2> QED BY <1>5, <2>1 DEF About
<1>7. Mentions(q, c, T) <=> c \in S /\ type \in T
  BY <1>2, <1>6 DEF Mentions
<1>8. ASSUME NEW m, LastMessage(q, c, T, m) PROVE m = Up(type, c)
  <2>1. PICK i \in About(q, c, T) : q[i] = m
    BY <1>8 DEF LastMessage
  <2>2. i \in 1 .. n /\ SetToSeq(S)[i] = c
    BY <1>6
  <2> QED BY <1>4, <2>1, <2>2
<1> QED BY <1>5, <1>7, <1>8 DEF q

-----------------------------------------------------------------------------
(* What the invariant says of a Consumer that a step leaves alone, on each *)
(* side.                                                                   *)

\* The initial states satisfy the invariant: nothing is there, nothing is under way.
LEMMA InitAgreement == ASSUME Init PROVE Agreement
<1>1. TypeOK
  <2>1. <<>> \in Seq(DownMessage) /\ <<>> \in Seq(UpMessage)
    BY EmptySeq
  <2>2. down \in Seq([type: {"newConsumer", "consumerPaused", "consumerResumed",
                            "consumerClosed"}, id: Consumer, paused: BOOLEAN])
    BY <2>1 DEF Init, DownMessage, DownType
  <2>3. up \in Seq([type: {"accept", "pauseConsumer", "resumeConsumer",
                          "setConsumerPreferredLayers"}, id: Consumer, layers: Layers])
    BY <2>1 DEF Init, UpMessage, UpType
  <2>4. changes \in 0 .. MaxChanges
    BY ConsumersAssumption DEF Init
  <2>5. layers \in [Consumer -> Layers] /\ wished \in [Consumer -> Layers]
    BY DEF Init, Layers
  <2> QED BY <2>2, <2>3, <2>4, <2>5 DEF Init, TypeOK
<1>2. IsFiniteSet(known) /\ server \subseteq producers
  BY FS_EmptySet DEF Init
<1>3. ASSUME NEW c \in Consumer PROVE Sound(c)
  <2>1. /\ \A T : ~Mentions(down, c, T) /\ ~Mentions(up, c, T)
        /\ About(down, c, New) = {}
    BY EmptyChannel DEF Init, Mentions
  <2>2. \A T, m : ~LastMessage(up, c, T, m)
    BY <2>1 DEF LastMessage, Mentions
  <2>3. DownSound(c) /\ RemoteSound(c)
    BY <2>1 DEF Init, DownSound, RemoteSound, Ordered
  <2>4. UpSound(c) /\ LocalSound(c) /\ LayersSound(c)
    BY <2>1, <2>2 DEF Init, UpSound, LocalSound, LayersSound
  <2> QED BY <2>3, <2>4 DEF Sound
<1> QED BY <1>1, <1>2, <1>3 DEF Agreement

\* The types of the channels, by name.
LEMMA Channels ==
  ASSUME TypeOK
  PROVE  down \in Seq(DownMessage) /\ up \in Seq(UpMessage)
BY DEF TypeOK, DownMessage, DownType, UpMessage, UpType

\* The lemmas about channels, for the channel down.
LEMMA DownAppended ==
  ASSUME TypeOK, NEW e \in DownMessage, down' = Append(down, e), NEW c, NEW T
  PROVE  /\ Mentions(down', c, T) <=> Mentions(down, c, T) \/ Matches(e, c, T)
         /\ \A m : LastMessage(down', c, T, m) <=>
                   IF Matches(e, c, T) THEN m = e ELSE LastMessage(down, c, T, m)
<1>1. down \in Seq(DownMessage)
  BY Channels
<1>2. /\ Mentions(Append(down, e), c, T) <=> Mentions(down, c, T) \/ Matches(e, c, T)
      /\ \A m : LastMessage(Append(down, e), c, T, m) <=>
                IF Matches(e, c, T) THEN m = e ELSE LastMessage(down, c, T, m)
  BY <1>1, AppendedMessage
<1> QED BY <1>2

LEMMA DownTaken ==
  ASSUME TypeOK, down # <<>>, down' = Tail(down), NEW c, NEW T
  PROVE  /\ Head(down) \in DownMessage
         /\ Mentions(down, c, T) <=> Mentions(down', c, T) \/ Matches(Head(down), c, T)
         /\ \A m : LastMessage(down', c, T, m) => LastMessage(down, c, T, m)
         /\ Matches(Head(down), c, T) /\ ~Mentions(down', c, T) =>
              LastMessage(down, c, T, Head(down))
<1>1. down \in Seq(DownMessage)
  BY Channels
<1>2. /\ Head(down) \in DownMessage
      /\ Mentions(down, c, T) <=> Mentions(Tail(down), c, T) \/ Matches(Head(down), c, T)
      /\ \A m : LastMessage(Tail(down), c, T, m) => LastMessage(down, c, T, m)
      /\ Matches(Head(down), c, T) /\ ~Mentions(Tail(down), c, T) =>
           LastMessage(down, c, T, Head(down))
  BY <1>1, TakenMessage
<1> QED BY <1>2

\* And for the channel up.
LEMMA UpConcatenated ==
  ASSUME TypeOK, NEW s \in Seq(UpMessage), up' = up \o s, NEW c, NEW T
  PROVE  /\ Mentions(up', c, T) <=> Mentions(up, c, T) \/ Mentions(s, c, T)
         /\ \A m : LastMessage(up', c, T, m) <=>
              IF Mentions(s, c, T) THEN LastMessage(s, c, T, m)
                                   ELSE LastMessage(up, c, T, m)
<1>1. up \in Seq(UpMessage)
  BY Channels
<1>2. /\ Mentions(up \o s, c, T) <=> Mentions(up, c, T) \/ Mentions(s, c, T)
      /\ \A m : LastMessage(up \o s, c, T, m) <=>
           IF Mentions(s, c, T) THEN LastMessage(s, c, T, m)
                                ELSE LastMessage(up, c, T, m)
  BY <1>1, ConcatenatedMessages
<1> QED BY <1>2

LEMMA UpAppended ==
  ASSUME TypeOK, NEW e \in UpMessage, up' = Append(up, e), NEW c, NEW T
  PROVE  /\ Mentions(up', c, T) <=> Mentions(up, c, T) \/ Matches(e, c, T)
         /\ \A m : LastMessage(up', c, T, m) <=>
                   IF Matches(e, c, T) THEN m = e ELSE LastMessage(up, c, T, m)
<1>1. up \in Seq(UpMessage)
  BY Channels
<1>2. /\ Mentions(Append(up, e), c, T) <=> Mentions(up, c, T) \/ Matches(e, c, T)
      /\ \A m : LastMessage(Append(up, e), c, T, m) <=>
                IF Matches(e, c, T) THEN m = e ELSE LastMessage(up, c, T, m)
  BY <1>1, AppendedMessage
<1> QED BY <1>2

LEMMA UpTaken ==
  ASSUME TypeOK, up # <<>>, up' = Tail(up), NEW c, NEW T
  PROVE  /\ Head(up) \in UpMessage
         /\ Mentions(up, c, T) <=> Mentions(up', c, T) \/ Matches(Head(up), c, T)
         /\ \A m : LastMessage(up', c, T, m) => LastMessage(up, c, T, m)
         /\ Matches(Head(up), c, T) /\ ~Mentions(up', c, T) =>
              LastMessage(up, c, T, Head(up))
<1>1. up \in Seq(UpMessage)
  BY Channels
<1>2. /\ Head(up) \in UpMessage
      /\ Mentions(up, c, T) <=> Mentions(Tail(up), c, T) \/ Matches(Head(up), c, T)
      /\ \A m : LastMessage(Tail(up), c, T, m) => LastMessage(up, c, T, m)
      /\ Matches(Head(up), c, T) /\ ~Mentions(Tail(up), c, T) =>
           LastMessage(up, c, T, Head(up))
  BY <1>1, TakenMessage
<1> QED BY <1>2

\* Neither the channel down nor what it is about changes for c.
LEMMA DownKept ==
  ASSUME NEW c \in Consumer, DownSound(c), RemoteSound(c), Ordered(down', c),
         \A T : Mentions(down', c, T) <=> Mentions(down, c, T),
         \A T, m : LastMessage(down', c, T, m) => LastMessage(down, c, T, m),
         c \in producers' <=> c \in producers, c \in server' <=> c \in server,
         c \in known' <=> c \in known, c \in refused' <=> c \in refused,
         c \in producerPaused' <=> c \in producerPaused,
         c \in remotely' <=> c \in remotely
  PROVE  DownSound(c)' /\ RemoteSound(c)'
<1>1. DownSound(c)'
  BY DEF DownSound
<1>2. RemoteSound(c)'
  BY DEF RemoteSound
<1> QED BY <1>1, <1>2

\* Neither the channel up nor what it is about changes for c.
LEMMA UpKept ==
  ASSUME NEW c \in Consumer, UpSound(c), LocalSound(c), LayersSound(c),
         \A T : Mentions(up', c, T) <=> Mentions(up, c, T),
         \A T, m : LastMessage(up', c, T, m) => LastMessage(up, c, T, m),
         c \in producers' <=> c \in producers, c \in server' <=> c \in server,
         c \in known' <=> c \in known, c \in paused' <=> c \in paused,
         c \in locally' <=> c \in locally,
         layers'[c] = layers[c], wished'[c] = wished[c]
  PROVE  UpSound(c)' /\ LocalSound(c)' /\ LayersSound(c)'
<1>1. UpSound(c)'
  BY DEF UpSound
<1>2. LocalSound(c)'
  BY DEF LocalSound
<1>3. LayersSound(c)'
  BY DEF LayersSound
<1> QED BY <1>1, <1>2, <1>3

\* When the Producer of c is gone, what is under way to the server is idle.
LEMMA UpIdle ==
  ASSUME NEW c \in Consumer, c \notin producers', c \notin server'
  PROVE  UpSound(c)' /\ LocalSound(c)' /\ LayersSound(c)'
BY DEF UpSound, LocalSound, LayersSound

\* A message down about one Consumer says nothing of the others.
LEMMA DownOfAnother ==
  ASSUME TypeOK, NEW c \in Consumer, DownSound(c),
         NEW e \in DownMessage, e.id # c, down' = Append(down, e)
  PROVE  /\ Ordered(down', c)
         /\ \A T : Mentions(down', c, T) <=> Mentions(down, c, T)
         /\ \A T, m : LastMessage(down', c, T, m) => LastMessage(down, c, T, m)
<1>1. \A T : ~Matches(e, c, T)
  BY DEF Matches
<1>2. down \in Seq(DownMessage)
  BY Channels
<1>3. Ordered(down', c)
  BY <1>1, <1>2, OrderedAppended DEF DownSound
<1> QED BY <1>1, <1>3, DownAppended

\* Nor does taking one.
LEMMA DownTakenOfAnother ==
  ASSUME TypeOK, NEW c \in Consumer, DownSound(c), down # <<>>,
         Head(down).id # c, down' = Tail(down)
  PROVE  /\ Ordered(down', c)
         /\ \A T : Mentions(down', c, T) <=> Mentions(down, c, T)
         /\ \A T, m : LastMessage(down', c, T, m) => LastMessage(down, c, T, m)
<1>1. \A T : ~Matches(Head(down), c, T)
  BY DEF Matches
<1>2. down \in Seq(DownMessage)
  BY Channels
<1>3. Ordered(down', c)
  BY <1>2, OrderedTaken DEF DownSound
<1> QED BY <1>1, <1>3, DownTaken

\* Messages up that are not about c.
LEMMA UpOfOthers ==
  ASSUME TypeOK, NEW c \in Consumer, NEW s \in Seq(UpMessage),
         ~Mentions(s, c, UpType), up' = up \o s
  PROVE  /\ \A T : Mentions(up', c, T) <=> Mentions(up, c, T)
         /\ \A T, m : LastMessage(up', c, T, m) => LastMessage(up, c, T, m)
<1>1. ASSUME NEW T PROVE ~Mentions(s, c, T)
  <2>1. \A i \in 1 .. Len(s) : s[i] \in UpMessage
    BY ElementOfSeq
  <2>2. \A i \in 1 .. Len(s) : s[i].type \in UpType
    BY <2>1 DEF UpMessage
  <2> QED BY <2>2 DEF Mentions, About
<1> QED BY <1>1, UpConcatenated

-----------------------------------------------------------------------------
(* The steps of the server.                                                *)

LEMMA ConsumeSound ==
  ASSUME Agreement, NEW d \in Consumer, Consume(d), NEW c \in Consumer
  PROVE  Sound(c)'
<1> DEFINE e == Down("newConsumer", d)
<1>1. TypeOK /\ DownSound(c) /\ RemoteSound(c) /\ UpSound(c) /\ LocalSound(c) /\ LayersSound(c)
  BY DEF Agreement, Sound
<1>2. /\ e \in DownMessage /\ e.id = d /\ e.type = "newConsumer"
      /\ e.paused <=> d \in producerPaused
  <2>1. e \in DownMessage /\ e.id = d /\ e.type = "newConsumer"
    BY DEF Down, DownMessage, DownType
  <2>2. e.paused = (d \in producerPaused)
    BY DEF Down
  <2> QED BY <2>1, <2>2
<1>3. down' = Append(down, e) /\ down \in Seq(DownMessage) /\ up' = up
  BY <1>1, Channels DEF Consume
<1> HIDE DEF e
<1>4. CASE c # d
  <2>1. DownSound(c)' /\ RemoteSound(c)'
    <3>1. /\ Ordered(down', c)
          /\ \A T : Mentions(down', c, T) <=> Mentions(down, c, T)
          /\ \A T, m : LastMessage(down', c, T, m) => LastMessage(down, c, T, m)
      BY <1>1, <1>2, <1>3, <1>4, DownOfAnother
    <3>2. /\ producers' = producers /\ server' = server \cup {d} /\ known' = known
          /\ refused' = refused /\ producerPaused' = producerPaused
          /\ remotely' = remotely
      BY DEF Consume, source, client
    <3> QED BY <1>1, <1>4, <3>1, <3>2, DownKept
  <2>2. UpSound(c)' /\ LocalSound(c)' /\ LayersSound(c)'
    BY <1>1, <1>3, <1>4, UpKept DEF Consume, source, client
  <2> QED BY <2>1, <2>2 DEF Sound
<1>5. CASE c = d
  <2>1. ASSUME NEW T PROVE ~Mentions(down, c, T)
    BY <1>3, <1>5 DEF Consume, Mentions, About
  <2>2. /\ Matches(e, c, New) /\ Matches(e, c, DownType) /\ ~Matches(e, c, Closing)
    BY <1>2, <1>5 DEF Matches, New, DownType, Closing
  <2>3. Ordered(down', c)
    BY <1>1, <1>2, <1>3, <2>1, OrderedAppended DEF DownSound
  <2>4. Mentions(down', c, New) /\ Mentions(down', c, DownType) /\ ~Mentions(down', c, Closing)
    BY <1>1, <1>2, <1>3, <2>1, <2>2, DownAppended
  <2>5. \A m : LastMessage(down', c, DownType, m) => m = e
    BY <1>1, <1>2, <1>3, <2>2, DownAppended
  <2>6. DownSound(c)'
    BY <1>5, <2>3, <2>4 DEF Consume, DownSound, source, client
  <2>7. RemoteSound(c)'
    BY <1>2, <1>5, <2>4, <2>5 DEF Consume, RemoteSound, ShowsPause, source
  <2>8. UpSound(c)' /\ LocalSound(c)' /\ LayersSound(c)'
    BY <1>1, <1>5 DEF Consume, UpSound, LocalSound, LayersSound, source, client
  <2> QED BY <2>6, <2>7, <2>8 DEF Sound
<1> QED BY <1>4, <1>5

\* A Producer that is paused or resumed, whose Consumer is told.
LEMMA NotifiedSound ==
  ASSUME Agreement, NEW d \in Consumer, NEW c \in Consumer,
         NEW type \in {"consumerPaused", "consumerResumed"}, Notified(type, d),
         producerPaused' = IF type = "consumerPaused" THEN producerPaused \cup {d}
                                                      ELSE producerPaused \ {d},
         UNCHANGED <<producers, peer, up, client>>
  PROVE  Sound(c)'
<1> DEFINE e == Down(type, d)
<1>1. TypeOK /\ DownSound(c) /\ RemoteSound(c) /\ UpSound(c) /\ LocalSound(c) /\ LayersSound(c)
  BY DEF Agreement, Sound
<1>2. e \in DownMessage /\ e.id = d /\ e.type = type
  BY DEF Down, DownMessage, DownType
<1>3. down \in Seq(DownMessage) /\ (d \in server => down' = Append(down, e))
      /\ (d \notin server => down' = down)
  BY <1>1, Channels DEF Notified
<1>4. /\ producers' = producers /\ server' = server /\ paused' = paused /\ layers' = layers
      /\ up' = up /\ known' = known /\ locally' = locally /\ remotely' = remotely
      /\ wished' = wished /\ refused' = refused
  BY DEF peer, client
<1> HIDE DEF e
<1>5. UpSound(c)' /\ LocalSound(c)' /\ LayersSound(c)'
  BY <1>1, <1>4 DEF UpSound, LocalSound, LayersSound
<1>6. CASE c # d /\ d \in server
  <2>1. DownSound(c)' /\ RemoteSound(c)'
    BY <1>1, <1>2, <1>3, <1>4, <1>6, DownOfAnother, DownKept
  <2> QED BY <1>5, <2>1 DEF Sound
<1>7. CASE c # d /\ d \notin server
  <2>1. DownSound(c)' /\ RemoteSound(c)'
    BY <1>1, <1>3, <1>4, <1>7 DEF DownSound, RemoteSound
  <2> QED BY <1>5, <2>1 DEF Sound
<1>8. CASE c = d /\ d \notin server
  <2>1. DownSound(c)' /\ RemoteSound(c)'
    BY <1>1, <1>3, <1>4, <1>8 DEF DownSound, RemoteSound
  <2> QED BY <1>5, <2>1 DEF Sound
<1>9. CASE c = d /\ d \in server
  <2>1. Matches(e, c, DownType) /\ ~Matches(e, c, New) /\ ~Matches(e, c, Closing)
    BY <1>2, <1>9 DEF Matches, New, DownType, Closing
  <2>2. Ordered(down', c)
    BY <1>1, <1>2, <1>3, <1>9, <2>1, OrderedAppended DEF DownSound
  <2>3. /\ Mentions(down', c, New) <=> Mentions(down, c, New)
        /\ Mentions(down', c, Closing) <=> Mentions(down, c, Closing)
        /\ Mentions(down', c, DownType)
    BY <1>1, <1>2, <1>3, <1>9, <2>1, DownAppended
  <2>4. \A m : LastMessage(down', c, DownType, m) => m = e
    BY <1>1, <1>2, <1>3, <1>9, <2>1, DownAppended
  <2>5. DownSound(c)'
    BY <1>1, <1>4, <1>9, <2>2, <2>3 DEF DownSound
  <2>6. ShowsPause(e) <=> c \in producerPaused'
    BY <1>2, <1>9 DEF ShowsPause
  <2>7. RemoteSound(c)'
    BY <2>3, <2>4, <2>6 DEF RemoteSound
  <2> QED BY <1>5, <2>5, <2>7 DEF Sound
<1> QED BY <1>6, <1>7, <1>8, <1>9

LEMMA CloseProducerSound ==
  ASSUME Agreement, NEW d \in Consumer, CloseProducer(d), NEW c \in Consumer
  PROVE  Sound(c)'
<1> DEFINE e == Down("consumerClosed", d)
<1>1. /\ TypeOK /\ DownSound(c) /\ RemoteSound(c) /\ UpSound(c) /\ LocalSound(c)
      /\ LayersSound(c) /\ server \subseteq producers
  BY DEF Agreement, Sound
<1>2. e \in DownMessage /\ e.id = d /\ e.type = "consumerClosed"
  BY DEF Down, DownMessage, DownType
<1>3. down \in Seq(DownMessage) /\ (d \in server => down' = Append(down, e))
      /\ (d \notin server => down' = down)
  BY <1>1, Channels DEF CloseProducer, Notified
<1>4. /\ producers' = producers \ {d} /\ server' = server \ {d} /\ paused' = paused \ {d}
      /\ producerPaused' = producerPaused \ {d} /\ layers' = layers /\ up' = up
      /\ known' = known /\ locally' = locally /\ remotely' = remotely
      /\ wished' = wished /\ refused' = refused
  BY DEF CloseProducer, client
<1> HIDE DEF e
<1>5. CASE c # d
  <2>1. UpSound(c)' /\ LocalSound(c)' /\ LayersSound(c)'
    BY <1>1, <1>4, <1>5, UpKept
  <2>2. CASE d \in server
    <3>1. DownSound(c)' /\ RemoteSound(c)'
      BY <1>1, <1>2, <1>3, <1>4, <1>5, <2>2, DownOfAnother, DownKept
    <3> QED BY <2>1, <3>1 DEF Sound
  <2>3. CASE d \notin server
    <3>1. DownSound(c)' /\ RemoteSound(c)'
      BY <1>1, <1>3, <1>4, <1>5, <2>3 DEF DownSound, RemoteSound
    <3> QED BY <2>1, <3>1 DEF Sound
  <2> QED BY <2>2, <2>3
<1>6. CASE c = d
  <2>1. c \notin producers' /\ c \notin server'
    BY <1>4, <1>6
  <2>2. UpSound(c)' /\ LocalSound(c)' /\ LayersSound(c)' /\ RemoteSound(c)'
    BY <2>1, UpIdle DEF RemoteSound
  <2>3. CASE d \in server
    <3>1. Matches(e, c, Closing) /\ ~Matches(e, c, New)
      BY <1>2, <1>6 DEF Matches, New, Closing
    <3>2. Ordered(down', c)
      BY <1>1, <1>2, <1>3, <2>3, <3>1, OrderedAppended DEF DownSound
    <3>3. Mentions(down', c, Closing) /\ (Mentions(down', c, New) <=> Mentions(down, c, New))
      BY <1>1, <1>2, <1>3, <2>3, <3>1, DownAppended
    <3>4. DownSound(c)'
      BY <1>1, <1>4, <2>1, <3>2, <3>3 DEF DownSound
    <3> QED BY <2>2, <3>4 DEF Sound
  <2>4. CASE d \notin server
    <3>1. ~Mentions(down, c, DownType) /\ c \notin known \cup refused
      BY <1>1, <1>6, <2>4 DEF CloseProducer, DownSound
    <3>2. ~Mentions(down, c, New)
      BY <3>1 DEF Mentions, About, New, DownType
    <3>3. DownSound(c)'
      BY <1>1, <1>3, <1>4, <2>1, <2>4, <3>1, <3>2 DEF DownSound
    <3> QED BY <2>2, <3>3 DEF Sound
  <2> QED BY <2>3, <2>4
<1> QED BY <1>5, <1>6

LEMMA ServeSound ==
  ASSUME Agreement, Serve, NEW c \in Consumer
  PROVE  Sound(c)'
<1> DEFINE m == Head(up)
<1>1. /\ TypeOK /\ DownSound(c) /\ RemoteSound(c) /\ UpSound(c) /\ LocalSound(c)
      /\ LayersSound(c) /\ server \subseteq producers
  BY DEF Agreement, Sound
<1>2. up # <<>> /\ up' = Tail(up)
  BY DEF Serve
<1>3. m \in UpMessage /\ m.id \in Consumer /\ m.type \in UpType
  <2>1. m \in UpMessage
    BY <1>1, <1>2, UpTaken
  <2> QED BY <2>1 DEF UpMessage
<1>4. /\ producers' = producers /\ server' = server /\ known' = known /\ down' = down
      /\ producerPaused' = producerPaused /\ refused' = refused
      /\ locally' = locally /\ remotely' = remotely /\ wished' = wished
  BY DEF Serve, source, client
<1>5. \/ /\ layers' = layers
         /\ \/ m.type = "accept" /\ paused' = paused \ {m.id}
            \/ m.type = "pauseConsumer" /\ paused' = paused \cup ({m.id} \cap server)
            \/ m.type = "resumeConsumer" /\ paused' = paused \ ({m.id} \cap server)
      \/ /\ paused' = paused /\ m.type = "setConsumerPreferredLayers"
         /\ layers' = [x \in Consumer |-> IF x \in {m.id} \cap server THEN m.layers
                                                                      ELSE layers[x]]
  BY DEF Serve, Accepted, PauseConsumer, ResumeConsumer, SetConsumerPreferredLayers, Found
<1> HIDE DEF m
<1>6. DownSound(c)' /\ RemoteSound(c)'
  BY <1>1, <1>4 DEF DownSound, RemoteSound
<1>7. UpSound(c)'
  <2>1. SUFFICES ASSUME c \in producers, c \notin known
                 PROVE  ~Mentions(up', c, UpType) /\ (c \in server => c \in paused')
    BY <1>4 DEF UpSound
  <2>2. ~Mentions(up, c, UpType) /\ (c \in server => c \in paused)
    BY <1>1, <2>1 DEF UpSound
  <2>3. ~Mentions(up', c, UpType) /\ ~Matches(m, c, UpType)
    BY <1>1, <1>2, <2>2, UpTaken DEF m
  <2>4. m.id # c
    BY <1>3, <2>3 DEF Matches
  <2> QED BY <1>5, <2>2, <2>3, <2>4
<1>8. LocalSound(c)'
  <2>1. SUFFICES ASSUME c \in server, c \in known
                 PROVE  /\ \A x \in UpMessage : LastMessage(up', c, Pausing, x) =>
                             (x.type = "pauseConsumer" <=> c \in locally)
                        /\ ~Mentions(up', c, Pausing) => (c \in paused' <=> c \in locally)
    BY <1>4 DEF LocalSound
  <2>2. /\ \A x \in UpMessage : LastMessage(up, c, Pausing, x) =>
             (x.type = "pauseConsumer" <=> c \in locally)
        /\ ~Mentions(up, c, Pausing) => (c \in paused <=> c \in locally)
    BY <1>1, <2>1 DEF LocalSound
  <2>3. \A x \in UpMessage : LastMessage(up', c, Pausing, x) =>
          (x.type = "pauseConsumer" <=> c \in locally)
    BY <1>1, <1>2, <2>2, UpTaken
  <2>4. ASSUME ~Mentions(up', c, Pausing) PROVE c \in paused' <=> c \in locally
    <3>1. CASE Matches(m, c, Pausing)
      <4>1. LastMessage(up, c, Pausing, m)
        BY <1>1, <1>2, <2>4, <3>1, UpTaken DEF m
      <4>2. m.type = "pauseConsumer" <=> c \in locally
        BY <1>3, <2>2, <4>1
      <4>3. m.id = c /\ m.type # "setConsumerPreferredLayers"
        BY <3>1 DEF Matches, Pausing
      <4> QED BY <1>5, <2>1, <4>2, <4>3
    <3>2. CASE ~Matches(m, c, Pausing)
      <4>1. c \in paused <=> c \in locally
        BY <1>1, <1>2, <2>2, <2>4, <3>2, UpTaken DEF m
      <4>2. m.id # c \/ m.type = "setConsumerPreferredLayers"
        BY <1>3, <3>2 DEF Matches, Pausing, UpType
      <4> QED BY <1>5, <4>1, <4>2
    <3> QED BY <3>1, <3>2
  <2> QED BY <2>3, <2>4
<1>9. LayersSound(c)'
  <2>1. SUFFICES ASSUME c \in producers
                 PROVE  /\ \A x \in UpMessage : LastMessage(up', c, Wishing, x) =>
                             x.layers = wished[c]
                        /\ ~Mentions(up', c, Wishing) => layers'[c] = wished[c]
    BY <1>4 DEF LayersSound
  <2>2. /\ \A x \in UpMessage : LastMessage(up, c, Wishing, x) => x.layers = wished[c]
        /\ ~Mentions(up, c, Wishing) => layers[c] = wished[c]
    BY <1>1, <2>1 DEF LayersSound
  <2>3. \A x \in UpMessage : LastMessage(up', c, Wishing, x) => x.layers = wished[c]
    BY <1>1, <1>2, <2>2, UpTaken
  <2>4. ASSUME ~Mentions(up', c, Wishing) PROVE layers'[c] = wished[c]
    <3>1. CASE Matches(m, c, Wishing)
      <4>1. LastMessage(up, c, Wishing, m)
        BY <1>1, <1>2, <2>4, <3>1, UpTaken DEF m
      <4>2. m.layers = wished[c]
        BY <1>3, <2>2, <4>1
      <4>3. m.id = c /\ m.type = "setConsumerPreferredLayers"
        BY <3>1 DEF Matches, Wishing
      <4>4. Matches(m, c, UpType)
        BY <4>3 DEF Matches, UpType
      <4>5. Mentions(up, c, UpType)
        BY <1>1, <1>2, <4>4, UpTaken DEF m
      <4>6. c \in server
        BY <1>1, <2>1, <4>5 DEF UpSound, DownSound
      <4> QED BY <1>5, <4>2, <4>3, <4>6
    <3>2. CASE ~Matches(m, c, Wishing)
      <4>1. layers[c] = wished[c]
        BY <1>1, <1>2, <2>2, <2>4, <3>2, UpTaken DEF m
      <4>2. m.id # c \/ m.type # "setConsumerPreferredLayers"
        BY <3>2 DEF Matches, Wishing
      <4> QED BY <1>5, <4>1, <4>2
    <3> QED BY <3>1, <3>2
  <2> QED BY <2>3, <2>4
<1> QED BY <1>6, <1>7, <1>8, <1>9 DEF Sound

-----------------------------------------------------------------------------
(* The steps of the client that take a message.                            *)

\* What the first message down, about c, tells of it.
LEMMA FirstMessage ==
  ASSUME Agreement, down # <<>>, down' = Tail(down), NEW c \in Consumer, Head(down).id = c
  PROVE  /\ Ordered(down', c)
         /\ \A T : Head(down).type \notin T =>
                     (Mentions(down', c, T) <=> Mentions(down, c, T))
         /\ \A T : Mentions(down', c, T) => Mentions(down, c, T)
         /\ \A T : Head(down).type \in T => Mentions(down, c, T)
         /\ Mentions(down, c, DownType)
         /\ Head(down).type \in New \cup Closing => ~Mentions(down', c, New)
         /\ \A m : LastMessage(down', c, DownType, m) => LastMessage(down, c, DownType, m)
         /\ c \in server /\ ~Mentions(down', c, DownType) =>
              (ShowsPause(Head(down)) <=> c \in producerPaused)
<1>1. TypeOK /\ DownSound(c) /\ RemoteSound(c)
  BY DEF Agreement, Sound
<1>2. down \in Seq(DownMessage) /\ Head(down) \in DownMessage
  BY <1>1, Channels, DownTaken
<1>3. \A T : Matches(Head(down), c, T) <=> Head(down).type \in T
  BY DEF Matches
<1>4. /\ Ordered(down', c)
      /\ Matches(Head(down), c, New \cup Closing) => ~Mentions(down', c, New)
  <2>1. Ordered(down, c)
    BY <1>1 DEF DownSound
  <2>2. /\ Ordered(Tail(down), c)
        /\ Matches(Head(down), c, New \cup Closing) => ~Mentions(Tail(down), c, New)
    BY <1>2, <2>1, OrderedTaken
  <2> QED BY <2>2
<1>5. ASSUME NEW T
      PROVE  /\ Mentions(down, c, T) <=> Mentions(down', c, T) \/ Head(down).type \in T
             /\ \A m : LastMessage(down', c, T, m) => LastMessage(down, c, T, m)
             /\ Head(down).type \in T /\ ~Mentions(down', c, T) =>
                  LastMessage(down, c, T, Head(down))
  BY <1>1, <1>3, DownTaken
<1>6. Head(down).type \in DownType
  BY <1>2 DEF DownMessage
<1>7. Mentions(down, c, DownType)
  BY <1>5, <1>6
<1>8. ASSUME c \in server, ~Mentions(down', c, DownType)
      PROVE  ShowsPause(Head(down)) <=> c \in producerPaused
  BY <1>1, <1>2, <1>5, <1>6, <1>8 DEF RemoteSound
<1> QED BY <1>3, <1>4, <1>5, <1>7, <1>8

\* What a message down about another Consumer leaves alone.
LEMMA OthersFirstMessage ==
  ASSUME Agreement, down # <<>>, down' = Tail(down), NEW c \in Consumer, Head(down).id # c,
         c \in producers' <=> c \in producers, c \in server' <=> c \in server,
         c \in known' <=> c \in known, c \in refused' <=> c \in refused,
         c \in producerPaused' <=> c \in producerPaused,
         c \in remotely' <=> c \in remotely
  PROVE  DownSound(c)' /\ RemoteSound(c)'
<1>1. TypeOK /\ DownSound(c) /\ RemoteSound(c)
  BY DEF Agreement, Sound
<1>2. /\ Ordered(down', c)
      /\ \A T : Mentions(down', c, T) <=> Mentions(down, c, T)
      /\ \A T, m : LastMessage(down', c, T, m) => LastMessage(down, c, T, m)
  BY <1>1, DownTakenOfAnother
<1> QED BY <1>1, <1>2, DownKept

LEMMA NewConsumerSound ==
  ASSUME Agreement, NewConsumer, NEW c \in Consumer
  PROVE  Sound(c)'
<1> DEFINE m == Head(down)
           d == m.id
           pauses == d \in Video /\ audioOnly
           accept == Up("accept", d)
           pause == Up("pauseConsumer", d)
           s == <<accept>> \o (IF pauses THEN <<pause>> ELSE <<>>)
<1>1. /\ TypeOK /\ DownSound(c) /\ RemoteSound(c) /\ UpSound(c) /\ LocalSound(c)
      /\ LayersSound(c) /\ server \subseteq producers
  BY DEF Agreement, Sound
<1>2. down # <<>> /\ down' = Tail(down) /\ m.type = "newConsumer"
  BY DEF NewConsumer, Receives
<1>3. m \in DownMessage /\ d \in Consumer
  <2>1. m \in DownMessage
    BY <1>1, <1>2, DownTaken
  <2> QED BY <2>1 DEF DownMessage
<1>4. /\ producers' = producers /\ server' = server /\ producerPaused' = producerPaused
      /\ paused' = paused /\ layers' = layers /\ wished' = wished /\ refused' = refused
      /\ known' = known \cup {d}
      /\ remotely' = IF m.paused THEN remotely \cup {d} ELSE remotely
      /\ locally' = IF pauses THEN locally \cup {d} ELSE locally
  BY DEF NewConsumer, source, peer
<1>5. /\ accept \in UpMessage /\ accept.id = d /\ accept.type = "accept"
      /\ pause \in UpMessage /\ pause.id = d /\ pause.type = "pauseConsumer"
  BY <1>1, <1>3 DEF Up, UpMessage, UpType, TypeOK
<1>6. up' = IF pauses THEN Append(Append(up, accept), pause) ELSE Append(up, accept)
  <2>1. up \in Seq(UpMessage)
    BY <1>1, Channels
  <2>2. up' = up \o <<accept>> \o (IF pauses THEN <<pause>> ELSE <<>>)
    BY DEF NewConsumer
  <2>3. up \o <<accept>> = Append(up, accept) /\ Append(up, accept) \in Seq(UpMessage)
    BY <1>5, <2>1, AppendIsConcat, AppendProperties
  <2>4. Append(up, accept) \o <<pause>> = Append(Append(up, accept), pause)
    BY <1>5, <2>3, AppendIsConcat
  <2>5. Append(up, accept) \o <<>> = Append(up, accept)
    BY <2>3, ConcatEmptySeq
  <2> HIDE DEF accept, pause
  <2> QED BY <2>2, <2>3, <2>4, <2>5
<1> HIDE DEF m, d, pauses, accept, pause, s
\* Its two messages are about pauses, and about d alone.
<1>7. ASSUME NEW T
      PROVE  /\ Mentions(up', c, T) <=>
                  \/ Mentions(up, c, T) \/ Matches(accept, c, T)
                  \/ (pauses /\ Matches(pause, c, T))
             /\ \A x : LastMessage(up', c, T, x) <=>
                  IF pauses /\ Matches(pause, c, T) THEN x = pause
                  ELSE IF Matches(accept, c, T) THEN x = accept
                  ELSE LastMessage(up, c, T, x)
  <2>1. up \in Seq(UpMessage)
    BY <1>1, Channels
  <2>2. /\ Append(up, accept) \in Seq(UpMessage)
        /\ Mentions(Append(up, accept), c, T) <=> Mentions(up, c, T) \/ Matches(accept, c, T)
        /\ \A x : LastMessage(Append(up, accept), c, T, x) <=>
                  IF Matches(accept, c, T) THEN x = accept ELSE LastMessage(up, c, T, x)
    BY <1>5, <2>1, AppendedMessage
  <2> DEFINE q == Append(up, accept)
  <2>3. q \in Seq(UpMessage) /\ pause \in UpMessage
    BY <1>5, <2>2
  <2> HIDE DEF q
  <2>4. /\ Mentions(Append(q, pause), c, T) <=> Mentions(q, c, T) \/ Matches(pause, c, T)
        /\ \A x : LastMessage(Append(q, pause), c, T, x) <=>
                  IF Matches(pause, c, T) THEN x = pause ELSE LastMessage(q, c, T, x)
    BY <2>3, AppendedMessage
  <2> QED BY <1>6, <2>2, <2>4 DEF q
<1>8. CASE c # d
  <2>1. DownSound(c)' /\ RemoteSound(c)'
    BY <1>2, <1>4, <1>8, OthersFirstMessage DEF m, d
  <2>2. \A T : ~Matches(accept, c, T) /\ ~Matches(pause, c, T)
    BY <1>5, <1>8 DEF Matches
  <2>3. UpSound(c)' /\ LocalSound(c)' /\ LayersSound(c)'
    BY <1>1, <1>4, <1>7, <1>8, <2>2, UpKept
  <2> QED BY <2>1, <2>3 DEF Sound
<1>9. CASE c = d
  <2>1. m.type \in New /\ m.type \notin Closing
    BY <1>2 DEF New, Closing
  <2>2. /\ Mentions(down, c, New) /\ ~Mentions(down', c, New) /\ Ordered(down', c)
        /\ Mentions(down', c, Closing) <=> Mentions(down, c, Closing)
        /\ Mentions(down, c, DownType)
    BY <1>2, <1>9, <2>1, FirstMessage DEF m, d
  <2>3. /\ c \notin known \cup refused /\ c \notin remotely /\ c \notin locally
        /\ c \in producers => c \in server
    BY <1>1, <2>2 DEF DownSound, TypeOK
  <2>4. DownSound(c)'
    BY <1>1, <1>4, <1>9, <2>2, <2>3 DEF DownSound
  <2>5. c \in server /\ ~Mentions(down', c, DownType) => (m.paused <=> c \in producerPaused)
    BY <1>2, <1>9, FirstMessage DEF m, d, ShowsPause
  <2>6. \A x : LastMessage(down', c, DownType, x) => LastMessage(down, c, DownType, x)
    BY <1>2, <1>9, FirstMessage DEF m, d
  <2>7. RemoteSound(c)'
    BY <1>1, <1>4, <1>9, <2>3, <2>5, <2>6 DEF RemoteSound
  <2>8. UpSound(c)'
    BY <1>4, <1>9 DEF UpSound
  <2>9. /\ Matches(accept, c, Pausing) /\ Matches(pause, c, Pausing)
        /\ ~Matches(accept, c, Wishing) /\ ~Matches(pause, c, Wishing)
    BY <1>5, <1>9 DEF Matches, Pausing, Wishing
  <2>10. LocalSound(c)'
    <3>1. Mentions(up', c, Pausing)
      BY <1>7, <2>9
    <3>2. \A x : LastMessage(up', c, Pausing, x) => x = IF pauses THEN pause ELSE accept
      BY <1>7, <2>9
    <3>3. c \in locally' <=> pauses
      BY <1>4, <1>9, <2>3
    <3>4. \A x : LastMessage(up', c, Pausing, x) => (x.type = "pauseConsumer" <=> c \in locally')
      BY <1>5, <3>2, <3>3
    <3> QED BY <3>1, <3>4 DEF LocalSound
  <2>11. LayersSound(c)'
    <3>1. /\ Mentions(up', c, Wishing) <=> Mentions(up, c, Wishing)
          /\ \A x : LastMessage(up', c, Wishing, x) => LastMessage(up, c, Wishing, x)
      BY <1>7, <2>9
    <3> QED BY <1>1, <1>4, <3>1 DEF LayersSound
  <2> QED BY <2>4, <2>7, <2>8, <2>10, <2>11 DEF Sound
<1> QED BY <1>8, <1>9

\* The other messages down leave the channel up alone.
LEMMA NewConsumerFailedSound ==
  ASSUME Agreement, NewConsumerFailed, NEW c \in Consumer
  PROVE  Sound(c)'
<1>1. /\ TypeOK /\ DownSound(c) /\ RemoteSound(c) /\ UpSound(c) /\ LocalSound(c)
      /\ LayersSound(c)
  BY DEF Agreement, Sound
<1>2. down # <<>> /\ down' = Tail(down) /\ Head(down).type = "newConsumer"
  BY DEF NewConsumerFailed, Receives
<1>3. /\ producers' = producers /\ server' = server /\ producerPaused' = producerPaused
      /\ paused' = paused /\ layers' = layers /\ wished' = wished /\ up' = up
      /\ known' = known /\ remotely' = remotely /\ locally' = locally
      /\ refused' = refused \cup {Head(down).id}
  BY DEF NewConsumerFailed, source, peer
<1>4. UpSound(c)' /\ LocalSound(c)' /\ LayersSound(c)'
  BY <1>1, <1>3 DEF UpSound, LocalSound, LayersSound
<1>5. CASE c # Head(down).id
  BY <1>2, <1>3, <1>4, <1>5, OthersFirstMessage DEF Sound
<1>6. CASE c = Head(down).id
  <2>1. "newConsumer" \in New /\ "newConsumer" \notin Closing
    BY DEF New, Closing
  <2>2. /\ Mentions(down, c, New) /\ ~Mentions(down', c, New) /\ Ordered(down', c)
        /\ Mentions(down', c, Closing) <=> Mentions(down, c, Closing)
        /\ Mentions(down, c, DownType)
    BY <1>2, <1>6, <2>1, FirstMessage
  <2>3. c \notin known /\ (c \in producers => c \in server)
    BY <1>1, <2>2 DEF DownSound
  <2>4. DownSound(c)'
    BY <1>1, <1>3, <1>6, <2>2, <2>3 DEF DownSound
  <2>5. \A x : LastMessage(down', c, DownType, x) => LastMessage(down, c, DownType, x)
    BY <1>2, <1>6, FirstMessage
  <2>6. RemoteSound(c)'
    BY <1>1, <1>3, <2>3, <2>5 DEF RemoteSound
  <2> QED BY <1>4, <2>4, <2>6 DEF Sound
<1> QED BY <1>5, <1>6

\* A Consumer's pause, or its end, is told.
LEMMA ConsumerPausedSound ==
  ASSUME Agreement, ConsumerPaused \/ ConsumerResumed, NEW c \in Consumer
  PROVE  Sound(c)'
<1>1. /\ TypeOK /\ DownSound(c) /\ RemoteSound(c) /\ UpSound(c) /\ LocalSound(c)
      /\ LayersSound(c)
  BY DEF Agreement, Sound
<1>2. /\ down # <<>> /\ down' = Tail(down)
      /\ Head(down).type \in {"consumerPaused", "consumerResumed"}
  BY DEF ConsumerPaused, ConsumerResumed, Receives
<1>3. /\ producers' = producers /\ server' = server /\ producerPaused' = producerPaused
      /\ paused' = paused /\ layers' = layers /\ wished' = wished /\ up' = up
      /\ known' = known /\ refused' = refused /\ locally' = locally
      /\ remotely' = IF Head(down).type = "consumerPaused"
                     THEN remotely \cup ({Head(down).id} \cap known)
                     ELSE remotely \ ({Head(down).id} \cap known)
  BY DEF ConsumerPaused, ConsumerResumed, ShowPaused, ShowResumed, Receives, source, peer
<1>4. UpSound(c)' /\ LocalSound(c)' /\ LayersSound(c)'
  BY <1>1, <1>3 DEF UpSound, LocalSound, LayersSound
<1>5. CASE c # Head(down).id
  BY <1>2, <1>3, <1>4, <1>5, OthersFirstMessage DEF Sound
<1>6. CASE c = Head(down).id
  <2>1. Head(down).type \notin New /\ Head(down).type \notin Closing
    BY <1>2 DEF New, Closing
  <2>2. /\ Mentions(down', c, New) <=> Mentions(down, c, New)
        /\ Mentions(down', c, Closing) <=> Mentions(down, c, Closing)
        /\ Ordered(down', c) /\ Mentions(down, c, DownType)
    BY <1>2, <1>6, <2>1, FirstMessage
  <2>3. DownSound(c)'
    BY <1>1, <1>3, <2>2 DEF DownSound
  <2>4. \A x : LastMessage(down', c, DownType, x) => LastMessage(down, c, DownType, x)
    BY <1>2, <1>6, FirstMessage
  <2>5. c \in server /\ ~Mentions(down', c, DownType) =>
          (Head(down).type = "consumerPaused" <=> c \in producerPaused)
    BY <1>2, <1>6, FirstMessage DEF ShowsPause
  <2>6. RemoteSound(c)'
    BY <1>1, <1>3, <1>6, <2>4, <2>5 DEF RemoteSound
  <2> QED BY <1>4, <2>3, <2>6 DEF Sound
<1> QED BY <1>5, <1>6

LEMMA ConsumerClosedSound ==
  ASSUME Agreement, ConsumerClosed, NEW c \in Consumer
  PROVE  Sound(c)'
<1>1. /\ TypeOK /\ DownSound(c) /\ RemoteSound(c) /\ UpSound(c) /\ LocalSound(c)
      /\ LayersSound(c) /\ server \subseteq producers
  BY DEF Agreement, Sound
<1>2. down # <<>> /\ down' = Tail(down) /\ Head(down).type = "consumerClosed"
  BY DEF ConsumerClosed, Receives
<1>3. /\ producers' = producers /\ server' = server /\ producerPaused' = producerPaused
      /\ paused' = paused /\ layers' = layers /\ wished' = wished /\ up' = up
      /\ refused' = refused /\ known' = known \ {Head(down).id}
      /\ locally' = locally \ {Head(down).id} /\ remotely' = remotely \ {Head(down).id}
  BY DEF ConsumerClosed, source, peer
<1>4. CASE c # Head(down).id
  <2>1. UpSound(c)' /\ LocalSound(c)' /\ LayersSound(c)'
    BY <1>1, <1>3, <1>4 DEF UpSound, LocalSound, LayersSound
  <2> QED BY <1>2, <1>3, <1>4, <2>1, OthersFirstMessage DEF Sound
<1>5. CASE c = Head(down).id
  <2>1. "consumerClosed" \in New \cup Closing /\ "consumerClosed" \in Closing
    BY DEF Closing
  <2>2. Mentions(down, c, Closing) /\ ~Mentions(down', c, New) /\ Ordered(down', c)
    BY <1>2, <1>5, <2>1, FirstMessage
  <2>3. c \notin producers' /\ c \notin server' /\ c \notin known'
    BY <1>1, <1>3, <1>5, <2>2 DEF DownSound
  <2>4. DownSound(c)' /\ RemoteSound(c)'
    BY <2>2, <2>3 DEF DownSound, RemoteSound
  <2> QED BY <2>3, <2>4, UpIdle DEF Sound
<1> QED BY <1>4, <1>5

-----------------------------------------------------------------------------
(* The steps of the client's user.                                         *)

LEMMA WishLayersSound ==
  ASSUME Agreement, NEW d \in Consumer, WishLayers(d), NEW c \in Consumer
  PROVE  Sound(c)'
<1>1. /\ TypeOK /\ DownSound(c) /\ RemoteSound(c) /\ UpSound(c) /\ LocalSound(c)
      /\ LayersSound(c)
  BY DEF Agreement, Sound
<1>2. PICK l \in Layers :
        /\ wished' = [wished EXCEPT ![d] = l]
        /\ up' = Append(up, [Up("setConsumerPreferredLayers", d) EXCEPT !.layers = l])
  BY DEF WishLayers, ShowPreferredLayers
<1> DEFINE e == [Up("setConsumerPreferredLayers", d) EXCEPT !.layers = l]
<1>3. /\ e \in UpMessage /\ e.id = d /\ e.layers = l
      /\ e.type = "setConsumerPreferredLayers"
  BY DEF Up, UpMessage, UpType
<1>4. up' = Append(up, e)
  BY <1>2
<1> HIDE DEF e
<1>5. /\ producers' = producers /\ server' = server /\ producerPaused' = producerPaused
      /\ paused' = paused /\ layers' = layers /\ down' = down
      /\ known' = known /\ refused' = refused /\ locally' = locally /\ remotely' = remotely
      /\ d \in known
  BY DEF WishLayers, source, peer
<1>6. DownSound(c)' /\ RemoteSound(c)'
  BY <1>1, <1>5 DEF DownSound, RemoteSound
<1>7. /\ wished'[c] = IF c = d THEN l ELSE wished[c]
  BY <1>1, <1>2 DEF TypeOK
<1>8. CASE c # d
  <2>1. \A T : ~Matches(e, c, T)
    BY <1>3, <1>8 DEF Matches
  <2>2. /\ \A T : Mentions(up', c, T) <=> Mentions(up, c, T)
        /\ \A T, m : LastMessage(up', c, T, m) => LastMessage(up, c, T, m)
    BY <1>1, <1>3, <1>4, <2>1, UpAppended
  <2>3. UpSound(c)' /\ LocalSound(c)' /\ LayersSound(c)'
    BY <1>1, <1>5, <1>7, <1>8, <2>2, UpKept
  <2> QED BY <1>6, <2>3 DEF Sound
<1>9. CASE c = d
  <2>1. UpSound(c)'
    BY <1>5, <1>9 DEF UpSound
  <2>2. Matches(e, c, Wishing) /\ ~Matches(e, c, Pausing)
    BY <1>3, <1>9 DEF Matches, Wishing, Pausing
  <2>3. /\ Mentions(up', c, Pausing) <=> Mentions(up, c, Pausing)
        /\ \A m : LastMessage(up', c, Pausing, m) => LastMessage(up, c, Pausing, m)
    BY <1>1, <1>3, <1>4, <2>2, UpAppended
  <2>4. LocalSound(c)'
    BY <1>1, <1>5, <2>3 DEF LocalSound
  <2>5. Mentions(up', c, Wishing) /\ \A m : LastMessage(up', c, Wishing, m) => m = e
    BY <1>1, <1>3, <1>4, <2>2, UpAppended
  <2>6. LayersSound(c)'
    BY <1>3, <1>7, <1>9, <2>5 DEF LayersSound
  <2> QED BY <1>6, <2>1, <2>4, <2>6 DEF Sound
<1> QED BY <1>8, <1>9

\* The audio-only mode pauses or resumes a set of Consumers, and says so of each.
LEMMA AudioOnlySound ==
  ASSUME Agreement, NEW c \in Consumer, NEW S \in SUBSET known,
         NEW type \in {"pauseConsumer", "resumeConsumer"}, up' = up \o Messages(type, S),
         locally' = IF type = "pauseConsumer" THEN locally \cup S ELSE locally \ S,
         UNCHANGED <<source, peer, down, known, remotely, wished, refused>>
  PROVE  Sound(c)'
<1> DEFINE s == Messages(type, S)
<1>1. /\ TypeOK /\ DownSound(c) /\ RemoteSound(c) /\ UpSound(c) /\ LocalSound(c)
      /\ LayersSound(c)
  BY DEF Agreement, Sound
<1>2. /\ producers' = producers /\ server' = server /\ producerPaused' = producerPaused
      /\ paused' = paused /\ layers' = layers /\ down' = down /\ wished' = wished
      /\ known' = known /\ refused' = refused /\ remotely' = remotely
  BY DEF source, peer
<1>3. type \in UpType /\ S \in SUBSET Consumer /\ IsFiniteSet(S)
  BY <1>1, FS_Subset DEF Agreement, TypeOK, UpType
<1>4. ASSUME NEW T
      PROVE  /\ s \in Seq(UpMessage)
             /\ Mentions(s, c, T) <=> c \in S /\ type \in T
             /\ \A m : LastMessage(s, c, T, m) => m = Up(type, c)
  BY <1>1, <1>3, ListedMessages DEF TypeOK
<1>5. up' = up \o s
  OBVIOUS
<1> HIDE DEF s
<1>6. DownSound(c)' /\ RemoteSound(c)'
  BY <1>1, <1>2 DEF DownSound, RemoteSound
<1>7. CASE c \notin S
  <2>1. /\ \A T : Mentions(up', c, T) <=> Mentions(up, c, T)
        /\ \A T, m : LastMessage(up', c, T, m) => LastMessage(up, c, T, m)
    BY <1>1, <1>4, <1>5, <1>7, UpOfOthers
  <2>2. UpSound(c)' /\ LocalSound(c)' /\ LayersSound(c)'
    BY <1>1, <1>2, <1>7, <2>1, UpKept
  <2> QED BY <1>6, <2>2 DEF Sound
<1>8. CASE c \in S
  <2>1. UpSound(c)'
    BY <1>2, <1>8 DEF UpSound
  <2>2. type \in Pausing /\ type \notin Wishing
    BY DEF Pausing, Wishing
  <2>3. Mentions(up', c, Pausing) /\ \A m : LastMessage(up', c, Pausing, m) => m = Up(type, c)
    BY <1>1, <1>4, <1>5, <1>8, <2>2, UpConcatenated
  <2>4. Up(type, c).type = type /\ (type = "pauseConsumer" <=> c \in locally')
    BY <1>8 DEF Up
  <2>5. LocalSound(c)'
    BY <2>3, <2>4 DEF LocalSound
  <2>6. /\ Mentions(up', c, Wishing) <=> Mentions(up, c, Wishing)
        /\ \A m : LastMessage(up', c, Wishing, m) => LastMessage(up, c, Wishing, m)
    BY <1>1, <1>4, <1>5, <2>2, UpConcatenated
  <2>7. LayersSound(c)'
    BY <1>1, <1>2, <2>6 DEF LayersSound
  <2> QED BY <1>6, <2>1, <2>5, <2>7 DEF Sound
<1> QED BY <1>7, <1>8

-----------------------------------------------------------------------------
(* Every step keeps the invariant.                                         *)

\* The messages under way keep their types.
LEMMA ChannelsAfter ==
  ASSUME down' \in Seq(DownMessage), up' \in Seq(UpMessage)
  PROVE  /\ down' \in Seq([type: {"newConsumer", "consumerPaused", "consumerResumed",
                                  "consumerClosed"}, id: Consumer, paused: BOOLEAN])
         /\ up' \in Seq([type: {"accept", "pauseConsumer", "resumeConsumer",
                                "setConsumerPreferredLayers"}, id: Consumer, layers: Layers])
BY DEF DownMessage, DownType, UpMessage, UpType

\* A message sent is one of its channel.
LEMMA Sent ==
  ASSUME TypeOK, NEW c \in Consumer
  PROVE  /\ \A type \in DownType :
              /\ Down(type, c) \in DownMessage
              /\ Append(down, Down(type, c)) \in Seq(DownMessage)
         /\ \A type \in UpType : Up(type, c) \in UpMessage
<1>1. \A type \in DownType : Down(type, c) \in DownMessage
  BY DEF Down, DownMessage
<1>2. \A type \in UpType : Up(type, c) \in UpMessage
  BY DEF Up, UpMessage, TypeOK
<1>3. ASSUME NEW e \in DownMessage PROVE Append(down, e) \in Seq(DownMessage)
  BY Channels, AppendProperties
<1> QED BY <1>1, <1>2, <1>3

\* A message taken, and what is left.
LEMMA Taken ==
  ASSUME TypeOK
  PROVE  /\ down # <<>> => Head(down) \in DownMessage /\ Tail(down) \in Seq(DownMessage)
         /\ up # <<>> => Head(up) \in UpMessage /\ Tail(up) \in Seq(UpMessage)
BY Channels, HeadTailProperties

LEMMA TypeStep ==
  ASSUME Agreement, Next
  PROVE  TypeOK'
<1>1. TypeOK /\ down \in Seq(DownMessage) /\ up \in Seq(UpMessage)
  BY Channels DEF Agreement
<1> USE DEF source, peer, client
<1>2. ASSUME NEW c \in Consumer, Consume(c) PROVE TypeOK'
  <2>1. down' \in Seq(DownMessage) /\ up' \in Seq(UpMessage)
    BY <1>1, <1>2, Sent DEF Consume, DownType
  <2> QED BY <1>1, <1>2, <2>1, ChannelsAfter DEF Consume, TypeOK
<1>3. ASSUME NEW c \in Consumer, PauseProducer(c) \/ ResumeProducer(c) PROVE TypeOK'
  <2>1. down' \in Seq(DownMessage) /\ up' \in Seq(UpMessage)
    BY <1>1, <1>3, Sent DEF PauseProducer, ResumeProducer, Notified, DownType
  <2>2. changes' \in 0 .. MaxChanges /\ producerPaused' \subseteq Consumer
    BY <1>1, <1>3, ConsumersAssumption DEF PauseProducer, ResumeProducer, TypeOK
  <2> QED BY <1>1, <1>3, <2>1, <2>2, ChannelsAfter DEF PauseProducer, ResumeProducer, TypeOK
<1>4. ASSUME NEW c \in Consumer, CloseProducer(c) PROVE TypeOK'
  <2>1. down' \in Seq(DownMessage) /\ up' \in Seq(UpMessage)
    BY <1>1, <1>4, Sent DEF CloseProducer, Notified, DownType
  <2> QED BY <1>1, <1>4, <2>1, ChannelsAfter DEF CloseProducer, TypeOK
<1>5. ASSUME NEW c \in Consumer, WishLayers(c) PROVE TypeOK'
  <2>1. PICK l \in Layers :
          /\ wished' = [wished EXCEPT ![c] = l]
          /\ up' = Append(up, [Up("setConsumerPreferredLayers", c) EXCEPT !.layers = l])
    BY <1>5 DEF WishLayers, ShowPreferredLayers
  <2>2. [Up("setConsumerPreferredLayers", c) EXCEPT !.layers = l] \in UpMessage
    BY DEF Up, UpMessage, UpType
  <2>3. down' \in Seq(DownMessage) /\ up' \in Seq(UpMessage)
    BY <1>1, <1>5, <2>1, <2>2, AppendProperties DEF WishLayers
  <2>4. wished' \in [Consumer -> Layers]
    BY <1>1, <2>1 DEF TypeOK
  <2> QED BY <1>1, <1>5, <2>3, <2>4, ChannelsAfter DEF WishLayers, TypeOK
<1>6. ASSUME Serve PROVE TypeOK'
  <2>1. Head(up) \in UpMessage /\ Tail(up) \in Seq(UpMessage)
    BY <1>1, <1>6, Taken DEF Serve
  <2>2. Head(up).layers \in Layers
    BY <2>1 DEF UpMessage
  <2>3. down' \in Seq(DownMessage) /\ up' \in Seq(UpMessage)
    BY <1>1, <1>6, <2>1 DEF Serve
  <2>4. paused' \subseteq server /\ layers' \in [Consumer -> Layers]
    BY <1>1, <1>6, <2>2
    DEF Serve, Accepted, PauseConsumer, ResumeConsumer, SetConsumerPreferredLayers,
        Found, TypeOK
  <2> QED BY <1>1, <1>6, <2>3, <2>4, ChannelsAfter DEF Serve, TypeOK
<1>7. ASSUME NEW type, Receives(type)
      PROVE  /\ Head(down) \in DownMessage /\ Head(down).id \in Consumer
             /\ Head(down).type = type /\ down' \in Seq(DownMessage)
  <2>1. Head(down) \in DownMessage
    BY <1>1, <1>7, Taken DEF Receives
  <2> QED BY <1>1, <1>7, <2>1, Taken DEF Receives, DownMessage
<1>8. ASSUME Head(down) \in DownMessage, Head(down).type = "newConsumer", down # <<>>
      PROVE  Head(down).id \notin known \cup refused
  <2>1. Matches(Head(down), Head(down).id, New)
    BY <1>8 DEF Matches, New
  <2>2. 1 \in About(down, Head(down).id, New)
    BY <1>1, <1>8, <2>1, HeadTailProperties, EmptySeq, LenProperties DEF About, Matches
  <2>3. ASSUME NEW c \in Consumer, c = Head(down).id PROVE c \notin known \cup refused
    BY <2>2, <2>3 DEF Agreement, Sound, DownSound, Mentions
  <2> QED BY <1>8, <2>3 DEF DownMessage
<1>9. ASSUME NewConsumer PROVE TypeOK'
  <2>1. /\ Head(down) \in DownMessage /\ Head(down).id \in Consumer
        /\ Head(down).type = "newConsumer" /\ down' \in Seq(DownMessage)
    BY <1>7, <1>9 DEF NewConsumer
  <2>2. Head(down).id \notin known \cup refused
    BY <1>8, <1>9, <2>1 DEF NewConsumer, Receives
  <2>3. /\ Up("accept", Head(down).id) \in UpMessage
        /\ Up("pauseConsumer", Head(down).id) \in UpMessage
    BY <1>1, <2>1 DEF Up, UpMessage, UpType, TypeOK
  <2>4. /\ <<Up("accept", Head(down).id)>> \in Seq(UpMessage)
        /\ <<Up("pauseConsumer", Head(down).id)>> \in Seq(UpMessage)
        /\ <<>> \in Seq(UpMessage)
    BY <2>3, EmptySeq
  <2>5. up' \in Seq(UpMessage)
    BY <1>1, <1>9, <2>4, ConcatProperties DEF NewConsumer
  <2> QED BY <1>1, <1>9, <2>1, <2>2, <2>5, ChannelsAfter DEF NewConsumer, TypeOK
<1>10. ASSUME NewConsumerFailed PROVE TypeOK'
  <2>1. /\ Head(down) \in DownMessage /\ Head(down).id \in Consumer
        /\ Head(down).type = "newConsumer" /\ down' \in Seq(DownMessage)
    BY <1>7, <1>10 DEF NewConsumerFailed
  <2>2. Head(down).id \notin known \cup refused
    BY <1>8, <1>10, <2>1 DEF NewConsumerFailed, Receives
  <2> QED BY <1>1, <1>10, <2>1, <2>2, ChannelsAfter DEF NewConsumerFailed, TypeOK
<1>11. ASSUME ConsumerPaused \/ ConsumerResumed \/ ConsumerClosed PROVE TypeOK'
  <2>1. down' \in Seq(DownMessage)
    BY <1>7, <1>11 DEF ConsumerPaused, ConsumerResumed, ConsumerClosed
  <2> QED BY <1>1, <1>11, <2>1, ChannelsAfter
          DEF ConsumerPaused, ConsumerResumed, ConsumerClosed, ShowPaused, ShowResumed, TypeOK
<1>12. ASSUME EnableAudioOnly \/ DisableAudioOnly PROVE TypeOK'
  <2>1. ASSUME NEW type \in UpType, NEW S \in SUBSET known
        PROVE  up \o Messages(type, S) \in Seq(UpMessage)
    <3>1. S \in SUBSET Consumer /\ IsFiniteSet(S)
      BY <1>1, FS_Subset DEF Agreement, TypeOK
    <3>2. Messages(type, S) \in Seq(UpMessage)
      BY <1>1, <3>1, ListedMessages DEF TypeOK
    <3> QED BY <1>1, <3>2, ConcatProperties
  <2>2. up' \in Seq(UpMessage)
    BY <1>12, <2>1 DEF EnableAudioOnly, DisableAudioOnly, PauseVideo, ResumeVideo, UpType
  <2> QED BY <1>1, <1>12, <2>2, ChannelsAfter
          DEF EnableAudioOnly, DisableAudioOnly, PauseVideo, ResumeVideo, ShowPaused,
              ShowResumed, TypeOK
<1> QED
  BY <1>2, <1>3, <1>4, <1>5, <1>6, <1>9, <1>10, <1>11, <1>12 DEF Next

LEMMA SoundStep ==
  ASSUME Agreement, Next, NEW c \in Consumer
  PROVE  Sound(c)'
<1> USE DEF source
<1>1. ASSUME NEW d \in Consumer, PauseProducer(d) PROVE Sound(c)'
  BY <1>1, NotifiedSound DEF PauseProducer
<1>2. ASSUME NEW d \in Consumer, ResumeProducer(d) PROVE Sound(c)'
  BY <1>2, NotifiedSound DEF ResumeProducer
<1>3. ASSUME EnableAudioOnly PROVE Sound(c)'
  <2> DEFINE S == (known \cap Video) \ halted
  <2>1. /\ S \in SUBSET known /\ up' = up \o Messages("pauseConsumer", S)
        /\ locally' = locally \cup S
        /\ UNCHANGED <<source, peer, down, known, remotely, wished, refused>>
    BY <1>3 DEF EnableAudioOnly, PauseVideo, ShowPaused
  <2> HIDE DEF S
  <2> QED BY <2>1, AudioOnlySound
<1>4. ASSUME DisableAudioOnly PROVE Sound(c)'
  <2> DEFINE S == known \cap Video \cap halted
  <2>1. /\ S \in SUBSET known /\ up' = up \o Messages("resumeConsumer", S)
        /\ locally' = locally \ S
        /\ UNCHANGED <<source, peer, down, known, remotely, wished, refused>>
    BY <1>4 DEF DisableAudioOnly, ResumeVideo, ShowResumed
  <2> HIDE DEF S
  <2> QED BY <2>1, AudioOnlySound
<1> QED
  BY <1>1, <1>2, <1>3, <1>4, ConsumeSound, CloseProducerSound, WishLayersSound,
     ServeSound, NewConsumerSound, NewConsumerFailedSound, ConsumerPausedSound,
     ConsumerClosedSound DEF Next

LEMMA NextAgreement ==
  ASSUME Agreement, [Next]_vars
  PROVE  Agreement'
<1>1. CASE UNCHANGED vars
  BY <1>1 DEF Agreement, TypeOK, Sound, DownSound, RemoteSound, UpSound, LocalSound,
              LayersSound, vars, source, peer, client
<1>2. CASE Next
  <2>1. TypeOK' /\ \A c \in Consumer : Sound(c)'
    BY <1>2, TypeStep, SoundStep
  <2>2. IsFiniteSet(known)'
    <3>1. \E d : known' \subseteq known \cup {d}
      BY <1>2 DEF Next, Consume, PauseProducer, ResumeProducer, CloseProducer, WishLayers,
                  Serve, NewConsumer, NewConsumerFailed, ConsumerPaused, ConsumerResumed,
                  ConsumerClosed, EnableAudioOnly, DisableAudioOnly, client
    <3>2. PICK d : known' \subseteq known \cup {d}
      BY <3>1
    <3>3. IsFiniteSet(known \cup {d})
      BY FS_AddElement DEF Agreement
    <3> QED BY <3>2, <3>3, FS_Subset
  <2>3. (server \subseteq producers)'
    BY <1>2 DEF Agreement, Next, Consume, PauseProducer, ResumeProducer, CloseProducer,
                WishLayers, Serve, NewConsumer, NewConsumerFailed, ConsumerPaused,
                ConsumerResumed, ConsumerClosed, EnableAudioOnly, DisableAudioOnly,
                source, peer
  <2> QED BY <2>1, <2>2, <2>3 DEF Agreement
<1> QED BY <1>1, <1>2

-----------------------------------------------------------------------------
(* The theorems.                                                           *)

\* What is under way on the two channels, and what it will do to either side, is at
\* all times what is missing for the client and the server to agree on each Consumer:
\* on its life, on the pause of its Producer, on the user's pause and on the layers.
THEOREM ChannelsAgree == Spec => []Agreement
<1>1. Init => Agreement
  BY InitAgreement
<1>2. Agreement /\ [Next]_vars => Agreement'
  BY NextAgreement
<1> QED BY <1>1, <1>2, PTL DEF Spec

\* The type invariant: what is paused is open, what is shown is known, and every
\* message is one that its channel carries.
THEOREM TypeCorrect == Spec => []TypeOK
BY ChannelsAgree, PTL DEF Agreement

\* When nothing is under way, the two sides agree on a Consumer.
LEMMA QuietConsumer ==
  ASSUME Agreement, Quiet, NEW c \in Consumer
  PROVE  /\ c \in known => c \in server
         /\ c \in server /\ c \notin paused => c \in known
         /\ c \in known => /\ c \in locally <=> c \in paused
                           /\ c \in remotely <=> c \in producerPaused
                           /\ wished[c] = layers[c]
<1>1. \A T : ~Mentions(down, c, T) /\ ~Mentions(up, c, T)
  BY EmptyChannel DEF Quiet
<1>2. Sound(c) /\ server \subseteq producers
  BY DEF Agreement
<1>3. (c \in known => c \in server) /\ (c \in server => c \in known \cup refused)
  BY <1>1, <1>2 DEF Sound, DownSound
<1>4. c \in server /\ c \notin paused => c \in known
  BY <1>1, <1>2 DEF Sound, UpSound
<1>5. c \in known => (c \in locally <=> c \in paused)
  BY <1>1, <1>2, <1>3 DEF Sound, LocalSound
<1>6. c \in known => (c \in remotely <=> c \in producerPaused)
  BY <1>1, <1>2, <1>3 DEF Sound, RemoteSound
<1>7. c \in known => wished[c] = layers[c]
  BY <1>1, <1>2, <1>3 DEF Sound, LayersSound
<1> QED BY <1>3, <1>4, <1>5, <1>6, <1>7

\* Whatever the order in which the server's, the Producer's and the user's pauses were
\* asked for and carried out, the media that Peer.jsx shows as running are those that
\* the server forwards, once nothing is under way.
THEOREM ShownMediaIsForwarded == Spec => []ShownIsForwarded
<1>1. ASSUME Agreement PROVE ShownIsForwarded
  <2>1. SUFFICES ASSUME Quiet PROVE Visible = Forwarded
    BY DEF ShownIsForwarded
  <2>2. known \subseteq Consumer /\ server \subseteq Consumer
    BY <1>1 DEF Agreement, TypeOK
  <2>3. ASSUME NEW c \in Consumer PROVE c \in Visible <=> c \in Forwarded
    BY <1>1, <2>1, QuietConsumer DEF Visible, Forwarded
  <2> QED BY <2>2, <2>3 DEF Visible, Forwarded
<1> QED BY <1>1, ChannelsAgree, PTL

\* And the store tells the user's pause from the Producer's, and shows the layers that
\* the server prefers.
THEOREM EachPauseIsToldApart == Spec => []PausesAreToldApart
<1>1. ASSUME Agreement PROVE PausesAreToldApart
  <2>1. SUFFICES ASSUME Quiet, NEW c \in known
                 PROVE  /\ c \in locally <=> c \in paused
                        /\ c \in remotely <=> c \in producerPaused
                        /\ wished[c] = layers[c]
    BY DEF PausesAreToldApart
  <2>2. c \in Consumer
    BY <1>1 DEF Agreement, TypeOK
  <2> QED BY <1>1, <2>1, <2>2, QuietConsumer
<1> QED BY <1>1, ChannelsAgree, PTL

=============================================================================
