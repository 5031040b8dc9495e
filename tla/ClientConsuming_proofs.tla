------------------------ MODULE ClientConsuming_proofs ------------------------
(***************************************************************************)
(* Proofs about ClientConsuming, for every number of other Peers, Consumers *)
(* and sessions.  The messages about peers are handled at once and those    *)
(* about Consumers wait in a queue: the invariant says what is left of the  *)
(* order in which the server sent them.                                     *)
(***************************************************************************)
EXTENDS ClientConsuming, ProducingStore, SequenceTheorems, TLAPS

AboutPeer(m, i) == m.type \in {"newPeer", "peerClosed"} /\ m.peer = i
Announces(m, c) == m.type = "newConsumer" /\ m.consumer = c

\* The newConsumer message of c was not received, or waits in the queue.
OnWire(c) == \E k \in 1 .. Len(wire) : Announces(wire[k], c)
Queued(c) == \E k \in 1 .. Len(tasks) : Announces(tasks[k], c)

Listed(c) == owner[c] \in DOMAIN peers /\ c \in peers[owner[c]]

\* A Peer owns c, and has been there since it was asked for.
Owned(c) == status[c] # "none" /\ c \notin orphans /\ owner[c] # Bot

-----------------------------------------------------------------------------
(* The inductive invariant.                                                *)

\* What a message about a Consumer says was so, and is so.
Told(m) ==
  m.type \notin {"newPeer", "peerClosed"} =>
    /\ status[m.consumer] # "none"
    /\ m.type = "consumerClosed" => status[m.consumer] = "closed"

MessagesSound ==
  /\ \A k \in 1 .. Len(wire) : Told(wire[k])
  /\ \A k \in 1 .. Len(tasks) : Told(tasks[k])

\* A client that is not in the Room is sent nothing, and consumes nothing.
OutsideSound ==
  ~inRoom => wire = <<>> /\ \A c \in Consumer : status[c] \in {"none", "closed"}

\* The store has the Peers that are joined, or will have them.
PeerSound(i) ==
  inRoom /\ i \in joined =>
    /\ i \in DOMAIN peers \/ \E k \in 1 .. Len(wire) : AboutPeer(wire[k], i)
    /\ \A k \in 1 .. Len(wire) : AboutPeer(wire[k], i) =>
         \E l \in k .. Len(wire) : AboutPeer(wire[l], i) /\ wire[l].type = "newPeer"

\* What was sent about the owner of c came before c.
OrderSound(c) ==
  Owned(c) =>
    /\ owner[c] \in joined
    /\ \A k \in 1 .. Len(wire) : Announces(wire[k], c) =>
         \A l \in k .. Len(wire) : ~AboutPeer(wire[l], owner[c])
    /\ Queued(c) \/ Listed(c) => \A k \in 1 .. Len(wire) : ~AboutPeer(wire[k], owner[c])

\* A Consumer of a Peer that is there is listed, or will be.
ShownSound(c) ==
  inRoom /\ status[c] = "sent" /\ Owned(c) /\ c \notin failed =>
    Listed(c) \/ Queued(c) \/ OnWire(c)

ListsSound ==
  ListedIsKnown /\ \A i \in DOMAIN peers : \A c \in peers[i] : status[c] # "none"

InStep ==
  /\ TypeOK /\ MessagesSound /\ OutsideSound /\ ListsSound
  /\ \A i \in PeerId : PeerSound(i)
  /\ \A c \in Consumer : OrderSound(c) /\ ShownSound(c)

-----------------------------------------------------------------------------
(* The WebSocket and the queue.                                            *)

Message == PeerMessage \cup ConsumerMessage

LEMMA MessageTypes ==
  ASSUME NEW m \in Message
  PROVE  /\ m \in PeerMessage <=> m.type \in {"newPeer", "peerClosed"}
         /\ m \in ConsumerMessage <=> m.type \in {"newConsumer", "consumerClosed", "consumerUpdate"}
         /\ m \in PeerMessage => m.peer \in PeerId /\ \A c : ~Announces(m, c)
         /\ m \in ConsumerMessage => m.consumer \in Consumer /\ \A i : ~AboutPeer(m, i)
BY DEF Message, PeerMessage, ConsumerMessage, Announces, AboutPeer

\* A message is sent, or not.
LEMMA WireGrows ==
  ASSUME TypeOK, NEW m \in Message, Send(m) \/ wire' = wire
  PROVE  /\ wire' \in Seq(Message) /\ Len(wire) \in Nat /\ Len(wire') \in Nat
         /\ Len(wire) <= Len(wire')
         /\ \A k \in 1 .. Len(wire) : k \in 1 .. Len(wire') /\ wire'[k] = wire[k]
         /\ \A k \in 1 .. Len(wire') :
              k \in 1 .. Len(wire) \/ (Send(m) /\ k = Len(wire') /\ wire'[k] = m)
         /\ Send(m) /\ inRoom => Len(wire') \in 1 .. Len(wire') /\ wire'[Len(wire')] = m
<1>1. wire \in Seq(Message) /\ Len(wire) \in Nat
  BY LenProperties DEF TypeOK, Message
<1>2. CASE wire' = wire /\ ~(Send(m) /\ inRoom)
  BY <1>1, <1>2
<1>3. CASE Send(m) /\ inRoom
  <2>1. wire' = Append(wire, m)
    BY <1>3 DEF Send
  <2>2. /\ wire' \in Seq(Message) /\ Len(wire') = Len(wire) + 1
        /\ \A k \in 1 .. Len(wire) : wire'[k] = wire[k]
        /\ wire'[Len(wire) + 1] = m
    BY <1>1, <2>1, AppendProperties
  <2> QED BY <1>1, <1>3, <2>2
<1> QED BY <1>2, <1>3 DEF Send

LEMMA WireRead ==
  ASSUME TypeOK, wire # <<>>, wire' = Tail(wire)
  PROVE  /\ wire' \in Seq(Message) /\ Len(wire) \in Nat /\ Len(wire') = Len(wire) - 1
         /\ Head(wire) = wire[1] /\ Head(wire) \in Message /\ 1 \in 1 .. Len(wire)
         /\ \A k \in 1 .. Len(wire') : k + 1 \in 1 .. Len(wire) /\ wire'[k] = wire[k + 1]
         /\ \A k \in 1 .. Len(wire) :
              k = 1 \/ (k - 1 \in 1 .. Len(wire') /\ wire'[k - 1] = wire[k])
<1>1. wire \in Seq(Message) /\ Len(wire) \in Nat /\ Len(wire) # 0
  BY LenProperties, EmptySeq DEF TypeOK, Message
<1>2. /\ wire' \in Seq(Message) /\ Len(wire') = Len(wire) - 1
      /\ Head(wire) = wire[1] /\ Head(wire) \in Message
      /\ \A k \in 1 .. Len(wire') : wire'[k] = wire[k + 1]
  BY <1>1, HeadTailProperties
<1> QED BY <1>1, <1>2

LEMMA TasksGrow ==
  ASSUME TypeOK, NEW m \in ConsumerMessage, tasks' = Append(tasks, m)
  PROVE  /\ tasks' \in Seq(ConsumerMessage)
         /\ \A k \in 1 .. Len(tasks') : tasks'[k] = m \/ \E l \in 1 .. Len(tasks) : tasks'[k] = tasks[l]
         /\ \A c : Queued(c)' <=> Queued(c) \/ Announces(m, c)
<1>1. tasks \in Seq(ConsumerMessage) /\ Len(tasks) \in Nat
  BY LenProperties DEF TypeOK
<1>2. /\ tasks' \in Seq(ConsumerMessage) /\ Len(tasks') = Len(tasks) + 1
      /\ \A k \in 1 .. Len(tasks) : tasks'[k] = tasks[k]
      /\ tasks'[Len(tasks) + 1] = m
  BY <1>1, AppendProperties
<1>3. /\ \A k \in 1 .. Len(tasks') : k \in 1 .. Len(tasks) \/ k = Len(tasks) + 1
      /\ \A k \in 1 .. Len(tasks) : k \in 1 .. Len(tasks')
      /\ Len(tasks) + 1 \in 1 .. Len(tasks')
  BY <1>1, <1>2
<1>4. \A c : Queued(c)' <=> Queued(c) \/ Announces(m, c)
  BY <1>2, <1>3 DEF Queued, Announces
<1> QED BY <1>2, <1>3, <1>4

LEMMA TasksRun ==
  ASSUME TypeOK, tasks # <<>>, tasks' = Tail(tasks)
  PROVE  /\ tasks' \in Seq(ConsumerMessage) /\ Head(tasks) \in ConsumerMessage
         /\ Head(tasks) = tasks[1] /\ 1 \in 1 .. Len(tasks)
         /\ \A k \in 1 .. Len(tasks') : \E l \in 1 .. Len(tasks) : tasks'[k] = tasks[l]
         /\ \A c : Queued(c) <=> Queued(c)' \/ Announces(Head(tasks), c)
<1>1. tasks \in Seq(ConsumerMessage) /\ Len(tasks) \in Nat /\ Len(tasks) # 0
  BY LenProperties, EmptySeq DEF TypeOK
<1>2. /\ tasks' \in Seq(ConsumerMessage) /\ Len(tasks') = Len(tasks) - 1
      /\ Head(tasks) = tasks[1] /\ Head(tasks) \in ConsumerMessage
      /\ \A k \in 1 .. Len(tasks') : tasks'[k] = tasks[k + 1]
  BY <1>1, HeadTailProperties
<1>3. /\ \A k \in 1 .. Len(tasks') : k + 1 \in 1 .. Len(tasks)
      /\ \A k \in 1 .. Len(tasks) : k = 1 \/ (k - 1 \in 1 .. Len(tasks') /\ tasks'[k - 1] = tasks[k])
      /\ 1 \in 1 .. Len(tasks)
  BY <1>1, <1>2
<1>4. \A c : Queued(c) <=> Queued(c)' \/ Announces(Head(tasks), c)
  BY <1>2, <1>3 DEF Queued, Announces
<1> QED BY <1>2, <1>3, <1>4

-----------------------------------------------------------------------------
(* The steps of the server.                                                *)

\* What the steps of the server have in common: they send m, or nothing, and what m
\* says is so.
LEMMA ServerStep ==
  ASSUME InStep, TypeOK', NEW m \in Message, Send(m) \/ wire' = wire,
         UNCHANGED <<inRoom, client>>,
         \A c \in Consumer : status[c] # "none" => status'[c] # "none" /\ owner'[c] = owner[c],
         \A c \in Consumer : status[c] = "closed" => status'[c] = "closed",
         ~inRoom => \A c \in Consumer : status'[c] \in {"none", "closed"},
         Send(m) => Told(m)',
         \A i \in PeerId : i \in joined' =>
           (i \in joined /\ ~AboutPeer(m, i)) \/ (Send(m) /\ m.type = "newPeer" /\ m.peer = i),
         \A c \in Consumer : Owned(c)' =>
           /\ Owned(c) \/ status[c] = "none"
           /\ owner'[c] \in joined' /\ ~AboutPeer(m, owner'[c]),
         \A c \in Consumer : status'[c] = "sent" /\ Owned(c)' =>
           (status[c] = "sent" /\ Owned(c)) \/ (Send(m) /\ Announces(m, c))
  PROVE  InStep'
<1>1. /\ Len(wire) \in Nat /\ Len(wire') \in Nat /\ Len(wire) <= Len(wire')
      /\ \A k \in 1 .. Len(wire) : k \in 1 .. Len(wire') /\ wire'[k] = wire[k]
      /\ \A k \in 1 .. Len(wire') :
           k \in 1 .. Len(wire) \/ (Send(m) /\ k = Len(wire') /\ wire'[k] = m)
      /\ Send(m) /\ inRoom => Len(wire') \in 1 .. Len(wire') /\ wire'[Len(wire')] = m
  BY WireGrows DEF InStep
<1>2. /\ inRoom' = inRoom /\ tasks' = tasks /\ consumers' = consumers /\ peers' = peers
      /\ stored' = stored /\ failed' = failed /\ cut' = cut
  BY DEF client
<1>3. \A n \in Message : Told(n) =>
        (n.type \notin {"newPeer", "peerClosed"} =>
           /\ status'[n.consumer] # "none"
           /\ n.type = "consumerClosed" => status'[n.consumer] = "closed")
  <2>1. \A n \in Message : n \in PeerMessage \/ n.consumer \in Consumer
    BY MessageTypes DEF Message
  <2> QED BY <2>1, MessageTypes DEF Told
<1>4. MessagesSound'
  <2>1. \A k \in 1 .. Len(wire) : wire[k] \in Message /\ Told(wire[k])
    BY ElementOfSeq DEF InStep, TypeOK, Message, MessagesSound
  <2>2. \A k \in 1 .. Len(tasks) : tasks[k] \in Message /\ Told(tasks[k])
    BY ElementOfSeq DEF InStep, TypeOK, Message, MessagesSound
  <2>3. \A k \in 1 .. Len(wire') : Told(wire[k])'
    BY <1>1, <1>3, <2>1 DEF Told
  <2>4. \A k \in 1 .. Len(tasks') : Told(tasks[k])'
    BY <1>2, <1>3, <2>2 DEF Told
  <2> QED BY <2>3, <2>4 DEF MessagesSound
<1>5. OutsideSound'
  BY <1>2 DEF InStep, OutsideSound, Send
<1>6. ListsSound'
  <2>1. ASSUME NEW i \in DOMAIN peers, NEW c \in peers[i]
        PROVE  /\ c \in Consumer /\ status[c] # "none" /\ owner[c] = i /\ c \in stored
               /\ c \in consumers \/ c \in cut
    BY DEF InStep, TypeOK, ListsSound, ListedIsKnown
  <2> QED BY <1>2, <2>1 DEF ListsSound, ListedIsKnown
<1>7. ASSUME NEW i \in PeerId PROVE PeerSound(i)'
  <2>1. SUFFICES ASSUME inRoom, i \in joined'
                 PROVE  /\ i \in DOMAIN peers \/ \E k \in 1 .. Len(wire') : AboutPeer(wire'[k], i)
                        /\ \A k \in 1 .. Len(wire') : AboutPeer(wire'[k], i) =>
                             \E l \in k .. Len(wire') :
                               AboutPeer(wire'[l], i) /\ wire'[l].type = "newPeer"
    BY <1>2 DEF PeerSound, AboutPeer
  <2>2. CASE i \in joined /\ ~AboutPeer(m, i)
    <3>1. /\ i \in DOMAIN peers \/ \E k \in 1 .. Len(wire) : AboutPeer(wire[k], i)
          /\ \A k \in 1 .. Len(wire) : AboutPeer(wire[k], i) =>
               \E l \in k .. Len(wire) : AboutPeer(wire[l], i) /\ wire[l].type = "newPeer"
      BY <2>1, <2>2 DEF InStep, PeerSound
    <3>2. \A k \in 1 .. Len(wire) : \A l \in k .. Len(wire) : l \in 1 .. Len(wire) /\ l \in k .. Len(wire')
      BY <1>1
    <3>3. i \in DOMAIN peers \/ \E k \in 1 .. Len(wire') : AboutPeer(wire'[k], i)
      BY <1>1, <3>1
    <3>4. ASSUME NEW k \in 1 .. Len(wire'), AboutPeer(wire'[k], i)
          PROVE  \E l \in k .. Len(wire') : AboutPeer(wire'[l], i) /\ wire'[l].type = "newPeer"
      <4>1. k \in 1 .. Len(wire) /\ wire'[k] = wire[k]
        BY <1>1, <2>2, <3>4
      <4>2. PICK l \in k .. Len(wire) : AboutPeer(wire[l], i) /\ wire[l].type = "newPeer"
        BY <3>1, <3>4, <4>1
      <4>3. l \in k .. Len(wire') /\ wire'[l] = wire[l]
        BY <1>1, <3>2, <4>1
      <4> QED BY <4>2, <4>3
    <3> QED BY <3>3, <3>4
  <2>3. CASE Send(m) /\ m.type = "newPeer" /\ m.peer = i
    <3>1. /\ AboutPeer(wire'[Len(wire')], i) /\ wire'[Len(wire')].type = "newPeer"
          /\ Len(wire') \in 1 .. Len(wire') /\ \A k \in 1 .. Len(wire') : Len(wire') \in k .. Len(wire')
      BY <1>1, <2>1, <2>3 DEF AboutPeer
    <3> QED BY <3>1
  <2> QED BY <2>1, <2>2, <2>3
<1>8. \A c : (Queued(c)' <=> Queued(c)) /\ (OnWire(c) => OnWire(c)')
  BY <1>1, <1>2 DEF Queued, OnWire, Announces
<1>9. ASSUME NEW c \in Consumer, Owned(c)' PROVE OrderSound(c)'
  <2>1. CASE status[c] = "none"
    <3>1. \A k \in 1 .. Len(wire) : ~Announces(wire[k], c)
      BY <2>1 DEF InStep, MessagesSound, Told, Announces
    <3>2. ~Queued(c)
      BY <2>1 DEF InStep, MessagesSound, Told, Announces, Queued
    <3>3. \A i \in DOMAIN peers : c \notin peers[i]
      BY <2>1 DEF InStep, ListsSound
    <3>4. ~Listed(c)'
      BY <1>2, <3>3 DEF Listed
    <3>5. \A k \in 1 .. Len(wire') : Announces(wire'[k], c) => k = Len(wire') /\ wire'[k] = m
      BY <1>1, <3>1
    <3>6. \A k \in 1 .. Len(wire') : Announces(wire'[k], c) =>
            \A l \in k .. Len(wire') : ~AboutPeer(wire'[l], owner'[c])
      BY <1>1, <1>9, <3>5
    <3> QED BY <1>8, <1>9, <3>2, <3>4, <3>6 DEF OrderSound, Announces, AboutPeer
  <2>2. CASE Owned(c)
    <3>1. /\ owner'[c] = owner[c] /\ owner'[c] \in joined' /\ ~AboutPeer(m, owner[c])
          /\ OrderSound(c)
      BY <1>9, <2>2 DEF InStep, Owned
    <3>2. \A k \in 1 .. Len(wire') : Announces(wire'[k], c) =>
            \A l \in k .. Len(wire') : ~AboutPeer(wire'[l], owner[c])
      <4>1. SUFFICES ASSUME NEW k \in 1 .. Len(wire'), Announces(wire'[k], c),
                            NEW l \in k .. Len(wire')
                     PROVE  ~AboutPeer(wire'[l], owner[c])
        OBVIOUS
      <4>2. l \in 1 .. Len(wire') /\ (l \in 1 .. Len(wire) => k \in 1 .. Len(wire) /\ l \in k .. Len(wire))
        BY <1>1
      <4>3. CASE l \in 1 .. Len(wire)
        BY <1>1, <2>2, <3>1, <4>1, <4>2, <4>3 DEF OrderSound
      <4>4. CASE l \notin 1 .. Len(wire)
        BY <1>1, <3>1, <4>2, <4>4
      <4> QED BY <4>3, <4>4
    <3>3. Listed(c)' <=> Listed(c)
      BY <1>2, <3>1 DEF Listed
    <3>4. Queued(c) \/ Listed(c) => \A k \in 1 .. Len(wire') : ~AboutPeer(wire'[k], owner[c])
      BY <1>1, <2>2, <3>1 DEF OrderSound
    <3> QED BY <1>8, <3>1, <3>2, <3>3, <3>4 DEF OrderSound, Announces, AboutPeer
  <2> QED BY <1>9, <2>1, <2>2
<1>10. ASSUME NEW c \in Consumer PROVE ShownSound(c)'
  <2>1. SUFFICES ASSUME inRoom, status'[c] = "sent", Owned(c)', c \notin failed
                 PROVE  Listed(c)' \/ Queued(c)' \/ OnWire(c)'
    BY <1>2 DEF ShownSound
  <2>2. CASE status[c] = "sent" /\ Owned(c)
    <3>1. owner'[c] = owner[c] /\ (Listed(c) \/ Queued(c) \/ OnWire(c))
      BY <2>1, <2>2 DEF InStep, ShownSound, Owned
    <3> QED BY <1>2, <1>8, <3>1 DEF Listed
  <2>3. CASE Send(m) /\ Announces(m, c)
    BY <1>1, <2>1, <2>3 DEF OnWire, Announces
  <2> QED BY <2>1, <2>2, <2>3
<1>11. \A c \in Consumer : OrderSound(c)'
  BY <1>9 DEF OrderSound
<1> QED BY <1>4, <1>5, <1>6, <1>7, <1>10, <1>11 DEF InStep

LEMMA OwnerBound ==
  ASSUME InStep, NEW c \in Consumer, Owned(c)
  PROVE  owner[c] \in joined /\ owner[c] \in PeerId
BY DEF InStep, OrderSound, TypeOK

LEMMA PeersComeAndGo ==
  ASSUME InStep, TypeOK', NEW i \in PeerId, PeerJoins(i) \/ PeerLeaves(i) \/ PeerReplaced(i)
  PROVE  InStep'
<1>1. /\ UNCHANGED <<status, owner, inRoom, client>>
      /\ status' = status /\ owner' = owner /\ inRoom' = inRoom
  BY DEF PeerJoins, PeerLeaves, PeerReplaced, PeerEvent
<1>2. ~inRoom => \A c \in Consumer : status'[c] \in {"none", "closed"}
  BY <1>1 DEF InStep, OutsideSound
<1>3. CASE PeerJoins(i)
  <2> DEFINE m == [type |-> "newPeer", peer |-> i]
  <2>1. m \in Message /\ m.type = "newPeer" /\ m.peer = i /\ Send(m)
    BY <1>3 DEF Message, PeerMessage, PeerJoins
  <2>2. i \notin joined /\ joined' = joined \cup {i} /\ orphans' = orphans
    BY <1>3 DEF PeerJoins
  <2> HIDE DEF m
  <2>3. Told(m)'
    BY <2>1 DEF Told
  <2>4. \A j \in PeerId : j \in joined' =>
          (j \in joined /\ ~AboutPeer(m, j)) \/ (Send(m) /\ m.type = "newPeer" /\ m.peer = j)
    BY <2>1, <2>2 DEF AboutPeer
  <2>5. \A c \in Consumer : Owned(c)' =>
          /\ Owned(c) \/ status[c] = "none"
          /\ owner'[c] \in joined' /\ ~AboutPeer(m, owner'[c])
    <3>1. ASSUME NEW c \in Consumer, Owned(c)' PROVE Owned(c)
      BY <1>1, <2>2, <3>1 DEF Owned
    <3> QED BY <1>1, <2>1, <2>2, <3>1, OwnerBound DEF AboutPeer
  <2>6. \A c \in Consumer : status'[c] = "sent" /\ Owned(c)' => status[c] = "sent" /\ Owned(c)
    BY <1>1, <2>2 DEF Owned
  <2> QED BY <1>1, <1>2, <2>1, <2>3, <2>4, <2>5, <2>6, ServerStep
<1>4. CASE PeerLeaves(i) \/ PeerReplaced(i)
  <2> DEFINE m == [type |-> "peerClosed", peer |-> i]
  <2>1. /\ m \in Message /\ m.type = "peerClosed" /\ m.peer = i
        /\ Send(m) \/ wire' = wire
    BY <1>4 DEF Message, PeerMessage, PeerLeaves, PeerReplaced
  <2>2. joined' = joined \ {i} /\ orphans' = orphans \cup OwnedBy(i)
    BY <1>4 DEF PeerLeaves, PeerReplaced
  <2> HIDE DEF m
  <2>3. Told(m)'
    BY <2>1 DEF Told
  <2>4. \A j \in PeerId : j \in joined' => j \in joined /\ ~AboutPeer(m, j)
    BY <2>1, <2>2 DEF AboutPeer
  <2>5. ASSUME NEW c \in Consumer, Owned(c)'
        PROVE  /\ Owned(c) /\ owner'[c] \in joined' /\ ~AboutPeer(m, owner'[c])
    <3>1. Owned(c) /\ owner[c] # i
      BY <1>1, <2>2, <2>5 DEF Owned, OwnedBy
    <3> QED BY <1>1, <2>1, <2>2, <3>1, OwnerBound DEF AboutPeer
  <2>6. \A c \in Consumer : status'[c] = "sent" /\ Owned(c)' => status[c] = "sent" /\ Owned(c)
    BY <1>1, <2>5
  <2> QED BY <1>1, <1>2, <2>1, <2>3, <2>4, <2>5, <2>6, ServerStep
<1> QED BY <1>3, <1>4

LEMMA ConsumersComeAndGo ==
  ASSUME InStep, TypeOK', NEW c \in Consumer,
         \/ ConsumerCreated(c) \/ ProducerClosed(c) \/ ConsumerUpdated(c)
         \/ \E i \in PeerId \cup {Bot} : Consume(c, i)
  PROVE  InStep'
<1>1. joined' = joined /\ UNCHANGED <<inRoom, client>>
  BY DEF ConsumerCreated, ProducerClosed, ConsumerUpdated, Consume, server
<1>2. status[c] # "none" => owner' = owner
  BY DEF ConsumerCreated, ProducerClosed, ConsumerUpdated, Consume, server
<1>3. \A d \in Consumer : d # c => status'[d] = status[d] /\ owner'[d] = owner[d]
                                   /\ (d \in orphans' <=> d \in orphans)
  BY DEF ConsumerCreated, ProducerClosed, ConsumerUpdated, Consume, server, InStep, TypeOK
<1>4. \A d \in Consumer : d # c => (Owned(d)' <=> Owned(d))
  BY <1>3 DEF Owned
<1>5. PICK m \in ConsumerMessage :
        /\ Send(m) \/ wire' = wire
        /\ Send(m) => Told(m)'
        /\ status'[c] = "sent" /\ Owned(c)' =>
             (status[c] = "sent" /\ Owned(c)) \/ (Send(m) /\ Announces(m, c))
  <2>1. \A t \in {"newConsumer", "consumerClosed", "consumerUpdate"} :
          [type |-> t, consumer |-> c] \in ConsumerMessage
    BY DEF ConsumerMessage
  <2>2. status \in [Consumer -> {"none", "consuming", "sent", "closed"}]
    BY DEF InStep, TypeOK
  <2>3. CASE ConsumerCreated(c)
    <3> DEFINE m == [type |-> "newConsumer", consumer |-> c]
    <3>1. m \in ConsumerMessage /\ m.type = "newConsumer" /\ m.consumer = c /\ Send(m)
      BY <2>1, <2>3 DEF ConsumerCreated
    <3>2. status'[c] = "sent"
      BY <2>2, <2>3 DEF ConsumerCreated
    <3> HIDE DEF m
    <3>3. Told(m)' /\ Announces(m, c)
      BY <3>1, <3>2 DEF Told, Announces
    <3> QED BY <3>1, <3>3
  <2>4. CASE ProducerClosed(c)
    <3> DEFINE m == [type |-> "consumerClosed", consumer |-> c]
    <3>1. m \in ConsumerMessage /\ m.type = "consumerClosed" /\ m.consumer = c /\ Send(m)
      BY <2>1, <2>4 DEF ProducerClosed
    <3>2. status'[c] = "closed"
      BY <2>2, <2>4 DEF ProducerClosed
    <3> HIDE DEF m
    <3>3. Told(m)'
      BY <3>1, <3>2 DEF Told
    <3> QED BY <3>1, <3>2, <3>3
  <2>5. CASE ConsumerUpdated(c)
    <3> DEFINE m == [type |-> "consumerUpdate", consumer |-> c]
    <3>1. m \in ConsumerMessage /\ m.type = "consumerUpdate" /\ m.consumer = c /\ Send(m)
      BY <2>1, <2>5 DEF ConsumerUpdated
    <3>2. status[c] = "sent" /\ status' = status /\ owner' = owner /\ orphans' = orphans
      BY <2>5 DEF ConsumerUpdated, server
    <3> HIDE DEF m
    <3>3. Told(m)'
      BY <3>1, <3>2 DEF Told
    <3> QED BY <3>1, <3>2, <3>3 DEF Owned
  <2>6. CASE \E i \in PeerId \cup {Bot} : Consume(c, i)
    <3> DEFINE m == [type |-> "consumerUpdate", consumer |-> c]
    <3>1. m \in ConsumerMessage /\ m.type = "consumerUpdate" /\ m.consumer = c
      BY <2>1
    <3>2. wire' = wire /\ status'[c] = "consuming"
      BY <2>2, <2>6 DEF Consume
    <3> HIDE DEF m
    <3>3. Told(m)'
      BY <3>1, <3>2 DEF Told
    <3> QED BY <3>1, <3>2, <3>3
  <2> QED BY <2>3, <2>4, <2>5, <2>6
<1>6. m \in Message /\ \A i : ~AboutPeer(m, i)
  BY MessageTypes DEF Message
<1>7. \A d \in Consumer : status[d] # "none" => status'[d] # "none" /\ owner'[d] = owner[d]
  <2>1. status[c] # "none" => status'[c] # "none"
    BY DEF ConsumerCreated, ProducerClosed, ConsumerUpdated, Consume, server, InStep, TypeOK
  <2> QED BY <1>2, <1>3, <2>1
<1>8. \A d \in Consumer : status[d] = "closed" => status'[d] = "closed"
  <2>1. status[c] = "closed" => status'[c] = "closed"
    BY DEF ConsumerCreated, ProducerClosed, ConsumerUpdated, Consume, server
  <2> QED BY <1>3, <2>1
<1>9. ~inRoom => \A d \in Consumer : status'[d] \in {"none", "closed"}
  <2>1. SUFFICES ASSUME ~inRoom PROVE FALSE
    OBVIOUS
  <2>2. status[c] \in {"none", "closed"}
    BY <2>1 DEF InStep, OutsideSound
  <2> QED BY <2>1, <2>2 DEF ConsumerCreated, ProducerClosed, ConsumerUpdated, Consume
<1>10. ASSUME NEW d \in Consumer, Owned(d)'
       PROVE  (Owned(d) \/ status[d] = "none") /\ owner'[d] \in joined'
  <2>1. CASE Owned(d)
    <3>1. owner'[d] = owner[d]
      BY <1>7, <2>1 DEF Owned
    <3> QED BY <1>1, <2>1, <3>1, OwnerBound
  <2>2. CASE ~Owned(d)
    <3>1. d = c
      BY <1>4, <1>10, <2>2
    <3>2. PICK i \in PeerId \cup {Bot} : Consume(c, i)
      <4>1. \/ ConsumerCreated(c) \/ ProducerClosed(c) \/ ConsumerUpdated(c)
            => ~(Owned(c)' /\ ~Owned(c))
        BY DEF ConsumerCreated, ProducerClosed, ConsumerUpdated, Owned, server
      <4> QED BY <1>10, <2>2, <3>1, <4>1
    <3>3. owner'[c] = i
      BY <3>2 DEF Consume, InStep, TypeOK
    <3> QED BY <1>1, <1>10, <3>1, <3>2, <3>3 DEF Consume, Owned
  <2> QED BY <2>1, <2>2
<1>11. \A d \in Consumer : status'[d] = "sent" /\ Owned(d)' =>
         (status[d] = "sent" /\ Owned(d)) \/ (Send(m) /\ Announces(m, d))
  BY <1>3, <1>4, <1>5
<1> QED BY <1>1, <1>5, <1>6, <1>7, <1>8, <1>9, <1>10, <1>11, ServerStep

-----------------------------------------------------------------------------
(* The client's connection.                                                *)

LEMMA JoinRoomInStep ==
  ASSUME InStep, TypeOK', JoinRoom
  PROVE  InStep'
<1>1. /\ wire = <<>> /\ tasks = <<>> /\ \A c \in Consumer : status[c] \in {"none", "closed"}
      /\ inRoom' = TRUE /\ peers' = [i \in joined |-> {}]
      /\ wire' = wire /\ tasks' = tasks /\ joined' = joined /\ status' = status
      /\ owner' = owner /\ orphans' = orphans
  BY DEF JoinRoom, server, InStep, OutsideSound
<1>2. Len(wire') = 0 /\ Len(tasks') = 0
  BY <1>1, EmptySeq
<1>3. MessagesSound' /\ OutsideSound'
  BY <1>1, <1>2 DEF MessagesSound, OutsideSound
<1>4. ListsSound'
  BY <1>1 DEF ListsSound, ListedIsKnown
<1>5. \A i \in PeerId : PeerSound(i)'
  BY <1>1, <1>2 DEF PeerSound
<1>6. ASSUME NEW c \in Consumer PROVE OrderSound(c)' /\ ShownSound(c)'
  <2>1. Owned(c)' => owner'[c] \in joined'
    BY <1>1 DEF InStep, OrderSound, Owned
  <2> QED BY <1>1, <1>2, <2>1 DEF OrderSound, ShownSound
<1> QED BY <1>3, <1>4, <1>5, <1>6 DEF InStep

LEMMA DisconnectedInStep ==
  ASSUME InStep, TypeOK', Disconnected
  PROVE  InStep'
<1>1. /\ wire' = <<>> /\ tasks' = tasks /\ inRoom' = FALSE /\ peers' = << >>
      /\ status' = [c \in Consumer |-> IF status[c] = "none" THEN "none" ELSE "closed"]
      /\ joined' = joined /\ owner' = owner /\ orphans' = orphans
  BY DEF Disconnected, ClearStore
<1>2. Len(wire') = 0 /\ DOMAIN peers' = {}
  BY <1>1, EmptySeq
<1>3. MessagesSound'
  <2>1. \A k \in 1 .. Len(tasks) : tasks[k] \in ConsumerMessage /\ Told(tasks[k])
    BY ElementOfSeq DEF InStep, TypeOK, MessagesSound
  <2>2. \A m \in ConsumerMessage : m.consumer \in Consumer
    BY DEF ConsumerMessage
  <2>3. \A k \in 1 .. Len(tasks') : Told(tasks[k])'
    BY <1>1, <2>1, <2>2 DEF Told
  <2> QED BY <1>2, <2>3 DEF MessagesSound
<1>4. OutsideSound' /\ ListsSound'
  BY <1>1, <1>2 DEF OutsideSound, ListsSound, ListedIsKnown
<1>5. \A i \in PeerId : PeerSound(i)'
  BY <1>1 DEF PeerSound
<1>6. ASSUME NEW c \in Consumer PROVE OrderSound(c)' /\ ShownSound(c)'
  <2>1. Owned(c)' => Owned(c) /\ owner'[c] \in joined'
    BY <1>1 DEF InStep, OrderSound, Owned
  <2> QED BY <1>1, <1>2, <2>1 DEF OrderSound, ShownSound
<1> QED BY <1>3, <1>4, <1>5, <1>6 DEF InStep

LEMMA ReceiveAboutPeerInStep ==
  ASSUME InStep, TypeOK', ReceiveAboutPeer
  PROVE  InStep'
<1> DEFINE m == Head(wire)  i == m.peer
<1>1. /\ wire # <<>> /\ m \in PeerMessage /\ wire' = Tail(wire) /\ TypeOK
      /\ joined' = joined /\ status' = status /\ owner' = owner /\ orphans' = orphans
      /\ inRoom' = inRoom /\ tasks' = tasks /\ consumers' = consumers /\ stored' = stored
      /\ failed' = failed /\ cut' = cut
  BY DEF ReceiveAboutPeer, server, InStep
<1>2. /\ Len(wire) \in Nat /\ Len(wire') = Len(wire) - 1 /\ m = wire[1] /\ 1 \in 1 .. Len(wire)
      /\ \A k \in 1 .. Len(wire') : k + 1 \in 1 .. Len(wire) /\ wire'[k] = wire[k + 1]
      /\ \A k \in 1 .. Len(wire) :
           k = 1 \/ (k - 1 \in 1 .. Len(wire') /\ wire'[k - 1] = wire[k])
  BY <1>1, WireRead
<1>3. /\ m.type \in {"newPeer", "peerClosed"} /\ \A c : ~Announces(m, c)
      /\ \A j : AboutPeer(m, j) <=> j = i
  BY <1>1 DEF PeerMessage, Announces, AboutPeer
<1>4. /\ \A j \in DOMAIN peers' : j # i => j \in DOMAIN peers /\ peers'[j] = peers[j]
      /\ \A j \in DOMAIN peers : j # i => j \in DOMAIN peers' /\ peers'[j] = peers[j]
      /\ i \in DOMAIN peers' => m.type = "newPeer" /\ peers'[i] = {}
      /\ m.type = "newPeer" => i \in DOMAIN peers'
  <2>1. peers' = IF m.type = "newPeer"
                 THEN [j \in (DOMAIN peers \ {i}) \cup {i} |-> IF j = i THEN {} ELSE peers[j]]
                 ELSE [j \in DOMAIN peers \ {i} |-> peers[j]]
    BY DEF ReceiveAboutPeer
  <2> HIDE DEF m, i
  <2> QED BY <2>1
<1> HIDE DEF m, i
<1>5. MessagesSound'
  <2>1. \A k \in 1 .. Len(wire') : Told(wire[k])'
    BY <1>1, <1>2 DEF InStep, MessagesSound, Told
  <2>2. \A k \in 1 .. Len(tasks') : Told(tasks[k])'
    BY <1>1 DEF InStep, MessagesSound, Told
  <2> QED BY <2>1, <2>2 DEF MessagesSound
<1>6. OutsideSound'
  BY <1>1 DEF InStep, OutsideSound
<1>7. ListsSound'
  <2>1. ASSUME NEW j \in DOMAIN peers', NEW c \in peers'[j]
        PROVE  /\ status[c] # "none" /\ owner[c] = j /\ c \in stored
               /\ c \in consumers \/ c \in cut
    BY <1>4, <2>1 DEF InStep, ListsSound, ListedIsKnown
  <2> QED BY <1>1, <2>1 DEF ListsSound, ListedIsKnown
<1>8. ASSUME NEW j \in PeerId PROVE PeerSound(j)'
  <2>1. SUFFICES ASSUME inRoom, j \in joined
                 PROVE  /\ j \in DOMAIN peers' \/ \E k \in 1 .. Len(wire') : AboutPeer(wire'[k], j)
                        /\ \A k \in 1 .. Len(wire') : AboutPeer(wire'[k], j) =>
                             \E l \in k .. Len(wire') :
                               AboutPeer(wire'[l], j) /\ wire'[l].type = "newPeer"
    BY <1>1 DEF PeerSound, AboutPeer
  <2>2. /\ j \in DOMAIN peers \/ \E k \in 1 .. Len(wire) : AboutPeer(wire[k], j)
        /\ \A k \in 1 .. Len(wire) : AboutPeer(wire[k], j) =>
             \E l \in k .. Len(wire) : AboutPeer(wire[l], j) /\ wire[l].type = "newPeer"
    BY <2>1 DEF InStep, PeerSound
  <2>3. ASSUME NEW k \in 1 .. Len(wire'), AboutPeer(wire'[k], j)
        PROVE  \E l \in k .. Len(wire') : AboutPeer(wire'[l], j) /\ wire'[l].type = "newPeer"
    <3>1. k + 1 \in 1 .. Len(wire) /\ AboutPeer(wire[k + 1], j)
      BY <1>2, <2>3
    <3>2. PICK l \in k + 1 .. Len(wire) : AboutPeer(wire[l], j) /\ wire[l].type = "newPeer"
      BY <2>2, <3>1
    <3>3. l - 1 \in k .. Len(wire') /\ l \in 1 .. Len(wire) /\ l # 1
      BY <1>2, <3>1, <3>2
    <3> QED BY <1>2, <3>2, <3>3
  <2>4. j \in DOMAIN peers' \/ \E k \in 1 .. Len(wire') : AboutPeer(wire'[k], j)
    <3>1. CASE j # i
      <4>1. ASSUME NEW k \in 1 .. Len(wire), AboutPeer(wire[k], j)
            PROVE  \E l \in 1 .. Len(wire') : AboutPeer(wire'[l], j)
        BY <1>2, <1>3, <3>1, <4>1
      <4> QED BY <1>4, <2>2, <3>1, <4>1
    <3>2. CASE j = i /\ m.type = "newPeer"
      BY <1>4, <3>2
    <3>3. CASE j = i /\ m.type # "newPeer"
      <4>1. PICK l \in 1 .. Len(wire) : AboutPeer(wire[l], j) /\ wire[l].type = "newPeer"
        BY <1>2, <1>3, <2>2, <3>3
      <4> QED BY <1>2, <3>3, <4>1
    <3> QED BY <3>1, <3>2, <3>3
  <2> QED BY <2>3, <2>4
<1>9. ASSUME NEW c \in Consumer, Owned(c) PROVE OrderSound(c)' /\ ShownSound(c)'
  <2>1. OrderSound(c) /\ ShownSound(c) /\ owner'[c] = owner[c]
    BY <1>1 DEF InStep
  <2>2. Listed(c)' => Listed(c)
    BY <1>1, <1>4 DEF Listed
  <2>3. Queued(c)' <=> Queued(c)
    BY <1>1 DEF Queued, Announces
  <2>4. OnWire(c)' <=> OnWire(c)
    <3>1. OnWire(c)' => OnWire(c)
      BY <1>2 DEF OnWire, Announces
    <3>2. OnWire(c) => OnWire(c)'
      BY <1>2, <1>3 DEF OnWire, Announces
    <3> QED BY <3>1, <3>2
  <2>5. \A k \in 1 .. Len(wire') : Announces(wire'[k], c) =>
          \A l \in k .. Len(wire') : ~AboutPeer(wire'[l], owner[c])
    <3>1. \A k \in 1 .. Len(wire') : \A l \in k .. Len(wire') :
            l + 1 \in k + 1 .. Len(wire) /\ l \in 1 .. Len(wire')
      BY <1>2
    <3> QED BY <1>2, <1>9, <2>1, <3>1 DEF OrderSound
  <2>6. Queued(c) \/ Listed(c) => \A k \in 1 .. Len(wire') : ~AboutPeer(wire'[k], owner[c])
    BY <1>2, <1>9, <2>1 DEF OrderSound
  <2>7. Listed(c) => Listed(c)'
    <3>1. Listed(c) => owner[c] # i
      BY <1>2, <1>3, <1>9, <2>1 DEF OrderSound
    <3> QED BY <1>1, <1>4, <3>1 DEF Listed
  <2>8. OrderSound(c)'
    BY <1>1, <1>9, <2>1, <2>2, <2>3, <2>5, <2>6 DEF OrderSound, AboutPeer, Announces
  <2>9. ShownSound(c)'
    BY <1>1, <1>9, <2>1, <2>3, <2>4, <2>7 DEF ShownSound
  <2> QED BY <2>8, <2>9
<1>10. \A c \in Consumer : OrderSound(c)' /\ ShownSound(c)'
  <2>1. \A c \in Consumer : Owned(c)' => Owned(c)
    BY <1>1 DEF Owned
  <2> QED BY <1>9, <2>1 DEF OrderSound, ShownSound
<1> QED BY <1>5, <1>6, <1>7, <1>8, <1>10 DEF InStep

LEMMA ReceiveAboutConsumerInStep ==
  ASSUME InStep, TypeOK', ReceiveAboutConsumer
  PROVE  InStep'
<1> DEFINE m == Head(wire)
<1>1. /\ wire # <<>> /\ m \in ConsumerMessage /\ wire' = Tail(wire) /\ TypeOK
      /\ tasks' = Append(tasks, m)
      /\ joined' = joined /\ status' = status /\ owner' = owner /\ orphans' = orphans
      /\ inRoom' = inRoom /\ consumers' = consumers /\ stored' = stored /\ peers' = peers
      /\ failed' = failed /\ cut' = cut
  BY DEF ReceiveAboutConsumer, server, InStep
<1>2. /\ Len(wire) \in Nat /\ Len(wire') = Len(wire) - 1 /\ m = wire[1] /\ 1 \in 1 .. Len(wire)
      /\ \A k \in 1 .. Len(wire') : k + 1 \in 1 .. Len(wire) /\ wire'[k] = wire[k + 1]
      /\ \A k \in 1 .. Len(wire) :
           k = 1 \/ (k - 1 \in 1 .. Len(wire') /\ wire'[k - 1] = wire[k])
  BY <1>1, WireRead
<1>3. \A j : ~AboutPeer(m, j)
  BY <1>1 DEF ConsumerMessage, AboutPeer
<1> HIDE DEF m
<1>4. /\ \A k \in 1 .. Len(tasks') : tasks'[k] = m \/ \E l \in 1 .. Len(tasks) : tasks'[k] = tasks[l]
      /\ \A c : Queued(c)' <=> Queued(c) \/ Announces(m, c)
  BY <1>1, TasksGrow
<1>5. MessagesSound'
  <2>1. \A k \in 1 .. Len(wire') : Told(wire[k])'
    BY <1>1, <1>2 DEF InStep, MessagesSound, Told
  <2>2. Told(m)
    BY <1>2 DEF InStep, MessagesSound
  <2>3. \A k \in 1 .. Len(tasks') : Told(tasks[k])'
    BY <1>1, <1>4, <2>2 DEF InStep, MessagesSound, Told
  <2> QED BY <2>1, <2>3 DEF MessagesSound
<1>6. OutsideSound' /\ ListsSound'
  BY <1>1 DEF InStep, OutsideSound, ListsSound, ListedIsKnown
<1>7. ASSUME NEW j \in PeerId PROVE PeerSound(j)'
  <2>1. SUFFICES ASSUME inRoom, j \in joined
                 PROVE  /\ j \in DOMAIN peers' \/ \E k \in 1 .. Len(wire') : AboutPeer(wire'[k], j)
                        /\ \A k \in 1 .. Len(wire') : AboutPeer(wire'[k], j) =>
                             \E l \in k .. Len(wire') :
                               AboutPeer(wire'[l], j) /\ wire'[l].type = "newPeer"
    BY <1>1 DEF PeerSound, AboutPeer
  <2>2. /\ j \in DOMAIN peers \/ \E k \in 1 .. Len(wire) : AboutPeer(wire[k], j)
        /\ \A k \in 1 .. Len(wire) : AboutPeer(wire[k], j) =>
             \E l \in k .. Len(wire) : AboutPeer(wire[l], j) /\ wire[l].type = "newPeer"
    BY <2>1 DEF InStep, PeerSound
  <2>3. ASSUME NEW k \in 1 .. Len(wire'), AboutPeer(wire'[k], j)
        PROVE  \E l \in k .. Len(wire') : AboutPeer(wire'[l], j) /\ wire'[l].type = "newPeer"
    <3>1. k + 1 \in 1 .. Len(wire) /\ AboutPeer(wire[k + 1], j)
      BY <1>2, <2>3
    <3>2. PICK l \in k + 1 .. Len(wire) : AboutPeer(wire[l], j) /\ wire[l].type = "newPeer"
      BY <2>2, <3>1
    <3>3. l - 1 \in k .. Len(wire') /\ l \in 1 .. Len(wire) /\ l # 1
      BY <1>2, <3>1, <3>2
    <3> QED BY <1>2, <3>2, <3>3
  <2>4. j \in DOMAIN peers' \/ \E k \in 1 .. Len(wire') : AboutPeer(wire'[k], j)
    BY <1>1, <1>2, <1>3, <2>2
  <2> QED BY <2>3, <2>4
<1>8. ASSUME NEW c \in Consumer, Owned(c) PROVE OrderSound(c)' /\ ShownSound(c)'
  <2>1. OrderSound(c) /\ ShownSound(c) /\ owner'[c] = owner[c] /\ (Listed(c)' <=> Listed(c))
    BY <1>1 DEF InStep, Listed
  <2>2. \A k \in 1 .. Len(wire') : Announces(wire'[k], c) =>
          \A l \in k .. Len(wire') : ~AboutPeer(wire'[l], owner[c])
    <3>1. \A k \in 1 .. Len(wire') : \A l \in k .. Len(wire') :
            l + 1 \in k + 1 .. Len(wire) /\ l \in 1 .. Len(wire')
      BY <1>2
    <3> QED BY <1>2, <1>8, <2>1, <3>1 DEF OrderSound
  <2>3. Queued(c)' \/ Listed(c)' => \A k \in 1 .. Len(wire') : ~AboutPeer(wire'[k], owner[c])
    <3>1. CASE Queued(c) \/ Listed(c)
      BY <1>2, <1>8, <2>1, <3>1 DEF OrderSound
    <3>2. CASE Announces(m, c)
      <4>1. \A l \in 1 .. Len(wire) : ~AboutPeer(wire[l], owner[c])
        BY <1>2, <1>8, <2>1, <3>2 DEF OrderSound
      <4> QED BY <1>2, <4>1
    <3> QED BY <1>4, <2>1, <3>1, <3>2
  <2>4. OnWire(c) => OnWire(c)' \/ Announces(m, c)
    BY <1>2 DEF OnWire, Announces
  <2>5. OrderSound(c)'
    BY <1>1, <1>8, <2>1, <2>2, <2>3 DEF OrderSound, AboutPeer, Announces
  <2>6. ShownSound(c)'
    BY <1>1, <1>4, <1>8, <2>1, <2>4 DEF ShownSound
  <2> QED BY <2>5, <2>6
<1>9. \A c \in Consumer : OrderSound(c)' /\ ShownSound(c)'
  <2>1. \A c \in Consumer : Owned(c)' => Owned(c)
    BY <1>1 DEF Owned
  <2> QED BY <1>8, <2>1 DEF OrderSound, ShownSound
<1> QED BY <1>5, <1>6, <1>7, <1>9 DEF InStep

-----------------------------------------------------------------------------
(* The queue.                                                              *)

\* What the tasks, and the other steps that the client takes alone, have in common.
LEMMA QueueStep ==
  ASSUME InStep, TypeOK', UNCHANGED <<server, wire, inRoom>>,
         tasks' = tasks \/ (tasks # <<>> /\ tasks' = Tail(tasks)),
         failed \subseteq failed', ListsSound', DOMAIN peers' = DOMAIN peers,
         \A c \in Consumer : Owned(c) /\ Listed(c)' => Listed(c) \/ Queued(c),
         \A c \in Consumer : inRoom /\ status[c] = "sent" /\ Owned(c) /\ c \notin failed' =>
           /\ Listed(c) => Listed(c)'
           /\ Queued(c) => Queued(c)' \/ Listed(c)'
  PROVE  InStep'
<1>1. /\ joined' = joined /\ status' = status /\ owner' = owner /\ orphans' = orphans
      /\ wire' = wire /\ inRoom' = inRoom
  BY DEF server
<1>2. /\ \A k \in 1 .. Len(tasks') : \E l \in 1 .. Len(tasks) : tasks'[k] = tasks[l]
      /\ \A c : Queued(c)' => Queued(c)
  <2>1. CASE tasks' = tasks
    BY <2>1 DEF Queued, Announces
  <2>2. CASE tasks # <<>> /\ tasks' = Tail(tasks)
    BY <2>2, TasksRun DEF InStep
  <2> QED BY <2>1, <2>2
<1>3. MessagesSound'
  <2>1. \A k \in 1 .. Len(wire') : Told(wire[k])'
    BY <1>1 DEF InStep, MessagesSound, Told
  <2>2. \A k \in 1 .. Len(tasks') : Told(tasks[k])'
    BY <1>1, <1>2 DEF InStep, MessagesSound, Told
  <2> QED BY <2>1, <2>2 DEF MessagesSound
<1>4. OutsideSound'
  BY <1>1 DEF InStep, OutsideSound
<1>5. \A i \in PeerId : PeerSound(i)'
  BY <1>1 DEF InStep, PeerSound, AboutPeer
<1>6. ASSUME NEW c \in Consumer PROVE OrderSound(c)' /\ ShownSound(c)'
  <2>1. /\ OrderSound(c) /\ ShownSound(c) /\ (Owned(c)' <=> Owned(c))
        /\ (OnWire(c)' <=> OnWire(c)) /\ owner'[c] = owner[c]
    BY <1>1 DEF InStep, Owned, OnWire, Announces
  <2>2. OrderSound(c)'
    BY <1>1, <1>2, <2>1 DEF OrderSound, AboutPeer, Announces
  <2>3. ShownSound(c)'
    BY <1>1, <2>1 DEF ShownSound
  <2> QED BY <2>2, <2>3
<1> QED BY <1>3, <1>4, <1>5, <1>6 DEF InStep

LEMMA ConsumeFailedInStep ==
  ASSUME InStep, TypeOK', ConsumeFailed
  PROVE  InStep'
<1>1. /\ tasks # <<>> /\ tasks' = Tail(tasks) /\ failed' = failed \cup {Head(tasks).consumer}
      /\ UNCHANGED <<server, wire, inRoom>> /\ status' = status /\ owner' = owner
      /\ peers' = peers /\ consumers' = consumers /\ stored' = stored /\ cut' = cut
  BY DEF ConsumeFailed, Settles, server
<1>2. \A c : Queued(c) => Queued(c)' \/ c \in failed'
  BY <1>1, TasksRun DEF InStep, Announces
<1>3. ListsSound'
  BY <1>1 DEF InStep, ListsSound, ListedIsKnown
<1>4. \A c : Listed(c)' <=> Listed(c)
  BY <1>1 DEF Listed
<1> QED BY <1>1, <1>2, <1>3, <1>4, QueueStep

LEMMA ConsumedInStep ==
  ASSUME InStep, TypeOK', Consumed \/ DataConsumed
  PROVE  InStep'
<1>0. PICK d : d = Head(tasks).consumer
  OBVIOUS
<1>1. /\ tasks # <<>> /\ tasks' = Tail(tasks) /\ Announces(Head(tasks), d)
      /\ inRoom /\ consumers' = consumers \cup {d}
      /\ UNCHANGED <<server, wire, inRoom, failed, cut>> /\ status' = status /\ owner' = owner
  BY <1>0 DEF Consumed, DataConsumed, Enters, Settles, Announces, server
<1>2. \/ peers' = peers /\ stored' = stored /\ owner[d] \notin DOMAIN peers
      \/ /\ peers' = [j \in DOMAIN peers |-> peers[j] \cup (IF j = owner[d] THEN {d} ELSE {})]
         /\ stored' = stored \cup {d}
  BY <1>0 DEF Consumed, DataConsumed, Enters, AddConsumer
<1>3. d \in Consumer /\ status[d] # "none" /\ Queued(d)
  <2>1. Head(tasks) \in ConsumerMessage /\ Head(tasks) = tasks[1] /\ 1 \in 1 .. Len(tasks)
    BY <1>1, TasksRun DEF InStep
  <2>2. Told(Head(tasks))
    BY <2>1 DEF InStep, MessagesSound
  <2> QED BY <1>1, <2>1, <2>2 DEF Told, Announces, ConsumerMessage, Queued
<1>4. \A c : Queued(c) <=> Queued(c)' \/ c = d
  BY <1>1, TasksRun DEF InStep, Announces
<1>5. \A i \in DOMAIN peers : \A c : c \in peers[i] => c \in peers'[i]
  BY <1>2
<1>6. DOMAIN peers' = DOMAIN peers
  BY <1>2
<1>7. \A i \in DOMAIN peers' : \A c \in peers'[i] : c \in peers[i] \/ (c = d /\ i = owner[d] /\ c \in stored')
  BY <1>2
<1>8. stored \subseteq stored'
  BY <1>2
<1>9. ListsSound'
  BY <1>1, <1>3, <1>6, <1>7, <1>8 DEF InStep, ListsSound, ListedIsKnown
<1>10. \A c : (Listed(c) => Listed(c)') /\ (Listed(c)' => Listed(c) \/ c = d)
  BY <1>1, <1>5, <1>6, <1>7 DEF Listed
<1>11. Owned(d) => Listed(d)'
  <2>1. SUFFICES ASSUME Owned(d) PROVE Listed(d)'
    OBVIOUS
  <2>2. /\ owner[d] \in joined /\ owner[d] \in PeerId
        /\ \A k \in 1 .. Len(wire) : ~AboutPeer(wire[k], owner[d])
    BY <1>3, <2>1, OwnerBound DEF InStep, OrderSound
  <2>3. owner[d] \in DOMAIN peers
    BY <1>1, <2>2 DEF InStep, PeerSound
  <2>4. peers' = [j \in DOMAIN peers |-> peers[j] \cup (IF j = owner[d] THEN {d} ELSE {})]
    BY <1>2, <2>3
  <2>5. peers'[owner[d]] = peers[owner[d]] \cup {d}
    BY <2>3, <2>4
  <2> QED BY <1>1, <1>6, <2>3, <2>5 DEF Listed
<1>12. failed \subseteq failed' /\ (tasks # <<>> /\ tasks' = Tail(tasks))
       /\ UNCHANGED <<server, wire, inRoom>>
  BY <1>1
<1>13. \A c \in Consumer : Owned(c) /\ Listed(c)' => Listed(c) \/ Queued(c)
  BY <1>3, <1>10
<1>14. \A c \in Consumer : inRoom /\ status[c] = "sent" /\ Owned(c) /\ c \notin failed' =>
         /\ Listed(c) => Listed(c)'
         /\ Queued(c) => Queued(c)' \/ Listed(c)'
  BY <1>4, <1>10, <1>11
<1> QED BY <1>6, <1>9, <1>12, <1>13, <1>14, QueueStep

LEMMA RunClosedInStep ==
  ASSUME InStep, TypeOK', RunClosed \/ RunDataClosed
  PROVE  InStep'
<1> DEFINE d == Head(tasks).consumer
<1>1. /\ tasks # <<>> /\ tasks' = Tail(tasks) /\ Head(tasks).type = "consumerClosed"
      /\ LeavesMap(d)
  BY DEF RunClosed, RunDataClosed
<1>2. /\ UNCHANGED <<server, wire, inRoom, failed, cut>> /\ status' = status /\ owner' = owner
      /\ consumers' = consumers \ {d}
  BY <1>1 DEF LeavesMap, server
<1>3. \/ peers' = peers /\ stored' = stored /\ (d \in consumers => RemoveThrows(d, owner[d]))
      \/ peers' = [j \in DOMAIN peers |-> peers[j] \ {d}] /\ stored' = stored \ {d}
  BY <1>1 DEF LeavesMap, RemoveConsumer
<1> HIDE DEF d
<1>4. status[d] = "closed" /\ ~Announces(Head(tasks), d) /\ \A c : ~Announces(Head(tasks), c)
  <2>1. Head(tasks) = tasks[1] /\ 1 \in 1 .. Len(tasks)
    BY <1>1, TasksRun DEF InStep
  <2>2. Told(Head(tasks))
    BY <2>1 DEF InStep, MessagesSound
  <2> QED BY <1>1, <2>2 DEF Told, Announces, d
<1>5. \A c : Queued(c) => Queued(c)'
  BY <1>1, <1>4, TasksRun DEF InStep
<1>6. DOMAIN peers' = DOMAIN peers /\ \A i \in DOMAIN peers : peers'[i] \subseteq peers[i]
  BY <1>3
<1>7. \A i \in DOMAIN peers : \A c \in peers'[i] : c \in stored'
  BY <1>3 DEF InStep, ListsSound, ListedIsKnown
<1>8. \A i \in DOMAIN peers : d \in peers'[i] => d \notin consumers
  BY <1>3 DEF InStep, ListsSound, ListedIsKnown, RemoveThrows
<1>9. ListsSound'
  BY <1>2, <1>6, <1>7, <1>8 DEF InStep, ListsSound, ListedIsKnown
<1>10. \A c : (Listed(c)' => Listed(c)) /\ (Listed(c) => Listed(c)' \/ c = d)
  BY <1>2, <1>3, <1>6 DEF Listed
<1> QED BY <1>1, <1>2, <1>4, <1>5, <1>6, <1>9, <1>10, QueueStep

LEMMA RunUpdateInStep ==
  ASSUME InStep, TypeOK', RunUpdate
  PROVE  InStep'
<1>1. /\ tasks # <<>> /\ tasks' = Tail(tasks) /\ Head(tasks).type = "consumerUpdate"
      /\ UNCHANGED <<server, wire, inRoom, failed, cut>> /\ status' = status /\ owner' = owner
      /\ peers' = peers /\ consumers' = consumers /\ stored \subseteq stored'
  BY DEF RunUpdate, server
<1>2. \A c : Queued(c) => Queued(c)'
  BY <1>1, TasksRun DEF InStep, Announces
<1>3. ListsSound'
  BY <1>1 DEF InStep, ListsSound, ListedIsKnown
<1>4. \A c : Listed(c)' <=> Listed(c)
  BY <1>1 DEF Listed
<1> QED BY <1>1, <1>2, <1>3, <1>4, QueueStep

LEMMA ChannelClosedInStep ==
  ASSUME InStep, TypeOK', NEW d \in Consumer, ChannelClosed(d)
  PROVE  InStep'
<1>1. /\ tasks' = tasks /\ UNCHANGED <<server, wire, inRoom, failed>>
      /\ status' = status /\ owner' = owner /\ peers' = peers /\ stored' = stored
      /\ consumers' = consumers \ {d} /\ cut' = cut \cup {d}
  BY DEF ChannelClosed, server
<1>2. \A c : (Listed(c)' <=> Listed(c)) /\ (Queued(c)' <=> Queued(c))
  BY <1>1 DEF Listed, Queued, Announces
<1>3. ListsSound'
  BY <1>1 DEF InStep, ListsSound, ListedIsKnown
<1> QED BY <1>1, <1>2, <1>3, QueueStep

-----------------------------------------------------------------------------
(* Types.                                                                  *)

LEMMA ServerTyped ==
  ASSUME InStep, Next
  PROVE  /\ joined' \subseteq PeerId
         /\ status' \in [Consumer -> {"none", "consuming", "sent", "closed"}]
         /\ owner' \in [Consumer -> PeerId \cup {Bot}] /\ orphans' \subseteq Consumer
         /\ peerEvents' \in 0 .. MaxPeerEvents /\ sessions' \in 0 .. MaxSessions
<1>1. /\ joined \subseteq PeerId
      /\ status \in [Consumer -> {"none", "consuming", "sent", "closed"}]
      /\ owner \in [Consumer -> PeerId \cup {Bot}] /\ orphans \subseteq Consumer
      /\ peerEvents \in 0 .. MaxPeerEvents /\ sessions \in 0 .. MaxSessions
      /\ MaxPeerEvents \in Nat /\ MaxSessions \in Nat
  BY BoundsAssumption DEF InStep, TypeOK
<1>2. CASE \E i \in PeerId : PeerJoins(i) \/ PeerLeaves(i) \/ PeerReplaced(i)
  BY <1>1, <1>2 DEF PeerJoins, PeerLeaves, PeerReplaced, PeerEvent, OwnedBy
<1>3. CASE \E c \in Consumer :
             \/ ConsumerCreated(c) \/ ProducerClosed(c)
             \/ \E i \in PeerId \cup {Bot} : Consume(c, i)
  BY <1>1, <1>3 DEF ConsumerCreated, ProducerClosed, Consume, bounds
<1>4. CASE JoinRoom \/ Disconnected
  BY <1>1, <1>4 DEF JoinRoom, Disconnected, server, bounds
<1>5. CASE \/ ReceiveAboutPeer \/ ReceiveAboutConsumer \/ ConsumeFailed \/ Consumed
           \/ DataConsumed \/ RunClosed \/ RunDataClosed \/ RunUpdate
           \/ \E c \in Consumer : ChannelClosed(c) \/ ConsumerUpdated(c)
  <2>1. UNCHANGED <<server, bounds>>
    BY <1>5 DEF ReceiveAboutPeer, ReceiveAboutConsumer, ConsumeFailed, Consumed, DataConsumed,
                Enters, RunClosed, RunDataClosed, LeavesMap, RunUpdate, ChannelClosed,
                ConsumerUpdated
  <2> QED BY <1>1, <2>1 DEF server, bounds
<1> QED BY <1>2, <1>3, <1>4, <1>5 DEF Next

LEMMA MessagesTyped ==
  ASSUME InStep, Next
  PROVE  wire' \in Seq(Message) /\ tasks' \in Seq(ConsumerMessage) /\ inRoom' \in BOOLEAN
<1>1. /\ wire \in Seq(Message) /\ tasks \in Seq(ConsumerMessage) /\ inRoom \in BOOLEAN /\ TypeOK
  BY DEF InStep, TypeOK, Message
<1>2. CASE \E i \in PeerId : PeerJoins(i) \/ PeerLeaves(i) \/ PeerReplaced(i)
  <2>1. PICK i \in PeerId : PeerJoins(i) \/ PeerLeaves(i) \/ PeerReplaced(i)
    BY <1>2
  <2>2. PICK m \in Message : Send(m) \/ wire' = wire
    <3>1. \A t \in {"newPeer", "peerClosed"} : [type |-> t, peer |-> i] \in Message
      BY DEF Message, PeerMessage
    <3> QED BY <2>1, <3>1 DEF PeerJoins, PeerLeaves, PeerReplaced
  <2>3. tasks' = tasks /\ inRoom' = inRoom
    BY <2>1 DEF PeerJoins, PeerLeaves, PeerReplaced, PeerEvent, client
  <2> QED BY <1>1, <2>2, <2>3, WireGrows
<1>3. CASE \E c \in Consumer :
             \/ ConsumerCreated(c) \/ ProducerClosed(c) \/ ConsumerUpdated(c)
             \/ \E i \in PeerId \cup {Bot} : Consume(c, i)
  <2>1. PICK c \in Consumer :
             \/ ConsumerCreated(c) \/ ProducerClosed(c) \/ ConsumerUpdated(c)
             \/ \E i \in PeerId \cup {Bot} : Consume(c, i)
    BY <1>3
  <2>2. PICK m \in Message : Send(m) \/ wire' = wire
    <3>1. \A t \in {"newConsumer", "consumerClosed", "consumerUpdate"} :
            [type |-> t, consumer |-> c] \in Message
      BY DEF Message, ConsumerMessage
    <3> QED BY <2>1, <3>1 DEF ConsumerCreated, ProducerClosed, ConsumerUpdated, Consume
  <2>3. tasks' = tasks /\ inRoom' = inRoom
    BY <2>1 DEF ConsumerCreated, ProducerClosed, ConsumerUpdated, Consume, client
  <2> QED BY <1>1, <2>2, <2>3, WireGrows
<1>4. CASE JoinRoom \/ Disconnected
  <2>1. <<>> \in Seq(Message)
    BY EmptySeq
  <2> QED BY <1>1, <1>4, <2>1 DEF JoinRoom, Disconnected
<1>5. CASE ReceiveAboutPeer
  BY <1>1, <1>5, WireRead DEF ReceiveAboutPeer
<1>6. CASE ReceiveAboutConsumer
  <2>1. wire' \in Seq(Message)
    BY <1>1, <1>6, WireRead DEF ReceiveAboutConsumer
  <2>2. tasks' \in Seq(ConsumerMessage)
    BY <1>1, <1>6, TasksGrow DEF ReceiveAboutConsumer
  <2> QED BY <1>1, <1>6, <2>1, <2>2 DEF ReceiveAboutConsumer
<1>7. CASE ConsumeFailed \/ Consumed \/ DataConsumed \/ RunClosed \/ RunDataClosed \/ RunUpdate
  <2>1. tasks # <<>> /\ tasks' = Tail(tasks) /\ wire' = wire /\ inRoom' = inRoom
    BY <1>7 DEF ConsumeFailed, Consumed, DataConsumed, Settles, Enters, RunClosed, RunDataClosed,
                LeavesMap, RunUpdate
  <2> QED BY <1>1, <2>1, TasksRun
<1>8. CASE \E c \in Consumer : ChannelClosed(c)
  BY <1>1, <1>8 DEF ChannelClosed
<1> QED BY <1>2, <1>3, <1>4, <1>5, <1>6, <1>7, <1>8 DEF Next

LEMMA StoreTyped ==
  ASSUME InStep, Next
  PROVE  /\ consumers' \subseteq Consumer /\ stored' \subseteq Consumer
         /\ DOMAIN peers' \subseteq PeerId /\ \A i \in DOMAIN peers' : peers'[i] \subseteq Consumer
         /\ thrown' \subseteq Consumer /\ failed' \subseteq Consumer /\ cut' \subseteq DataConsumer
<1>1. /\ consumers \subseteq Consumer /\ stored \subseteq Consumer /\ joined \subseteq PeerId
      /\ DOMAIN peers \subseteq PeerId /\ \A i \in DOMAIN peers : peers[i] \subseteq Consumer
      /\ thrown \subseteq Consumer /\ failed \subseteq Consumer /\ cut \subseteq DataConsumer
  BY DEF InStep, TypeOK
<1>2. tasks # <<>> => Head(tasks).consumer \in Consumer
  <2>1. SUFFICES ASSUME tasks # <<>> PROVE Head(tasks) \in ConsumerMessage
    BY DEF ConsumerMessage
  <2>2. tasks \in Seq(ConsumerMessage)
    BY DEF InStep, TypeOK
  <2> QED BY <2>1, <2>2, HeadTailProperties
<1>3. CASE JoinRoom \/ Disconnected
  <2>1. CASE JoinRoom
    BY <1>1, <2>1 DEF JoinRoom
  <2>2. CASE Disconnected
    BY <1>1, <2>2 DEF Disconnected, ClearStore
  <2> QED BY <1>3, <2>1, <2>2
<1>4. CASE ReceiveAboutPeer
  <2>1. Head(wire).peer \in PeerId
    BY <1>4 DEF ReceiveAboutPeer, PeerMessage
  <2> QED BY <1>1, <1>4, <2>1 DEF ReceiveAboutPeer
<1>5. CASE ConsumeFailed
  BY <1>1, <1>2, <1>5 DEF ConsumeFailed, Settles
<1>6. CASE Consumed \/ DataConsumed
  BY <1>1, <1>2, <1>6 DEF Consumed, DataConsumed, Settles, Enters, AddConsumer
<1>7. CASE RunClosed \/ RunDataClosed
  BY <1>1, <1>2, <1>7 DEF RunClosed, RunDataClosed, LeavesMap, RemoveConsumer
<1>8. CASE RunUpdate
  BY <1>1, <1>2, <1>8 DEF RunUpdate
<1>9. CASE \E c \in Consumer : ChannelClosed(c)
  BY <1>1, <1>9 DEF ChannelClosed
<1>10. CASE \/ ReceiveAboutConsumer
            \/ \E i \in PeerId : PeerJoins(i) \/ PeerLeaves(i) \/ PeerReplaced(i)
            \/ \E c \in Consumer :
                 \/ ConsumerCreated(c) \/ ProducerClosed(c) \/ ConsumerUpdated(c)
                 \/ \E i \in PeerId \cup {Bot} : Consume(c, i)
  <2>1. UNCHANGED <<consumers, peers, stored, thrown, failed, cut>>
    BY <1>10 DEF ReceiveAboutConsumer, PeerJoins, PeerLeaves, PeerReplaced, PeerEvent,
                 ConsumerCreated, ProducerClosed, ConsumerUpdated, Consume, client
  <2> QED BY <1>1, <2>1
<1> QED BY <1>3, <1>4, <1>5, <1>6, <1>7, <1>8, <1>9, <1>10 DEF Next

-----------------------------------------------------------------------------
(* The theorems.                                                           *)

LEMMA InitInStep ==
  ASSUME Init
  PROVE  InStep
<1>1. Len(wire) = 0 /\ Len(tasks) = 0 /\ wire \in Seq(Message) /\ tasks \in Seq(ConsumerMessage)
  BY EmptySeq DEF Init
<1>2. DOMAIN peers = {}
  BY DEF Init
<1>3. TypeOK
  <2>1. 0 \in 0 .. MaxPeerEvents /\ 0 \in 0 .. MaxSessions
    BY BoundsAssumption
  <2>2. /\ status \in [Consumer -> {"none", "consuming", "sent", "closed"}]
        /\ owner \in [Consumer -> PeerId \cup {Bot}]
    BY DEF Init
  <2>3. \A i \in DOMAIN peers : peers[i] \subseteq Consumer
    BY <1>2
  <2> QED BY <1>1, <1>2, <2>1, <2>2, <2>3 DEF Init, TypeOK, Message
<1>4. MessagesSound /\ OutsideSound /\ ListsSound
  BY <1>1, <1>2 DEF Init, MessagesSound, OutsideSound, ListsSound, ListedIsKnown
<1>5. \A i \in PeerId : PeerSound(i)
  BY DEF Init, PeerSound
<1>6. \A c \in Consumer : OrderSound(c) /\ ShownSound(c)
  BY DEF Init, OrderSound, ShownSound, Owned
<1> QED BY <1>3, <1>4, <1>5, <1>6 DEF InStep

LEMMA NextInStep ==
  ASSUME InStep, [Next]_vars
  PROVE  InStep'
<1>1. CASE Next
  <2>1. TypeOK'
    BY <1>1, ServerTyped, MessagesTyped, StoreTyped DEF TypeOK, Message
  <2>2. CASE \E i \in PeerId : PeerJoins(i) \/ PeerLeaves(i) \/ PeerReplaced(i)
    BY <2>1, <2>2, PeersComeAndGo
  <2>3. CASE \E c \in Consumer :
               \/ ConsumerCreated(c) \/ ProducerClosed(c) \/ ConsumerUpdated(c)
               \/ \E i \in PeerId \cup {Bot} : Consume(c, i)
    BY <2>1, <2>3, ConsumersComeAndGo
  <2>4. CASE \E c \in Consumer : ChannelClosed(c)
    BY <2>1, <2>4, ChannelClosedInStep
  <2>5. CASE JoinRoom \/ Disconnected
    BY <2>1, <2>5, JoinRoomInStep, DisconnectedInStep
  <2>6. CASE ReceiveAboutPeer \/ ReceiveAboutConsumer
    BY <2>1, <2>6, ReceiveAboutPeerInStep, ReceiveAboutConsumerInStep
  <2>7. CASE \/ ConsumeFailed \/ Consumed \/ DataConsumed \/ RunClosed \/ RunDataClosed
             \/ RunUpdate
    BY <2>1, <2>7, ConsumeFailedInStep, ConsumedInStep, RunClosedInStep, RunUpdateInStep
  <2> QED BY <1>1, <2>2, <2>3, <2>4, <2>5, <2>6, <2>7 DEF Next
<1>2. CASE UNCHANGED vars
  <2>1. TypeOK'
    BY <1>2 DEF InStep, TypeOK, vars, server, client, bounds
  <2>2. /\ UNCHANGED <<server, wire, inRoom>> /\ tasks' = tasks /\ failed' = failed
        /\ peers' = peers /\ status' = status /\ owner' = owner /\ stored' = stored
        /\ consumers' = consumers /\ cut' = cut
    BY <1>2 DEF vars, client, server
  <2>3. ListsSound'
    BY <2>2 DEF InStep, ListsSound, ListedIsKnown
  <2>4. \A c : (Listed(c)' <=> Listed(c)) /\ (Queued(c)' <=> Queued(c))
    BY <2>2 DEF Listed, Queued, Announces
  <2> QED BY <2>1, <2>2, <2>3, <2>4, QueueStep
<1> QED BY <1>1, <1>2

\* What the server sent about a Peer was handled before what it sent later about the
\* Peer's Consumers, though the latter waits in a queue (the protoo handlers and
\* #_consumingAwaitQueue of app/src/RoomClient.js).
THEOREM StoreInStep == Spec => []InStep
<1>1. Init => InStep
  BY InitInStep
<1>2. InStep /\ [Next]_vars => InStep'
  BY NextInStep
<1> QED BY <1>1, <1>2, PTL DEF Spec

\* The state is what TypeOK says of it.
THEOREM TypeCorrect == Spec => []TypeOK
<1>1. InStep => TypeOK
  BY DEF InStep
<1> QED BY <1>1, StoreInStep, PTL

\* What the store lists for a peer is that peer's, and the next message about it
\* finds it in the Map (the reducers of peers.js, consumers.js and dataConsumers.js
\* with RoomClient's Maps).
THEOREM ListedStaysKnown == Spec => []ListedIsKnown
<1>1. InStep => ListedIsKnown
  BY DEF InStep, ListsSound
<1> QED BY <1>1, StoreInStep, PTL

\* Once the client is quiet, it shows the Consumers of every Peer that is still there,
\* whatever left and returned meanwhile (the handlers of newPeer, peerClosed,
\* newConsumer and newDataConsumer).
THEOREM NothingStaysHidden == Spec => []NothingHidden
<1>1. ASSUME InStep PROVE NothingHidden
  <2>1. SUFFICES ASSUME Quiet, NEW c \in Consumer, status[c] = "sent",
                        c \notin orphans \cup failed, owner[c] # Bot
                 PROVE  SendingPeers(c) = {owner[c]}
    BY DEF NothingHidden
  <2>2. inRoom /\ Len(wire) = 0 /\ Len(tasks) = 0 /\ Owned(c)
    BY <2>1, EmptySeq DEF Quiet, Owned
  <2>3. Listed(c)
    BY <1>1, <2>1, <2>2 DEF InStep, ShownSound, Queued, OnWire
  <2>4. \A i \in DOMAIN peers : c \in peers[i] => i = owner[c]
    BY <1>1 DEF InStep, ListsSound, ListedIsKnown
  <2> QED BY <2>3, <2>4 DEF SendingPeers, Listed
<1> QED BY <1>1, StoreInStep, PTL

-----------------------------------------------------------------------------
(***************************************************************************)
(* The same client as a producer (ClientProducing), with its own variables, *)
(* those of ProducingStore and these: for every number of calls, Producers  *)
(* and sessions.  The notices to the server are in order, so that what is   *)
(* shown is what the server will have when it has read them.                *)
(***************************************************************************)
CONSTANTS MaxCalls, MaxProducers, MaxWire

VARIABLES progress, audioOnly, cookie, ended, cancelled, joins

Me == INSTANCE ClientProducing WITH sessions <- joins

\* The functions that await, those that await the server's answer, and its Producers.
Pending == DOMAIN calls
Answers == {k \in Pending : k.at = "answer"}
Answered == {k.id : k \in Answers}

\* A bag; a sequence in which nothing is twice.
Counted(c) == c \in [DOMAIN c -> Nat \ {0}]
Once(s) == \A i, j \in DOMAIN s : s[i] = s[j] => i = j

Notice == [type : {"close", "pause", "resume"}, id : Me!Producer]

\* Where the notifications about p are, which Producers they close, and whether the one
\* at i is the last about its Producer.
Sent(p) == {i \in 1 .. Len(notices) : notices[i].id = p}
Closing ==
  {p \in Me!Producer : \E i \in 1 .. Len(notices) :
                         notices[i].type = "close" /\ notices[i].id = p}
Latest(i) == \A j \in i + 1 .. Len(notices) : notices[j].id # notices[i].id

OneIn(c, s) == \A k, j \in DOMAIN c : k.run = s /\ j.run = s => k = j /\ c[k] = 1

\* One 'produce' request is answered at a time, for the source of its call.
CallsSound ==
  /\ \A k \in Pending : k.at \in {"produce", "answer"} => open /\ k.run \in Me!Source
  /\ \A k \in Answers : k.id \in DOMAIN made /\ made[k.id] = k.run
  /\ \A k, j \in Answers : k = j /\ calls[k] = 1

\* What is in a slot is of its source, and shown.
SlotsSound ==
  \A s \in Me!Source : slot[s] # 0 => slot[s] \in Me!ToSet(shown) /\ made[slot[s]] = s

\* A source that is being enabled has an empty slot, unless it is enabled twice.
AloneSound ==
  ~overlapped =>
    /\ \A s \in Me!Source : OneIn(calls, s)
    /\ \A k \in Pending : k.run \in Me!Source => slot[k.run] = 0

\* Nobody has heard of a Producer before its answer is read.
NewSound ==
  \A p \in Answered : p \notin Me!ToSet(shown) /\ p \notin paused /\ Sent(p) = {}

\* The server has what is shown, what it is about to answer, and what is being closed.
ServerSound ==
  /\ ~open => /\ served = {} /\ shown = <<>> /\ notices = <<>>
              /\ \A s \in Me!Source : slot[s] = 0
  /\ served \ Closing = Me!ToSet(shown) \cup Answered
  /\ Closing \cap (Me!ToSet(shown) \cup Answered) = {}
  /\ Me!ToSet(shown) \subseteq DOMAIN made
  /\ \A i \in 1 .. Len(notices) : notices[i].id \in DOMAIN made

\* The last notification about a Producer says how it is shown; without one, the server
\* does.
PauseSound ==
  \A p \in Me!ToSet(shown) :
    /\ Sent(p) = {} => (p \in muted <=> p \in paused)
    /\ \A i \in Sent(p) : Latest(i) => (p \in muted <=> notices[i].type = "pause")

\* What is shown is in the slot of its source (ShownIsInSlot).
FoundSound == \A p \in Me!ToSet(shown) : slot[made[p]] = p \/ overlapped

DataSound == SlotsSound /\ NewSound /\ ServerSound /\ PauseSound /\ FoundSound

SelfInStep == Me!TypeOK /\ CallsSound /\ AloneSound /\ DataSound

-----------------------------------------------------------------------------
(* Calls. *)

\* What becomes of a bag of calls to which a is added, from which k is removed.
Grown(c, a, d) ==
  /\ Counted(d) /\ DOMAIN d = DOMAIN c \cup {a}
  /\ \A x \in DOMAIN c : x # a => d[x] = c[x]
  /\ a \notin DOMAIN c => d[a] = 1
  /\ \A s : s # a.run /\ OneIn(c, s) => OneIn(d, s)
  /\ (\A x \in DOMAIN c : x.run # a.run) => OneIn(d, a.run)

Shrunk(c, k, d) ==
  /\ Counted(d) /\ DOMAIN d \subseteq DOMAIN c
  /\ \A x \in DOMAIN c : x # k => x \in DOMAIN d /\ d[x] = c[x]
  /\ c[k] = 1 => k \notin DOMAIN d
  /\ \A s : OneIn(c, s) => OneIn(d, s)
  /\ OneIn(c, k.run) => \A x \in DOMAIN d : x.run # k.run

LEMMA BeganIn ==
  ASSUME NEW c, NEW a, Counted(c)
  PROVE  Grown(c, a, Me!BagAdd(c, a))
<1>1. PICK d : d = Me!BagAdd(c, a)
  OBVIOUS
<1>2. /\ Counted(d) /\ DOMAIN d = DOMAIN c \cup {a}
      /\ \A x \in DOMAIN c : x # a => d[x] = c[x]
      /\ a \notin DOMAIN c => d[a] = 1
  BY <1>1 DEF Me!BagAdd, Counted
<1>3. ASSUME NEW s, s # a.run, OneIn(c, s) PROVE OneIn(d, s)
  BY <1>2, <1>3 DEF OneIn
<1>4. ASSUME \A x \in DOMAIN c : x.run # a.run PROVE OneIn(d, a.run)
  BY <1>2, <1>4 DEF OneIn
<1>5. Grown(c, a, d)
  BY <1>2, <1>3, <1>4 DEF Grown
<1> QED BY <1>1, <1>5

LEMMA EndedIn ==
  ASSUME NEW c, NEW k, Counted(c), k \in DOMAIN c
  PROVE  Shrunk(c, k, Me!BagRemove(c, k))
<1>1. PICK d : d = Me!BagRemove(c, k)
  OBVIOUS
<1>2. /\ Counted(d) /\ DOMAIN d \subseteq DOMAIN c
      /\ \A x \in DOMAIN c : x # k => x \in DOMAIN d /\ d[x] = c[x]
      /\ c[k] = 1 => k \notin DOMAIN d
  BY <1>1 DEF Me!BagRemove, Counted
<1>3. ASSUME NEW s, OneIn(c, s) PROVE OneIn(d, s)
  BY <1>2, <1>3 DEF OneIn
<1>4. ASSUME OneIn(c, k.run), NEW x \in DOMAIN d PROVE x.run # k.run
  BY <1>2, <1>4 DEF OneIn
<1>5. Shrunk(c, k, d)
  BY <1>2, <1>3, <1>4 DEF Shrunk
<1> QED BY <1>1, <1>5

\* The calls that wait for an answer are the same.
SameAnswers == Answers' = Answers /\ \A x \in Answers : calls'[x] = calls[x]

LEMMA SameAnswersKeep ==
  ASSUME CallsSound, SameAnswers, made' = made, open' = open,
         \A x \in Pending' : x.at \in {"produce", "answer"} => x \in Pending \/ (open /\ x.run \in Me!Source)
  PROVE  CallsSound' /\ Answered' = Answered
BY DEF CallsSound, SameAnswers, Answers, Answered

\* A call begins; beside another one of its source the sources overlap.
LEMMA CallBegins ==
  ASSUME Me!TypeOK, CallsSound, NEW f \in Me!Source \cup {"change"}, NEW stage \in {"list", "device"},
         calls' = Me!BagAdd(calls, Me!Started(f, stage))
  PROVE  /\ Counted(calls') /\ Pending' \subseteq Me!Call /\ SameAnswers
         /\ Pending' = Pending \cup {Me!Started(f, stage)}
         /\ Me!Started(f, stage).run = f
         /\ \A s \in Me!Source : s # f /\ OneIn(calls, s) => OneIn(calls', s)
         /\ ~Me!Running(f) => OneIn(calls', f)
<1>1. PICK a : a = Me!Started(f, stage)
  OBVIOUS
<1>0. calls' = Me!BagAdd(calls, a)
  BY <1>1
<1>2. a \in Me!Call /\ a.run = f /\ a.at = stage
  BY <1>1 DEF Me!Started, Me!Call, Me!Stage
<1>3. Counted(calls) /\ Pending = DOMAIN calls /\ Pending \subseteq Me!Call /\ Pending' = DOMAIN calls'
  BY DEF Me!TypeOK, Pending, Counted
<1>4. Grown(calls, a, calls')
  BY BeganIn, <1>0, <1>3
<1>5. SameAnswers
  BY <1>2, <1>3, <1>4 DEF SameAnswers, Answers, Grown
<1>6. ~Me!Running(f) => \A x \in DOMAIN calls : x.run # f
  BY <1>3 DEF Me!Running, Pending
<1> QED BY <1>1, <1>2, <1>3, <1>4, <1>5, <1>6 DEF Grown

LEMMA CallEnds ==
  ASSUME Me!TypeOK, NEW k \in Pending, Me!Ends(k)
  PROVE  /\ Counted(calls') /\ Pending' \subseteq Me!Call /\ Pending' \subseteq Pending
         /\ k.at # "answer" => SameAnswers
         /\ \A x \in Pending : x # k => x \in Pending' /\ calls'[x] = calls[x]
         /\ calls[k] = 1 => k \notin Pending'
         /\ \A s : OneIn(calls, s) => OneIn(calls', s)
         /\ OneIn(calls, k.run) => \A x \in Pending' : x.run # k.run
<1>1. Counted(calls) /\ Pending = DOMAIN calls /\ Pending \subseteq Me!Call /\ Pending' = DOMAIN calls'
  BY DEF Me!TypeOK, Pending, Counted
<1>2. calls' = Me!BagRemove(calls, k)
  BY DEF Me!Ends, Me!Without
<1>3. Shrunk(calls, k, calls')
  BY <1>1, <1>2, EndedIn
<1>4. ASSUME k.at # "answer" PROVE SameAnswers
  BY <1>1, <1>3, <1>4 DEF SameAnswers, Answers, Shrunk
<1> QED BY <1>1, <1>3, <1>4 DEF Shrunk

\* k becomes j, a call of the same function.
LEMMA CallBecomes ==
  ASSUME Me!TypeOK, NEW k \in Pending, NEW j \in Me!Call, j.run = k.run, j.at # k.at,
         calls' = Me!BagAdd(Me!Without(k), j)
  PROVE  /\ Counted(calls') /\ Pending' \subseteq Me!Call /\ Pending' \subseteq Pending \cup {j}
         /\ j \in Pending'
         /\ \A x \in Pending : x # k /\ x # j => x \in Pending' /\ calls'[x] = calls[x]
         /\ j \notin Pending => calls'[j] = 1
         /\ k.at # "answer" /\ j.at # "answer" => SameAnswers
         /\ \A s : OneIn(calls, s) => OneIn(calls', s)
<1>1. Counted(calls) /\ Pending = DOMAIN calls /\ Pending \subseteq Me!Call /\ Pending' = DOMAIN calls'
  BY DEF Me!TypeOK, Pending, Counted
<1>2. PICK c : c = Me!BagRemove(calls, k)
  OBVIOUS
<1>3. Shrunk(calls, k, c)
  BY <1>1, <1>2, EndedIn
<1>4. calls' = Me!BagAdd(c, j)
  BY <1>2 DEF Me!Without
<1>5. Grown(c, j, calls')
  BY BeganIn, <1>3, <1>4 DEF Shrunk
<1>6. ASSUME k.at # "answer", j.at # "answer" PROVE SameAnswers
  BY <1>1, <1>3, <1>5, <1>6 DEF SameAnswers, Answers, Grown, Shrunk
<1>7. ASSUME NEW s, OneIn(calls, s) PROVE OneIn(calls', s)
  BY <1>3, <1>5, <1>7 DEF Grown, Shrunk
<1>8. j \notin Pending => calls'[j] = 1
  BY <1>1, <1>3, <1>5 DEF Grown, Shrunk
<1> QED BY <1>1, <1>3, <1>5, <1>6, <1>7, <1>8 DEF Grown, Shrunk

-----------------------------------------------------------------------------
(* The store and the wire. *)

LEMMA ShownIsInjective ==
  ASSUME NEW S, NEW s \in Seq(S)
  PROVE  Once(s) <=> \A i, j \in 1 .. Len(s) : s[i] = s[j] => i = j
BY LenProperties DEF Once

LEMMA OneRemoved ==
  ASSUME NEW S, NEW s \in Seq(S), Once(s), NEW i \in 1 .. Len(s)
  PROVE  Me!RemoveFirst(s, s[i]) = Me!RemoveAt(s, i)
<1>1. \A j \in 1 .. Len(s) : s[j] = s[i] => j = i
  BY ShownIsInjective
<1>2. PICK I : I = {j \in 1 .. Len(s) : s[j] = s[i]}
  OBVIOUS
<1>3. I = {i}
  BY <1>1, <1>2
<1>4. Me!Min(I) = i
  BY <1>3 DEF Me!Min
<1>5. Me!SelectInSeq(s, LAMBDA v : v = s[i]) = IF I # {} THEN Me!Min(I) ELSE 0
  BY <1>2 DEF Me!SelectInSeq
<1>6. Me!SelectInSeq(s, LAMBDA v : v = s[i]) = i
  BY <1>3, <1>4, <1>5
<1> QED
  BY <1>6 DEF Me!RemoveFirst

LEMMA Removed ==
  ASSUME NEW S, NEW s \in Seq(S), Once(s), NEW e \in Me!ToSet(s)
  PROVE  /\ Me!RemoveFirst(s, e) \in Seq(S) /\ Once(Me!RemoveFirst(s, e))
         /\ Me!ToSet(Me!RemoveFirst(s, e)) = Me!ToSet(s) \ {e}
<1>1. PICK i \in 1 .. Len(s) : e = s[i]
  BY LenProperties DEF Me!ToSet
<1> DEFINE b == SubSeq(s, 1, i - 1)
<1> DEFINE a == SubSeq(s, i + 1, Len(s))
<1> DEFINE r == b \o a
<1>2. Len(s) \in Nat /\ i \in Int
  BY LenProperties
<1>3. /\ b \in Seq(S) /\ Len(b) = i - 1
      /\ \A j \in 1 .. i - 1 : b[j] = s[j]
  BY <1>2, SubSeqProperties
<1>4. /\ a \in Seq(S) /\ Len(a) = Len(s) - i
      /\ \A j \in 1 .. Len(s) - i : a[j] = s[i + j]
  BY <1>2, SubSeqProperties
<1> HIDE DEF a, b
<1>5. r \in Seq(S) /\ Len(r) = Len(s) - 1
  <2>1. r \in Seq(S) /\ Len(r) = Len(b) + Len(a)
    BY <1>3, <1>4, ConcatProperties
  <2> QED BY <1>2, <1>3, <1>4, <2>1
<1>6. \A j \in 1 .. Len(r) : r[j] = IF j < i THEN s[j] ELSE s[j + 1]
  BY <1>2, <1>3, <1>4, <1>5, ConcatProperties
<1>7. DOMAIN r = 1 .. Len(s) - 1 /\ DOMAIN s = 1 .. Len(s)
  BY <1>5, LenProperties
<1> HIDE DEF r
<1>8. \A j, k \in 1 .. Len(s) : s[j] = s[k] => j = k
  BY <1>7 DEF Once
<1>9. Once(r)
  BY <1>2, <1>5, <1>6, <1>7, <1>8 DEF Once
<1>10. Me!ToSet(r) = Me!ToSet(s) \ {e}
  <2>1. ASSUME NEW j \in 1 .. Len(r) PROVE r[j] \in Me!ToSet(s) \ {e}
    <3>1. PICK n \in 1 .. Len(s) : n # i /\ r[j] = s[n]
      <4>1. CASE j < i
        BY <1>2, <1>5, <1>6, <4>1
      <4>2. CASE ~(j < i)
        BY <1>2, <1>5, <1>6, <4>2
      <4> QED BY <4>1, <4>2
    <3>2. s[n] # e
      BY <1>1, <1>8, <3>1
    <3> QED BY <1>7, <3>1, <3>2 DEF Me!ToSet
  <2>2. ASSUME NEW j \in 1 .. Len(s), s[j] # e PROVE \E k \in 1 .. Len(r) : r[k] = s[j]
    <3>1. CASE j < i
      BY <1>2, <1>5, <1>6, <3>1
    <3>2. CASE j > i
      <4>1. j - 1 \in 1 .. Len(r) /\ ~(j - 1 < i) /\ (j - 1) + 1 = j
        BY <1>2, <1>5, <3>2
      <4> QED BY <1>6, <4>1
    <3> QED BY <1>1, <1>2, <2>2, <3>1, <3>2
  <2>3. ASSUME NEW x \in Me!ToSet(r) PROVE x \in Me!ToSet(s) \ {e}
    <3>1. PICK j \in 1 .. Len(r) : x = r[j]
      BY <1>5, <1>7, <2>3 DEF Me!ToSet
    <3> QED BY <2>1, <3>1
  <2>4. ASSUME NEW x \in Me!ToSet(s) \ {e} PROVE x \in Me!ToSet(r)
    <3>1. PICK j \in 1 .. Len(s) : x = s[j] /\ s[j] # e
      BY <1>7, <2>4 DEF Me!ToSet
    <3>2. PICK k \in 1 .. Len(r) : r[k] = x
      BY <2>2, <3>1
    <3> QED BY <1>5, <1>7, <3>2 DEF Me!ToSet
  <2> QED BY <2>3, <2>4
<1>11. Me!RemoveFirst(s, e) = r
  BY <1>1, OneRemoved DEF Me!RemoveAt, r, a, b
<1> QED BY <1>5, <1>9, <1>10, <1>11

LEMMA Added ==
  ASSUME NEW S, NEW s \in Seq(S), Once(s), NEW e \in S, e \notin Me!ToSet(s)
  PROVE  /\ Append(s, e) \in Seq(S) /\ Once(Append(s, e))
         /\ Me!ToSet(Append(s, e)) = Me!ToSet(s) \cup {e}
<1>1. PICK r : r = Append(s, e)
  OBVIOUS
<1>2. /\ r \in Seq(S) /\ Len(r) = Len(s) + 1 /\ Len(s) \in Nat
      /\ \A i \in 1 .. Len(s) : r[i] = s[i]
      /\ r[Len(s) + 1] = e
  BY <1>1, AppendProperties, LenProperties
<1>3. DOMAIN r = 1 .. Len(s) + 1 /\ DOMAIN s = 1 .. Len(s)
  BY <1>2, LenProperties
<1>4. \A i \in 1 .. Len(s) : s[i] # e
  BY <1>3 DEF Me!ToSet
<1>5. \A i \in 1 .. Len(s) + 1 : i \in 1 .. Len(s) \/ i = Len(s) + 1
  BY <1>2
<1>6. \A i \in 1 .. Len(s) : i \in 1 .. Len(s) + 1
  BY <1>2
<1>7. Once(r)
  <2>1. \A i, j \in 1 .. Len(s) : s[i] = s[j] => i = j
    BY ShownIsInjective
  <2>2. \A i, j \in 1 .. Len(s) + 1 : r[i] = r[j] => i = j
    BY <1>2, <1>4, <1>5, <2>1
  <2> QED BY <1>3, <2>2 DEF Once
<1>8. Me!ToSet(r) = Me!ToSet(s) \cup {e}
  <2>1. ASSUME NEW x \in Me!ToSet(r) PROVE x \in Me!ToSet(s) \cup {e}
    BY <1>2, <1>3, <1>5, <2>1 DEF Me!ToSet
  <2>2. ASSUME NEW x \in Me!ToSet(s) PROVE x \in Me!ToSet(r)
    <3>1. PICK i \in 1 .. Len(s) : x = s[i]
      BY <1>3, <2>2 DEF Me!ToSet
    <3> QED BY <1>2, <1>3, <1>6, <3>1 DEF Me!ToSet
  <2>3. e \in Me!ToSet(r)
    BY <1>2, <1>3 DEF Me!ToSet
  <2> QED BY <2>1, <2>2, <2>3
<1> QED BY <1>1, <1>2, <1>7, <1>8

\* A notification is sent.
LEMMA Notifies ==
  ASSUME notices \in Seq(Notice), NEW m \in Notice, notices' = Append(notices, m)
  PROVE  /\ notices' \in Seq(Notice) /\ Len(notices) \in Nat /\ Len(notices') = Len(notices) + 1
         /\ \A i \in 1 .. Len(notices) : i \in 1 .. Len(notices') /\ notices'[i] = notices[i]
         /\ Len(notices') \in 1 .. Len(notices') /\ notices'[Len(notices')] = m
         /\ \A i \in 1 .. Len(notices') : i \in 1 .. Len(notices) \/ i = Len(notices')
         /\ \A p : p # m.id => Sent(p)' = Sent(p)
         /\ Sent(m.id)' # {}
         /\ \A i \in 1 .. Len(notices) : Latest(i)' => Latest(i) /\ m.id # notices[i].id
         /\ Closing' = IF m.type = "close" THEN Closing \cup {m.id} ELSE Closing
<1>1. Len(notices) \in Nat
  BY LenProperties
<1>2. /\ notices' \in Seq(Notice) /\ Len(notices') = Len(notices) + 1
      /\ \A i \in 1 .. Len(notices) : notices'[i] = notices[i]
      /\ notices'[Len(notices) + 1] = m
  BY AppendProperties
<1>3. /\ \A i \in 1 .. Len(notices) : i \in 1 .. Len(notices')
      /\ Len(notices') \in 1 .. Len(notices') /\ notices'[Len(notices')] = m
      /\ \A i \in 1 .. Len(notices') : i \in 1 .. Len(notices) \/ i = Len(notices')
  BY <1>1, <1>2
<1>4. \A p : p # m.id => Sent(p)' = Sent(p)
  BY <1>2, <1>3 DEF Sent
<1>5. Sent(m.id)' # {}
  BY <1>3 DEF Sent
<1>6. ASSUME NEW i \in 1 .. Len(notices), Latest(i)' PROVE Latest(i) /\ m.id # notices[i].id
  <2>1. \A j \in i + 1 .. Len(notices) : j \in i + 1 .. Len(notices') /\ j \in 1 .. Len(notices)
    BY <1>1, <1>2
  <2>2. Len(notices') \in i + 1 .. Len(notices')
    BY <1>1, <1>2
  <2> QED BY <1>2, <1>3, <1>6, <2>1, <2>2 DEF Latest
<1>7. m.id \in Me!Producer
  BY DEF Notice
<1>8. Closing' = IF m.type = "close" THEN Closing \cup {m.id} ELSE Closing
  <2>1. ASSUME NEW p \in Closing PROVE p \in Closing'
    BY <1>2, <1>3, <2>1 DEF Closing
  <2>2. ASSUME NEW p \in Closing' PROVE p \in Closing \/ (m.type = "close" /\ p = m.id)
    BY <1>2, <1>3, <2>2 DEF Closing
  <2>3. m.type = "close" => m.id \in Closing'
    BY <1>3, <1>7 DEF Closing
  <2> QED BY <2>1, <2>2, <2>3
<1> QED BY <1>1, <1>2, <1>3, <1>4, <1>5, <1>6, <1>8

\* A notification arrives.
LEMMA Arrives ==
  ASSUME notices \in Seq(Notice), notices # <<>>, notices' = Tail(notices)
  PROVE  /\ notices' \in Seq(Notice) /\ Head(notices) = notices[1] /\ notices[1] \in Notice
         /\ Len(notices) \in Nat /\ 1 \in 1 .. Len(notices) /\ Len(notices') = Len(notices) - 1
         /\ \A i \in 1 .. Len(notices') : i + 1 \in 1 .. Len(notices) /\ notices'[i] = notices[i + 1]
         /\ \A i \in 1 .. Len(notices) : i = 1 \/ (i - 1 \in 1 .. Len(notices') /\ notices'[i - 1] = notices[i])
         /\ \A i \in 1 .. Len(notices') : Latest(i)' => Latest(i + 1)
         /\ \A p : Sent(p)' = {} => Sent(p) \subseteq {1}
         /\ \A p : Sent(p)' = {} /\ notices[1].id = p => Latest(1)
         /\ Closing' \subseteq Closing
         /\ \A p \in Closing : p \in Closing' \/ (notices[1].type = "close" /\ notices[1].id = p)
<1>1. Len(notices) \in Nat /\ Len(notices) # 0
  BY LenProperties, EmptySeq
<1>2. /\ notices' \in Seq(Notice) /\ Head(notices) = notices[1] /\ Head(notices) \in Notice
      /\ Len(notices') = Len(notices) - 1
      /\ \A i \in 1 .. Len(notices') : notices'[i] = notices[i + 1]
  BY <1>1, HeadTailProperties
<1>3. /\ 1 \in 1 .. Len(notices) /\ notices[1] \in Notice
      /\ \A i \in 1 .. Len(notices') : i + 1 \in 1 .. Len(notices) /\ notices'[i] = notices[i + 1]
      /\ \A i \in 1 .. Len(notices) : i = 1 \/ (i - 1 \in 1 .. Len(notices') /\ notices'[i - 1] = notices[i])
  BY <1>1, <1>2
<1>4. ASSUME NEW i \in 1 .. Len(notices'), Latest(i)' PROVE Latest(i + 1)
  <2>1. ASSUME NEW j \in (i + 1) + 1 .. Len(notices)
        PROVE  j - 1 \in i + 1 .. Len(notices') /\ notices'[j - 1] = notices[j]
    BY <1>1, <1>2, <1>3
  <2> QED BY <1>3, <1>4, <2>1 DEF Latest
<1>5. ASSUME NEW p, Sent(p)' = {} PROVE Sent(p) \subseteq {1}
  BY <1>3, <1>5 DEF Sent
<1>6. ASSUME NEW p, Sent(p)' = {}, notices[1].id = p PROVE Latest(1)
  <2>1. \A j \in 1 + 1 .. Len(notices) : j - 1 \in 1 .. Len(notices') /\ notices'[j - 1] = notices[j]
    BY <1>1, <1>2, <1>3
  <2> QED BY <1>6, <2>1 DEF Sent, Latest
<1>7. Closing' \subseteq Closing
  BY <1>3 DEF Closing
<1>8. \A p \in Closing : p \in Closing' \/ (notices[1].type = "close" /\ notices[1].id = p)
  BY <1>3 DEF Closing
<1> QED BY <1>1, <1>2, <1>3, <1>4, <1>5, <1>6, <1>7, <1>8

-----------------------------------------------------------------------------
(* The slots, the store and the server. *)

CallsOK == Counted(calls) /\ Pending \subseteq Me!Call

DataOK ==
  /\ slot \in [Me!Source -> Me!Producer \cup {0}]
  /\ shown \in Seq(Me!Producer) /\ Once(shown)
  /\ muted \subseteq Me!ToSet(shown)
  /\ made \in Seq(Me!Source) /\ Len(made) <= MaxProducers
  /\ served \subseteq DOMAIN made /\ paused \subseteq served
  /\ notices \in Seq(Notice)
  /\ ended \subseteq DOMAIN made

OthersOK ==
  /\ open \in BOOLEAN /\ audioOnly \in BOOLEAN
  /\ progress \subseteq {"webcam", "share"}
  /\ cookie \in {"none", "on", "off"}
  /\ overlapped \in BOOLEAN /\ cancelled \in BOOLEAN
  /\ joins \in 0 .. MaxSessions

LEMMA SelfParts == Me!TypeOK <=> CallsOK /\ DataOK /\ OthersOK
BY DEF Me!TypeOK, Counted, Once, CallsOK, DataOK, OthersOK, Pending, Notice

LEMMA MadeIsProducer ==
  ASSUME Me!BoundsAssumption, DataOK
  PROVE  /\ Len(made) \in Nat /\ DOMAIN made = 1 .. Len(made) /\ DOMAIN made \subseteq Me!Producer
         /\ \A p \in DOMAIN made : made[p] \in Me!Source
         /\ \A p \in DOMAIN made : p # 0
         /\ 0 \notin Me!Producer
<1>1. Len(made) \in Nat /\ DOMAIN made = 1 .. Len(made) /\ Len(made) <= MaxProducers
  BY LenProperties DEF DataOK
<1>2. \A p \in DOMAIN made : made[p] \in Me!Source
  BY <1>1, ElementOfSeq DEF DataOK
<1>3. MaxProducers \in Nat
  BY DEF Me!BoundsAssumption
<1> QED BY <1>1, <1>2, <1>3 DEF Me!Producer

\* A notification about a Producer that is shown says how it is shown.
LEMMA PauseSent ==
  ASSUME notices \in Seq(Notice), PauseSound, NEW m \in Notice, notices' = Append(notices, m),
         paused' = paused, Me!ToSet(shown') \subseteq Me!ToSet(shown),
         \A p \in Me!ToSet(shown') : p # m.id => (p \in muted' <=> p \in muted),
         m.id \in Me!ToSet(shown') => (m.id \in muted' <=> m.type = "pause")
  PROVE  PauseSound'
<1>1. /\ \A i \in 1 .. Len(notices) : notices'[i] = notices[i]
      /\ notices'[Len(notices')] = m
      /\ \A i \in 1 .. Len(notices') : i \in 1 .. Len(notices) \/ i = Len(notices')
      /\ \A p : p # m.id => Sent(p)' = Sent(p)
      /\ Sent(m.id)' # {}
      /\ \A i \in 1 .. Len(notices) : Latest(i)' => Latest(i) /\ m.id # notices[i].id
  BY Notifies
<1>2. SUFFICES ASSUME NEW p \in Me!ToSet(shown')
               PROVE  /\ Sent(p)' = {} => (p \in muted' <=> p \in paused')
                      /\ \A i \in Sent(p)' : Latest(i)' => (p \in muted' <=> notices'[i].type = "pause")
  BY DEF PauseSound, Sent
<1>3. CASE p = m.id
  <2>1. ASSUME NEW i \in Sent(p)', Latest(i)' PROVE i = Len(notices')
    <3>1. i \in 1 .. Len(notices') /\ notices'[i].id = p
      BY <2>1 DEF Sent
    <3> QED BY <1>1, <1>3, <2>1, <3>1
  <2> QED BY <1>1, <1>2, <1>3, <2>1
<1>4. CASE p # m.id
  <2>1. Sent(p)' = Sent(p) /\ (p \in muted' <=> p \in muted) /\ p \in Me!ToSet(shown)
    BY <1>1, <1>2, <1>4
  <2>2. ASSUME NEW i \in Sent(p)', Latest(i)' PROVE p \in muted' <=> notices'[i].type = "pause"
    <3>1. i \in Sent(p) /\ i \in 1 .. Len(notices)
      BY <2>1, <2>2 DEF Sent
    <3>2. Latest(i) /\ notices'[i] = notices[i]
      BY <1>1, <2>2, <3>1
    <3> QED BY <2>1, <3>1, <3>2 DEF PauseSound
  <2> QED BY <2>1, <2>2 DEF PauseSound
<1> QED BY <1>3, <1>4

\* A source is disabled, or not.
LEMMA Disabled ==
  ASSUME Me!BoundsAssumption, DataOK, DataSound, open, NEW s \in Me!Source,
         Me!Disables(s) \/ UNCHANGED <<slot, shown, muted, notices>>,
         UNCHANGED <<open, made, served, paused>>, ended' \subseteq ended \cup Me!ToSet(shown),
         Answered' = Answered, overlapped => overlapped'
  PROVE  /\ DataOK' /\ DataSound' /\ Me!ToSet(shown') \subseteq Me!ToSet(shown)
         /\ \A t \in Me!Source : slot'[t] = 0 \/ slot'[t] = slot[t]
<1>0. ended' \subseteq DOMAIN made'
  BY DEF DataOK, DataSound, ServerSound
<1>1. CASE UNCHANGED <<slot, shown, muted, notices>>
  <2>1. DataOK'
    BY <1>0, <1>1 DEF DataOK
  <2>2. \A p : Sent(p)' = Sent(p)
    BY <1>1 DEF Sent
  <2>3. Closing' = Closing
    BY <1>1 DEF Closing
  <2>4. SlotsSound' /\ NewSound' /\ ServerSound'
    BY <1>1, <2>2, <2>3 DEF DataSound, SlotsSound, NewSound, ServerSound
  <2>5. PauseSound'
    BY <1>1, <2>2 DEF DataSound, PauseSound, Latest
  <2>6. FoundSound'
    BY <1>1 DEF DataSound, FoundSound
  <2> QED BY <1>1, <2>1, <2>4, <2>5, <2>6 DEF DataSound
<1>2. CASE slot[s] # 0 /\ Me!Closes(s)
  <2>1. PICK x : x = slot[s]
    OBVIOUS
  <2>2. x \in Me!Producer /\ x \in Me!ToSet(shown) /\ x \in DOMAIN made /\ made[x] = s
    BY <1>2, <2>1 DEF DataOK, DataSound, SlotsSound, ServerSound
  <2>3. PICK m \in Notice : m.type = "close" /\ m.id = x /\ notices' = Append(notices, m)
    <3>1. [type |-> "close", id |-> x] \in Notice
      BY <2>2 DEF Notice
    <3> QED BY <1>2, <2>1, <3>1 DEF Me!Closes, Me!Notify
  <2>4. /\ shown' \in Seq(Me!Producer) /\ Once(shown') /\ Me!ToSet(shown') = Me!ToSet(shown) \ {x}
        /\ muted' = muted \ {x}
    BY <1>2, <2>1, <2>2, Removed DEF Me!Closes, Me!RemoveProducer, DataOK
  <2>5. slot' = [slot EXCEPT ![s] = 0]
    BY <1>2 DEF Me!Closes
  <2>6. /\ notices' \in Seq(Notice)
        /\ \A p : p # x => Sent(p)' = Sent(p)
        /\ Closing' = Closing \cup {x}
        /\ \A i \in 1 .. Len(notices') : i \in 1 .. Len(notices) \/ i = Len(notices')
        /\ \A i \in 1 .. Len(notices) : notices'[i] = notices[i]
        /\ notices'[Len(notices')] = m
    BY <2>3, Notifies DEF DataOK
  <2>7. DataOK'
    BY <1>0, <2>4, <2>5, <2>6 DEF DataOK
  <2>8. \A t \in Me!Source : slot'[t] = (IF t = s THEN 0 ELSE slot[t])
    BY <2>5 DEF DataOK
  <2>9. SlotsSound'
    BY <2>1, <2>2, <2>4, <2>8 DEF DataSound, SlotsSound
  <2>10. x \notin Answered
    BY <2>2 DEF DataSound, NewSound
  <2>11. NewSound'
    <3>1. ASSUME NEW p \in Answered PROVE p \notin Me!ToSet(shown') /\ p \notin paused' /\ Sent(p)' = {}
      BY <2>4, <2>6, <2>10, <3>1 DEF DataSound, NewSound
    <3> QED BY <3>1 DEF NewSound
  <2>12. ServerSound'
    <3>1. served' \ Closing' = Me!ToSet(shown') \cup Answered'
      BY <2>4, <2>6, <2>10 DEF DataSound, ServerSound
    <3>2. Closing' \cap (Me!ToSet(shown') \cup Answered') = {}
      BY <2>4, <2>6, <2>10 DEF DataSound, ServerSound
    <3>3. Me!ToSet(shown') \subseteq DOMAIN made'
      BY <2>4 DEF DataSound, ServerSound
    <3>4. \A i \in 1 .. Len(notices') : notices'[i].id \in DOMAIN made'
      BY <2>2, <2>3, <2>6 DEF DataSound, ServerSound
    <3> QED BY <3>1, <3>2, <3>3, <3>4 DEF ServerSound
  <2>13. PauseSound'
    BY <2>3, <2>4, PauseSent DEF DataOK, DataSound
  <2>14. FoundSound'
    <3>1. ASSUME NEW p \in Me!ToSet(shown'), ~overlapped' PROVE slot'[made'[p]] = p
      <4>1. p \in Me!ToSet(shown) /\ p # x /\ p \in DOMAIN made
        BY <2>4, <3>1 DEF DataSound, ServerSound
      <4>2. slot[made[p]] = p /\ made[p] \in Me!Source
        BY <3>1, <4>1, MadeIsProducer DEF DataSound, FoundSound
      <4> QED BY <2>1, <2>8, <4>1, <4>2
    <3> QED BY <3>1 DEF FoundSound
  <2> QED BY <2>4, <2>7, <2>8, <2>9, <2>11, <2>12, <2>13, <2>14 DEF DataSound
<1> QED BY <1>1, <1>2 DEF Me!Disables

\* The server's answer fills the slot.
LEMMA Filled ==
  ASSUME Me!BoundsAssumption, SelfInStep, NEW k \in Pending, k.at = "answer", Me!Fills(k, k.run), Me!Ends(k),
         UNCHANGED <<open, muted, made, served, paused, notices, ended, overlapped>>
  PROVE  CallsOK' /\ CallsSound' /\ AloneSound' /\ DataOK' /\ DataSound'
<1> DEFINE s == k.run
<1>1. CallsOK /\ DataOK
  BY SelfParts DEF SelfInStep
<1>2. k \in Answers /\ Answers = {k} /\ calls[k] = 1
  BY DEF Answers, SelfInStep, CallsSound
<1>3. open /\ s \in Me!Source /\ k.id \in DOMAIN made /\ made[k.id] = s
  BY <1>2 DEF SelfInStep, CallsSound
<1>4. Answered = {k.id}
  BY <1>2 DEF Answered
<1>5. /\ k.id \notin Me!ToSet(shown) /\ k.id \notin paused /\ Sent(k.id) = {} /\ k.id \notin muted
      /\ k.id \in Me!Producer /\ k.id # 0
  BY <1>1, <1>3, <1>4, MadeIsProducer DEF SelfInStep, DataSound, NewSound, DataOK
<1>6. /\ CallsOK' /\ Pending' \subseteq Pending /\ k \notin Pending'
      /\ \A t : OneIn(calls, t) => OneIn(calls', t)
      /\ OneIn(calls, s) => \A x \in Pending' : x.run # s
  BY <1>2, CallEnds DEF SelfInStep, CallsOK
<1>7. Answers' = {} /\ Answered' = {}
  BY <1>2, <1>6 DEF Answers, Answered
<1>8. CallsSound'
  BY <1>6, <1>7 DEF SelfInStep, CallsSound
<1>9. /\ shown' \in Seq(Me!Producer) /\ Once(shown') /\ Me!ToSet(shown') = Me!ToSet(shown) \cup {k.id}
  BY <1>1, <1>5, Added DEF Me!Fills, Me!AddProducer, DataOK
<1>10. \A t \in Me!Source : slot'[t] = (IF t = s THEN k.id ELSE slot[t])
  BY <1>1, <1>3 DEF Me!Fills, DataOK
<1>11. DataOK'
  <2>1. slot' \in [Me!Source -> Me!Producer \cup {0}]
    BY <1>1, <1>3, <1>5 DEF Me!Fills, DataOK
  <2> QED BY <1>1, <1>9, <2>1 DEF DataOK
<1>12. /\ \A p : Sent(p)' = Sent(p)
       /\ Closing' = Closing
  BY DEF Sent, Closing
<1>13. SlotsSound'
  BY <1>3, <1>9, <1>10 DEF SelfInStep, DataSound, SlotsSound
<1>14. NewSound'
  BY <1>7 DEF NewSound
<1>15. ServerSound'
  BY <1>3, <1>4, <1>7, <1>9, <1>12 DEF SelfInStep, DataSound, ServerSound
<1>16. PauseSound'
  <2>1. ASSUME NEW p \in Me!ToSet(shown')
        PROVE  /\ Sent(p)' = {} => (p \in muted' <=> p \in paused')
               /\ \A i \in Sent(p)' : Latest(i)' => (p \in muted' <=> notices'[i].type = "pause")
    <3>1. CASE p = k.id
      BY <1>5, <1>12, <3>1
    <3>2. CASE p \in Me!ToSet(shown)
      BY <1>12, <3>2 DEF SelfInStep, DataSound, PauseSound, Latest
    <3> QED BY <1>9, <3>1, <3>2
  <2> QED BY <2>1 DEF PauseSound
<1>17. ASSUME ~overlapped
       PROVE  /\ OneIn(calls, s) /\ slot[s] = 0
              /\ \A p \in Me!ToSet(shown) : slot[made[p]] = p
  BY <1>3, <1>17 DEF SelfInStep, AloneSound, DataSound, FoundSound
<1>18. FoundSound'
  <2>1. ASSUME NEW p \in Me!ToSet(shown'), ~overlapped' PROVE slot'[made'[p]] = p
    <3>1. CASE p = k.id
      BY <1>3, <1>10, <3>1
    <3>2. CASE p \in Me!ToSet(shown)
      <4>1. p \in DOMAIN made /\ made[p] \in Me!Source /\ p # 0
        BY <1>1, <3>2, MadeIsProducer DEF SelfInStep, DataSound, ServerSound
      <4>2. slot[made[p]] = p /\ slot[s] = 0
        BY <1>17, <2>1, <3>2
      <4> QED BY <1>10, <4>1, <4>2
    <3> QED BY <1>9, <2>1, <3>1, <3>2
  <2> QED BY <2>1 DEF FoundSound
<1>19. AloneSound'
  <2>1. SUFFICES ASSUME ~overlapped
                 PROVE  /\ \A t \in Me!Source : OneIn(calls', t)
                        /\ \A x \in Pending' : x.run \in Me!Source => slot'[x.run] = 0
    BY DEF AloneSound
  <2> QED BY <1>6, <1>10, <1>17, <2>1 DEF SelfInStep, AloneSound
<1> QED BY <1>6, <1>8, <1>11, <1>13, <1>14, <1>15, <1>16, <1>18, <1>19 DEF DataSound

\* A call awaits something else, or ends without having filled a slot.
LEMMA OnlyCalls ==
  ASSUME SelfInStep, UNCHANGED <<open, slot, shown, muted, made, served, paused, notices, ended, overlapped>>,
         SameAnswers,
         \A x \in Pending' : x.at \in {"produce", "answer"} => x \in Pending \/ (open /\ x.run \in Me!Source),
         \A s : OneIn(calls, s) => OneIn(calls', s),
         \A x \in Pending' : \E y \in Pending : y.run = x.run
  PROVE  CallsSound' /\ AloneSound' /\ DataOK' /\ DataSound'
<1>1. CallsSound' /\ Answered' = Answered
  BY SameAnswersKeep DEF SelfInStep
<1>2. AloneSound'
  BY DEF SelfInStep, AloneSound
<1>3. DataOK'
  BY SelfParts DEF SelfInStep, DataOK
<1>4. (\A p : Sent(p)' = Sent(p)) /\ Closing' = Closing
  BY DEF Sent, Closing
<1>5. SlotsSound' /\ NewSound' /\ ServerSound'
  BY <1>1, <1>4 DEF SelfInStep, DataSound, SlotsSound, NewSound, ServerSound
<1>6. PauseSound'
  BY <1>4 DEF SelfInStep, DataSound, PauseSound, Latest
<1>7. FoundSound'
  BY DEF SelfInStep, DataSound, FoundSound
<1> QED BY <1>1, <1>2, <1>3, <1>5, <1>6, <1>7 DEF DataSound

SelfSound == CallsOK /\ CallsSound /\ AloneSound /\ DataOK /\ DataSound

LEMMA SelfNext == SelfSound' /\ OthersOK' => SelfInStep'
BY DEF Counted, Once, SelfSound, OthersOK, SelfInStep, Me!TypeOK, CallsOK, DataOK, Pending, Notice

\* A button, or the end of a track, disables a source or not, and calls no function.
LEMMA ButtonDisables ==
  ASSUME Me!BoundsAssumption, SelfInStep, open, NEW s \in Me!Source,
         Me!Disables(s) \/ UNCHANGED <<slot, shown, muted, notices>>,
         UNCHANGED <<open, made, served, paused, calls, overlapped>>,
         ended' \subseteq ended \cup Me!ToSet(shown)
  PROVE  SelfSound'
<1>1. Answered' = Answered /\ Pending' = Pending
  BY DEF Answered, Answers, Pending
<1>2. /\ DataOK' /\ DataSound'
      /\ \A t \in Me!Source : slot'[t] = 0 \/ slot'[t] = slot[t]
  BY <1>1, Disabled, SelfParts DEF SelfInStep
<1>3. CallsOK' /\ CallsSound'
  BY <1>1, SelfParts DEF SelfInStep, CallsOK, CallsSound, Answers
<1>4. AloneSound'
  BY <1>1, <1>2 DEF SelfInStep, AloneSound
<1> QED BY <1>2, <1>3, <1>4 DEF SelfSound

\* A button disables a source or not, and calls a function whose slot is empty.
LEMMA ButtonBegins ==
  ASSUME Me!BoundsAssumption, SelfInStep, open, NEW s \in Me!Source,
         Me!Disables(s) \/ UNCHANGED <<slot, shown, muted, notices>>,
         UNCHANGED <<open, made, served, paused, ended>>,
         NEW f \in Me!Source \cup {"change"}, NEW stage \in {"list", "device"},
         calls' = Me!BagAdd(calls, Me!Started(f, stage)),
         f \in Me!Source => slot[f] = 0,
         overlapped => overlapped',
         f \in Me!Source /\ Me!Running(f) => overlapped'
  PROVE  SelfSound'
<1>1. /\ Counted(calls') /\ Pending' \subseteq Me!Call /\ SameAnswers
      /\ Pending' = Pending \cup {Me!Started(f, stage)}
      /\ Me!Started(f, stage).run = f /\ Me!Started(f, stage).at = stage
      /\ \A t \in Me!Source : t # f /\ OneIn(calls, t) => OneIn(calls', t)
      /\ ~Me!Running(f) => OneIn(calls', f)
  BY CallBegins DEF SelfInStep, Me!Started
<1>2. \A x \in Pending' : x.at \in {"produce", "answer"} => x \in Pending
  BY <1>1
<1>3. CallsSound' /\ Answered' = Answered
  BY <1>1, <1>2, SameAnswersKeep DEF SelfInStep
<1>4. /\ DataOK' /\ DataSound'
      /\ \A t \in Me!Source : slot'[t] = 0 \/ slot'[t] = slot[t]
  <2>1. ended' \subseteq ended \cup Me!ToSet(shown)
    OBVIOUS
  <2> QED BY <1>3, <2>1, Disabled, SelfParts DEF SelfInStep
<1>5. AloneSound'
  <2>1. SUFFICES ASSUME ~overlapped'
                 PROVE  /\ \A t \in Me!Source : OneIn(calls', t)
                        /\ \A x \in Pending' : x.run \in Me!Source => slot'[x.run] = 0
    BY DEF AloneSound
  <2>2. /\ \A t \in Me!Source : OneIn(calls, t)
        /\ \A x \in Pending : x.run \in Me!Source => slot[x.run] = 0
        /\ f \in Me!Source => ~Me!Running(f)
    BY <2>1 DEF SelfInStep, AloneSound
  <2>3. \A t \in Me!Source : OneIn(calls', t)
    BY <1>1, <2>2
  <2>4. \A x \in Pending' : x.run \in Me!Source => slot[x.run] = 0
    BY <1>1, <2>2
  <2> QED BY <1>4, <2>3, <2>4
<1> QED BY <1>1, <1>3, <1>4, <1>5 DEF SelfSound, CallsOK

\* A call awaits something else, or ends.
LEMMA CallProceeds ==
  ASSUME SelfInStep, NEW k \in Pending, k.at # "answer",
         UNCHANGED <<open, slot, shown, muted, made, served, paused, notices, ended, overlapped>>,
         Me!Ends(k) \/ \E stage \in {"device", "produce", "replace"} :
                      /\ stage # k.at /\ Me!Goes(k, stage)
                      /\ stage = "produce" => open /\ k.run \in Me!Source
  PROVE  SelfSound'
<1>1. CallsOK /\ k \in Me!Call
  BY SelfParts DEF SelfInStep, CallsOK
<1>2. CASE Me!Ends(k)
  <2>1. /\ CallsOK' /\ Pending' \subseteq Pending /\ SameAnswers
        /\ \A s : OneIn(calls, s) => OneIn(calls', s)
    BY <1>2, CallEnds DEF SelfInStep, CallsOK
  <2>2. CallsSound' /\ AloneSound' /\ DataOK' /\ DataSound'
    BY <2>1, OnlyCalls
  <2> QED BY <2>1, <2>2 DEF SelfSound
<1>3. ASSUME NEW stage \in {"device", "produce", "replace"}, stage # k.at, Me!Goes(k, stage),
             stage = "produce" => open /\ k.run \in Me!Source
      PROVE  SelfSound'
  <2>1. PICK j \in Me!Call : j.run = k.run /\ j.at = stage /\ calls' = Me!BagAdd(Me!Without(k), j)
    BY <1>1, <1>3 DEF Me!Goes, Me!Call, Me!Stage
  <2>2. /\ CallsOK' /\ Pending' \subseteq Pending \cup {j} /\ SameAnswers
        /\ \A s : OneIn(calls, s) => OneIn(calls', s)
    BY <1>3, <2>1, CallBecomes DEF SelfInStep, CallsOK
  <2>3. \A x \in Pending' : x.at \in {"produce", "answer"} => x \in Pending \/ (open /\ x.run \in Me!Source)
    BY <1>3, <2>1, <2>2
  <2>4. \A x \in Pending' : \E y \in Pending : y.run = x.run
    BY <2>1, <2>2
  <2>5. CallsSound' /\ AloneSound' /\ DataOK' /\ DataSound'
    BY <2>2, <2>3, <2>4, OnlyCalls
  <2> QED BY <2>2, <2>5 DEF SelfSound
<1> QED BY <1>2, <1>3

-----------------------------------------------------------------------------
(* The steps. *)

LEMMA SettlesStep ==
  ASSUME Me!BoundsAssumption, SelfInStep, NEW k \in Pending, Me!Settles(k)
  PROVE  SelfInStep'
<1>1. Me!TypeOK
  BY DEF SelfInStep
<1>2. OthersOK'
  BY <1>1
  DEF Me!TypeOK, OthersOK, Me!Settles, Me!MicCaptured, Me!MicProduced, Me!EnableMicFailed, Me!WebcamsListed,
      Me!WebcamCaptured, Me!WebcamProduced, Me!EnableWebcamFailed, Me!OtherWebcamPicked,
      Me!OtherWebcamCaptured, Me!TrackReplaced, Me!ChangeWebcamFailed, Me!ShareCancelled, Me!ShareCaptured,
      Me!ShareProduced, Me!EnableShareFailed, Me!SetInProgress, Me!store, Me!history
<1>3. CASE Me!MicProduced(k) \/ Me!WebcamProduced(k) \/ Me!ShareProduced(k)
  <2>1. /\ k.at = "answer" /\ Me!Fills(k, k.run) /\ Me!Ends(k)
        /\ UNCHANGED <<open, muted, made, served, paused, notices, ended, overlapped>>
    BY <1>3 DEF Me!MicProduced, Me!WebcamProduced, Me!ShareProduced, Me!At, Me!history, Me!peer
  <2> QED BY <1>2, <2>1, Filled, SelfNext DEF SelfSound
<1>4. CASE ~(Me!MicProduced(k) \/ Me!WebcamProduced(k) \/ Me!ShareProduced(k))
  <2>1. k.at # "answer"
    BY <1>4 DEF Me!Settles, Me!MicCaptured, Me!EnableMicFailed, Me!WebcamsListed,
      Me!WebcamCaptured, Me!EnableWebcamFailed, Me!OtherWebcamPicked,
      Me!OtherWebcamCaptured, Me!TrackReplaced, Me!ChangeWebcamFailed, Me!ShareCancelled, Me!ShareCaptured,
      Me!EnableShareFailed, Me!At
  <2>2. UNCHANGED <<open, slot, shown, muted, made, served, paused, notices, ended, overlapped>>
    BY <1>4 DEF Me!Settles, Me!MicCaptured, Me!EnableMicFailed, Me!WebcamsListed,
      Me!WebcamCaptured, Me!EnableWebcamFailed, Me!OtherWebcamPicked,
      Me!OtherWebcamCaptured, Me!TrackReplaced, Me!ChangeWebcamFailed, Me!ShareCancelled, Me!ShareCaptured,
      Me!EnableShareFailed, Me!store, Me!history, Me!peer
  <2>3. Me!Ends(k) \/ \E stage \in {"device", "produce", "replace"} :
                     /\ stage # k.at /\ Me!Goes(k, stage)
                     /\ stage = "produce" => open /\ k.run \in Me!Source
    BY <1>4 DEF Me!Settles, Me!MicCaptured, Me!EnableMicFailed, Me!WebcamsListed,
      Me!WebcamCaptured, Me!EnableWebcamFailed, Me!OtherWebcamPicked,
      Me!OtherWebcamCaptured, Me!TrackReplaced, Me!ChangeWebcamFailed, Me!ShareCancelled, Me!ShareCaptured,
      Me!EnableShareFailed, Me!At, Me!Produces, Me!Source
  <2> QED BY <1>2, <2>1, <2>2, <2>3, CallProceeds, SelfNext
<1> QED BY <1>3, <1>4

LEMMA MicStep ==
  ASSUME SelfInStep, Me!MuteMic \/ Me!UnmuteMic
  PROVE  SelfInStep'
<1>1. DataOK /\ OthersOK
  BY SelfParts DEF SelfInStep
<1>2. PICK x : x = slot["mic"]
  OBVIOUS
<1>3. "mic" \in Me!Source /\ x # 0
  BY <1>2 DEF Me!Source, Me!MuteMic, Me!UnmuteMic
<1>4. x \in Me!Producer /\ x \in Me!ToSet(shown) /\ x \in DOMAIN made
  BY <1>1, <1>2, <1>3 DEF DataOK, SelfInStep, DataSound, SlotsSound, ServerSound
<1>5. UNCHANGED <<open, slot, calls, shown, progress, audioOnly, cookie, made, served, paused, ended,
                  overlapped, cancelled, joins>>
  BY DEF Me!MuteMic, Me!UnmuteMic, Me!peer, Me!history
<1>6. PICK m \in Notice : /\ m.type \in {"pause", "resume"} /\ m.id = x /\ notices' = Append(notices, m)
                           /\ muted' = IF m.type = "pause" THEN muted \cup {x} ELSE muted \ {x}
  <2>1. CASE Me!MuteMic
    <3>1. [type |-> "pause", id |-> x] \in Notice
      BY <1>4 DEF Notice
    <3> QED BY <1>2, <2>1, <3>1 DEF Me!MuteMic, Me!Notify, Me!SetProducerPaused
  <2>2. CASE Me!UnmuteMic
    <3>1. [type |-> "resume", id |-> x] \in Notice
      BY <1>4 DEF Notice
    <3> QED BY <1>2, <2>2, <3>1 DEF Me!UnmuteMic, Me!Notify, Me!SetProducerResumed
  <2> QED BY <2>1, <2>2
<1>7. /\ notices' \in Seq(Notice)
      /\ \A p : p # x => Sent(p)' = Sent(p)
      /\ Closing' = Closing
      /\ \A i \in 1 .. Len(notices') : i \in 1 .. Len(notices) \/ i = Len(notices')
      /\ \A i \in 1 .. Len(notices) : notices'[i] = notices[i]
      /\ notices'[Len(notices')] = m
  BY <1>1, <1>6, Notifies DEF DataOK
<1>8. Answered' = Answered /\ Pending' = Pending /\ Answers' = Answers
  BY <1>5 DEF Answered, Answers, Pending
<1>9. CallsOK' /\ CallsSound' /\ AloneSound'
  BY <1>5, <1>8, SelfParts DEF SelfInStep, CallsOK, CallsSound, AloneSound
<1>10. DataOK' /\ OthersOK'
  BY <1>1, <1>4, <1>5, <1>6, <1>7 DEF DataOK, OthersOK
<1>11. SlotsSound' /\ FoundSound'
  BY <1>5 DEF SelfInStep, DataSound, SlotsSound, FoundSound
<1>12. x \notin Answered
  BY <1>4 DEF SelfInStep, DataSound, NewSound
<1>13. NewSound'
  BY <1>5, <1>7, <1>8, <1>12 DEF SelfInStep, DataSound, NewSound
<1>14. ServerSound'
  <2>1. open
    BY DEF Me!MuteMic, Me!UnmuteMic
  <2>2. \A i \in 1 .. Len(notices') : notices'[i].id \in DOMAIN made
    BY <1>4, <1>6, <1>7 DEF SelfInStep, DataSound, ServerSound
  <2> QED BY <1>5, <1>7, <1>8, <2>1, <2>2 DEF SelfInStep, DataSound, ServerSound
<1>15. PauseSound'
  <2>1. \A p \in Me!ToSet(shown') : p # m.id => (p \in muted' <=> p \in muted)
    BY <1>6
  <2>2. m.id \in Me!ToSet(shown') => (m.id \in muted' <=> m.type = "pause")
    BY <1>6
  <2> QED BY <1>1, <1>5, <1>6, <2>1, <2>2, PauseSent DEF DataOK, SelfInStep, DataSound
<1> QED BY <1>9, <1>10, <1>11, <1>13, <1>14, <1>15, SelfNext DEF SelfSound, DataSound

\* enableWebcam() and enableShare() on a button.
LEMMA EnableStep ==
  ASSUME Me!BoundsAssumption, SelfInStep, open, Me!EnableWebcam \/ Me!EnableShare,
         UNCHANGED <<open, made, served, paused, ended>>
  PROVE  SelfSound' /\ progress' \subseteq {"webcam", "share"} /\ overlapped' \in BOOLEAN
<1>1. progress \subseteq {"webcam", "share"} /\ overlapped \in BOOLEAN
  BY DEF SelfInStep, Me!TypeOK
<1>2. {"webcam", "share"} \subseteq Me!Source
  BY DEF Me!Source
<1>3. CASE UNCHANGED <<slot, calls, shown, muted, notices, progress, overlapped>>
  <2>1. ended' \subseteq ended \cup Me!ToSet(shown)
    OBVIOUS
  <2> QED BY <1>1, <1>2, <1>3, <2>1, ButtonDisables
<1>4. CASE Me!EnableWebcam /\ slot["webcam"] = 0
  <2>1. /\ Me!Disables("share") /\ Me!SetInProgress("webcam", TRUE)
        /\ calls' = Me!BagAdd(calls, Me!Started("webcam", "list"))
        /\ overlapped' = (overlapped \/ Me!Running("webcam"))
    BY <1>4 DEF Me!EnableWebcam
  <2>2. SelfSound'
    BY <1>2, <1>4, <2>1, ButtonBegins
  <2>3. overlapped' \in BOOLEAN
    BY <1>1, <2>1 DEF Me!Running
  <2> QED BY <1>1, <2>1, <2>2, <2>3 DEF Me!SetInProgress
<1>5. CASE Me!EnableShare /\ slot["share"] = 0
  <2>1. /\ Me!Disables("webcam") /\ Me!SetInProgress("share", TRUE)
        /\ calls' = Me!BagAdd(calls, Me!Started("share", "device"))
        /\ overlapped' = (overlapped \/ Me!Running("share"))
    BY <1>5 DEF Me!EnableShare
  <2>2. SelfSound'
    BY <1>2, <1>5, <2>1, ButtonBegins
  <2>3. overlapped' \in BOOLEAN
    BY <1>1, <2>1 DEF Me!Running
  <2> QED BY <1>1, <2>1, <2>2, <2>3 DEF Me!SetInProgress
<1> QED BY <1>3, <1>4, <1>5 DEF Me!EnableWebcam, Me!EnableShare

LEMMA ButtonStep ==
  ASSUME Me!BoundsAssumption, SelfInStep,
         Me!ClickWebcam \/ Me!ChangeWebcam \/ Me!ClickShare \/ Me!EnableAudioOnly \/ Me!DisableAudioOnly
  PROVE  SelfInStep'
<1>1. Me!TypeOK /\ {"webcam", "share"} \subseteq Me!Source /\ ended \subseteq ended \cup Me!ToSet(shown)
  BY DEF SelfInStep, Me!Source
<1>2. CASE Me!ClickWebcam
  <2>1. open /\ UNCHANGED <<open, audioOnly, made, served, paused, ended, cancelled, joins>>
    BY <1>2 DEF Me!ClickWebcam, Me!Enabled, Me!peer
  <2>2. cookie' \in {"on", "off"}
    BY <1>2 DEF Me!ClickWebcam
  <2>3. CASE Me!Disables("webcam") /\ UNCHANGED <<calls, progress, overlapped>>
    <3>1. SelfSound'
      BY <1>1, <2>1, <2>3, ButtonDisables
    <3> QED BY <1>1, <2>1, <2>2, <2>3, <3>1, SelfNext DEF Me!TypeOK, OthersOK
  <2>4. CASE Me!EnableWebcam
    <3>1. SelfSound' /\ progress' \subseteq {"webcam", "share"} /\ overlapped' \in BOOLEAN
      BY <2>1, <2>4, EnableStep
    <3> QED BY <1>1, <2>1, <2>2, <3>1, SelfNext DEF Me!TypeOK, OthersOK
  <2> QED BY <1>2, <2>3, <2>4 DEF Me!ClickWebcam
<1>3. CASE Me!ChangeWebcam
  <2>1. /\ open /\ Me!SetInProgress("webcam", TRUE)
        /\ calls' = Me!BagAdd(calls, Me!Started("change", "list"))
        /\ UNCHANGED <<open, slot, shown, muted, audioOnly, cookie, made, served, paused, notices, ended,
                       overlapped, cancelled, joins>>
    BY <1>3 DEF Me!ChangeWebcam, Me!Enabled, Me!peer, Me!history
  <2>2. SelfSound'
    <3>1. "change" \notin Me!Source
      BY DEF Me!Source
    <3> QED BY <1>1, <2>1, <3>1, ButtonBegins
  <2> QED BY <1>1, <2>1, <2>2, SelfNext DEF Me!TypeOK, OthersOK, Me!SetInProgress
<1>4. CASE Me!ClickShare
  <2>1. open /\ UNCHANGED <<open, audioOnly, cookie, made, served, paused, ended, cancelled, joins>>
    BY <1>4 DEF Me!ClickShare, Me!Enabled, Me!peer
  <2>3. CASE Me!Disables("share") /\ UNCHANGED <<calls, progress, overlapped>>
    <3>1. SelfSound'
      BY <1>1, <2>1, <2>3, ButtonDisables
    <3> QED BY <1>1, <2>1, <2>3, <3>1, SelfNext DEF Me!TypeOK, OthersOK
  <2>4. CASE Me!EnableShare
    <3>1. SelfSound' /\ progress' \subseteq {"webcam", "share"} /\ overlapped' \in BOOLEAN
      BY <2>1, <2>4, EnableStep
    <3> QED BY <1>1, <2>1, <3>1, SelfNext DEF Me!TypeOK, OthersOK
  <2> QED BY <1>4, <2>3, <2>4 DEF Me!ClickShare
<1>5. CASE Me!EnableAudioOnly
  <2>1. /\ open /\ audioOnly' = TRUE /\ Me!Disables("webcam")
        /\ UNCHANGED <<open, calls, progress, cookie, made, served, paused, ended, overlapped, cancelled,
                       joins>>
    BY <1>5 DEF Me!EnableAudioOnly, Me!peer, Me!history
  <2>2. SelfSound'
    BY <1>1, <2>1, ButtonDisables
  <2> QED BY <1>1, <2>1, <2>2, SelfNext DEF Me!TypeOK, OthersOK
<1>6. CASE Me!DisableAudioOnly
  <2>1. /\ open /\ audioOnly' = FALSE
        /\ UNCHANGED <<open, cookie, made, served, paused, ended, cancelled, joins>>
    BY <1>6 DEF Me!DisableAudioOnly, Me!peer
  <2>2. CASE Me!EnableWebcam
    <3>1. SelfSound' /\ progress' \subseteq {"webcam", "share"} /\ overlapped' \in BOOLEAN
      BY <2>1, <2>2, EnableStep
    <3> QED BY <1>1, <2>1, <3>1, SelfNext DEF Me!TypeOK, OthersOK
  <2>3. CASE UNCHANGED <<slot, calls, shown, muted, notices, progress, overlapped>>
    <3>1. SelfSound'
      BY <1>1, <2>1, <2>3, ButtonDisables
    <3> QED BY <1>1, <2>1, <2>3, <3>1, SelfNext DEF Me!TypeOK, OthersOK
  <2> QED BY <1>6, <2>2, <2>3 DEF Me!DisableAudioOnly
<1> QED BY <1>2, <1>3, <1>4, <1>5, <1>6

LEMMA TrackEndedStep ==
  ASSUME Me!BoundsAssumption, SelfInStep, NEW p \in Me!Producer, Me!TrackEnded(p)
  PROVE  SelfInStep'
<1>1. /\ p \in Me!ToSet(shown) /\ Me!Disables(made[p]) /\ ended' = (ended \cup {p}) \cap Me!ToSet(shown')
      /\ UNCHANGED <<open, calls, progress, audioOnly, cookie, made, served, paused, overlapped,
                     cancelled, joins>>
  BY DEF Me!TrackEnded, Me!peer, Me!history
<1>2. Me!TypeOK /\ DataOK
  BY SelfParts DEF SelfInStep
<1>3. p \in DOMAIN made /\ made[p] \in Me!Source
  BY <1>1, <1>2, MadeIsProducer DEF SelfInStep, DataSound, ServerSound
<1>4. open
  <2>1. shown = <<>> => Me!ToSet(shown) = {}
    BY DEF Me!ToSet
  <2> QED BY <1>1, <2>1 DEF SelfInStep, DataSound, ServerSound
<1>5. SelfSound'
  BY <1>1, <1>3, <1>4, ButtonDisables
<1> QED BY <1>1, <1>2, <1>5, SelfNext DEF Me!TypeOK, OthersOK

\* Outside the Room the client has no Producer, and no call waits for one.
LEMMA Outside ==
  ASSUME SelfInStep, ~open
  PROVE  /\ served = {} /\ paused = {} /\ shown = <<>> /\ notices = <<>> /\ Answered = {}
         /\ \A s \in Me!Source : slot[s] = 0
         /\ \A k \in Pending : k.at \notin {"produce", "answer"}
BY DEF SelfInStep, DataSound, ServerSound, CallsSound, Answered, Answers, Me!TypeOK

LEMMA SelfJoinRoom ==
  ASSUME Me!BoundsAssumption, SelfInStep, Me!JoinRoom
  PROVE  SelfInStep'
<1>1. Me!TypeOK /\ CallsOK /\ DataOK
  BY SelfParts DEF SelfInStep
<1>2. PICK a, b : a = Me!Started("mic", "device") /\ b = Me!Started("webcam", "list")
  OBVIOUS
<1>3. /\ a \in Me!Call /\ a.run = "mic" /\ a.at = "device"
      /\ b \in Me!Call /\ b.run = "webcam" /\ b.at = "list"
  BY <1>2 DEF Me!Started, Me!Call, Me!Stage, Me!Source
<1>4. /\ ~open /\ open'
      /\ UNCHANGED <<slot, shown, muted, audioOnly, cookie, made, served, paused, notices, ended, cancelled>>
  BY DEF Me!JoinRoom, Me!peer
<1>5. overlapped => overlapped'
  BY DEF Me!JoinRoom
<1>6. /\ CallsOK' /\ Pending' \subseteq Pending \cup {a, b}
      /\ ~overlapped' => \A s \in Me!Source : OneIn(calls', s)
  <2>1. PICK c : c = Me!BagAdd(calls, a)
    OBVIOUS
  <2>2. Counted(calls) /\ Pending = DOMAIN calls /\ Pending' = DOMAIN calls' /\ Pending \subseteq Me!Call
    BY <1>1 DEF CallsOK, Pending, Counted
  <2>3. Grown(calls, a, c)
    BY <2>1, <2>2, BeganIn
  <2>4. calls' = c \/ calls' = Me!BagAdd(c, b)
    BY <1>2, <2>1 DEF Me!JoinRoom, Me!EnableMic
  <2>5. calls' = c \/ Grown(c, b, calls')
    <3>1. Counted(c)
      BY <2>3 DEF Grown
    <3>2. Grown(c, b, Me!BagAdd(c, b))
      BY <3>1, BeganIn
    <3> QED BY <2>4, <3>2
  <2>6. CallsOK' /\ Pending' \subseteq Pending \cup {a, b}
    BY <1>3, <2>2, <2>3, <2>5 DEF Grown, CallsOK
  <2>7. ASSUME ~overlapped', NEW s \in Me!Source PROVE OneIn(calls', s)
    <3>1. ~overlapped /\ ~Me!Running("mic") /\ (calls' = c \/ ~Me!Running("webcam"))
      BY <1>2, <2>1, <2>7 DEF Me!JoinRoom, Me!EnableMic
    <3>2. OneIn(calls, s)
      BY <2>7, <3>1 DEF SelfInStep, AloneSound
    <3>3. \A x \in DOMAIN calls : x.run # "mic"
      BY <2>2, <3>1 DEF Me!Running, Pending
    <3>4. OneIn(c, s)
      BY <1>3, <2>3, <3>2, <3>3 DEF Grown
    <3>5. CASE calls' = c
      BY <3>4, <3>5
    <3>6. CASE ~Me!Running("webcam") /\ Grown(c, b, calls')
      <4>1. \A x \in DOMAIN c : x.run # "webcam"
        BY <1>3, <2>2, <2>3, <3>6 DEF Me!Running, Pending, Grown
      <4> QED BY <1>3, <3>4, <3>6, <4>1 DEF Grown
    <3> QED BY <2>5, <3>1, <3>5, <3>6
  <2> QED BY <2>6, <2>7
<1>7. \A k \in Pending' : k.at \notin {"produce", "answer"}
  BY <1>3, <1>4, <1>6, Outside
<1>8. Answered' = {} /\ Answered = {}
  BY <1>4, <1>7, Outside DEF Answered, Answers
<1>9. CallsSound'
  BY <1>7 DEF CallsSound, Answers
<1>10. AloneSound'
  BY <1>4, <1>6, Outside DEF AloneSound
<1>11. DataOK'
  BY <1>1, <1>4 DEF DataOK
<1>12. (\A p : Sent(p)' = Sent(p)) /\ Closing' = Closing
  BY <1>4 DEF Sent, Closing
<1>13. SlotsSound' /\ NewSound' /\ ServerSound'
  BY <1>4, <1>8, <1>12 DEF SelfInStep, DataSound, SlotsSound, NewSound, ServerSound
<1>14. PauseSound'
  BY <1>4, <1>12 DEF SelfInStep, DataSound, PauseSound, Latest
<1>15. FoundSound'
  BY <1>4, <1>5 DEF SelfInStep, DataSound, FoundSound
<1>16. OthersOK'
  <2>1. joins' \in 0 .. MaxSessions
    BY <1>1 DEF Me!BoundsAssumption, Me!JoinRoom, Me!TypeOK
  <2>2. overlapped' \in BOOLEAN
    BY <1>1 DEF Me!JoinRoom, Me!TypeOK, Me!Running
  <2>3. progress' \subseteq {"webcam", "share"} /\ open' \in BOOLEAN
    BY <1>1 DEF Me!JoinRoom, Me!TypeOK
  <2> QED BY <1>1, <1>4, <2>1, <2>2, <2>3 DEF OthersOK, Me!TypeOK
<1> QED BY <1>6, <1>9, <1>10, <1>11, <1>13, <1>14, <1>15, <1>16, SelfNext DEF SelfSound, DataSound

LEMMA DisconnectedStep ==
  ASSUME SelfInStep, Me!Disconnected
  PROVE  SelfInStep'
<1>1. Me!TypeOK /\ CallsOK /\ DataOK
  BY SelfParts DEF SelfInStep
<1>2. /\ ~open' /\ slot' = [s \in Me!Source |-> 0]
      /\ shown' = <<>> /\ muted' = {} /\ progress' = {} /\ audioOnly' = FALSE
      /\ served' = {} /\ paused' = {} /\ notices' = <<>> /\ ended' = {}
      /\ UNCHANGED <<cookie, made, overlapped, cancelled, joins>>
  BY DEF Me!Disconnected, Me!RoomClosed, Me!history
<1>3. /\ Counted(calls') /\ Pending' \subseteq Pending
      /\ \A k \in Pending' : calls'[k] = calls[k]
      /\ \A k \in Pending' : k.at \notin {"produce", "answer"}
  <2>1. calls' = [k \in {c \in DOMAIN calls : c.at \notin {"produce", "answer"}} |-> calls[k]]
    BY DEF Me!Disconnected
  <2>2. Counted(calls) /\ Pending = DOMAIN calls /\ Pending' = DOMAIN calls'
    BY <1>1 DEF CallsOK, Pending, Counted
  <2> QED BY <2>1, <2>2 DEF Counted
<1>4. ASSUME NEW s, OneIn(calls, s) PROVE OneIn(calls', s)
  BY <1>3, <1>4 DEF OneIn, Pending
<1>5. CallsOK' /\ CallsSound'
  BY <1>1, <1>3 DEF CallsOK, CallsSound, Answers
<1>6. AloneSound'
  BY <1>2, <1>3, <1>4 DEF SelfInStep, AloneSound
<1>7. Me!ToSet(shown') = {} /\ Once(shown') /\ shown' \in Seq(Me!Producer)
  BY <1>2 DEF Me!ToSet, Once
<1>8. Answered' = {} /\ Closing' = {} /\ \A p : Sent(p)' = {}
  BY <1>2, <1>3 DEF Answered, Answers, Closing, Sent
<1>9. DataOK'
  <2>1. slot' \in [Me!Source -> Me!Producer \cup {0}] /\ notices' \in Seq(Notice)
    BY <1>2
  <2> QED BY <1>1, <1>2, <1>7, <2>1 DEF DataOK
<1>10. SlotsSound' /\ NewSound' /\ PauseSound' /\ FoundSound'
  BY <1>2, <1>7, <1>8 DEF SlotsSound, NewSound, PauseSound, FoundSound
<1>11. ServerSound'
  BY <1>2, <1>7, <1>8 DEF ServerSound
<1>12. OthersOK'
  BY <1>1, <1>2 DEF OthersOK, Me!TypeOK, Me!Disconnected
<1> QED BY <1>3, <1>5, <1>6, <1>9, <1>10, <1>11, <1>12, SelfNext DEF SelfSound, DataSound

LEMMA ProduceStep ==
  ASSUME Me!BoundsAssumption, SelfInStep, NEW k \in Pending, Me!Produce(k)
  PROVE  SelfInStep'
<1>1. Me!TypeOK /\ CallsOK /\ DataOK /\ k \in Me!Call
  BY SelfParts DEF SelfInStep, CallsOK
<1>2. /\ k.at = "produce" /\ Len(made) < MaxProducers
      /\ \A j \in Pending : j.at # "answer"
      /\ made' = Append(made, k.run)
      /\ UNCHANGED <<open, slot, shown, muted, progress, audioOnly, cookie, paused, notices, ended,
                     overlapped, cancelled, joins>>
  BY DEF Me!Produce, Pending, Me!store, Me!history
<1>3. open /\ k.run \in Me!Source
  BY <1>2 DEF SelfInStep, CallsSound
<1>4. PICK n : n = Len(made) + 1
  OBVIOUS
<1>5. /\ Len(made) \in Nat /\ DOMAIN made = 1 .. Len(made)
      /\ \A p \in DOMAIN made : made[p] \in Me!Source
  BY <1>1, MadeIsProducer
<1>6. n \in Me!Producer /\ n \notin DOMAIN made
  BY <1>2, <1>4, <1>5 DEF Me!BoundsAssumption, Me!Producer
<1>7. /\ made' \in Seq(Me!Source) /\ Len(made') = n /\ Len(made') <= MaxProducers
      /\ DOMAIN made' = DOMAIN made \cup {n} /\ made'[n] = k.run
      /\ \A p \in DOMAIN made : made'[p] = made[p]
  <2>1. /\ made' \in Seq(Me!Source) /\ Len(made') = Len(made) + 1
        /\ \A i \in 1 .. Len(made) : made'[i] = made[i]
        /\ made'[Len(made) + 1] = k.run
    BY <1>1, <1>2, <1>3, AppendProperties DEF DataOK
  <2>2. DOMAIN made' = 1 .. Len(made')
    BY <2>1, LenProperties
  <2> QED BY <1>2, <1>4, <1>5, <2>1, <2>2 DEF Me!BoundsAssumption
<1>8. PICK j \in Me!Call : /\ j.run = k.run /\ j.at = "answer" /\ j.id = n
                        /\ calls' = Me!BagAdd(Me!Without(k), j)
  BY <1>1, <1>4, <1>6 DEF Me!Produce, Me!Call, Me!Stage
<1>9. /\ CallsOK' /\ Pending' \subseteq Pending \cup {j} /\ j \in Pending' /\ calls'[j] = 1
      /\ \A s : OneIn(calls, s) => OneIn(calls', s)
  BY <1>1, <1>2, <1>8, CallBecomes DEF CallsOK
<1>10. Answers = {} /\ Answered = {} /\ Answers' = {j} /\ Answered' = {n}
  <2>1. Answers = {} /\ Answers' = {j}
    BY <1>2, <1>8, <1>9 DEF Answers
  <2> QED BY <1>8, <2>1 DEF Answered
<1>11. CallsSound'
  BY <1>2, <1>3, <1>7, <1>8, <1>9, <1>10 DEF SelfInStep, CallsSound
<1>12. AloneSound'
  BY <1>2, <1>8, <1>9 DEF SelfInStep, AloneSound
<1>13. served' = served \cup {n}
  BY <1>4 DEF Me!Produce
<1>14. DataOK'
  BY <1>1, <1>2, <1>7, <1>13 DEF DataOK
<1>15. (\A p : Sent(p)' = Sent(p)) /\ Closing' = Closing
  BY <1>2 DEF Sent, Closing
<1>16. Me!ToSet(shown) \subseteq DOMAIN made /\ \A i \in 1 .. Len(notices) : notices[i].id \in DOMAIN made
  BY DEF SelfInStep, DataSound, ServerSound
<1>17. n \notin Me!ToSet(shown) /\ n \notin paused /\ Sent(n) = {} /\ n \notin Closing
  BY <1>1, <1>6, <1>16 DEF DataOK, Sent, Closing
<1>18. SlotsSound' /\ FoundSound'
  BY <1>2, <1>7, <1>16 DEF SelfInStep, DataSound, SlotsSound, FoundSound
<1>19. NewSound'
  BY <1>2, <1>10, <1>15, <1>17 DEF NewSound
<1>20. ServerSound'
  <2>1. served' \ Closing' = Me!ToSet(shown') \cup Answered'
    BY <1>2, <1>10, <1>13, <1>15, <1>17 DEF SelfInStep, DataSound, ServerSound
  <2>2. Closing' \cap (Me!ToSet(shown') \cup Answered') = {}
    BY <1>2, <1>10, <1>15, <1>17 DEF SelfInStep, DataSound, ServerSound
  <2> QED BY <1>2, <1>3, <1>7, <1>16, <2>1, <2>2 DEF ServerSound
<1>21. PauseSound'
  BY <1>2, <1>15 DEF SelfInStep, DataSound, PauseSound, Latest
<1>22. OthersOK'
  BY <1>1, <1>2 DEF OthersOK, Me!TypeOK
<1> QED BY <1>9, <1>11, <1>12, <1>14, <1>18, <1>19, <1>20, <1>21, <1>22, SelfNext DEF SelfSound, DataSound

LEMMA NotifiedStep ==
  ASSUME SelfInStep, Me!Notified
  PROVE  SelfInStep'
<1>1. Me!TypeOK /\ CallsOK /\ DataOK
  BY SelfParts DEF SelfInStep
<1>2. /\ notices # <<>> /\ notices' = Tail(notices)
      /\ UNCHANGED <<open, slot, calls, shown, muted, progress, audioOnly, cookie, made, ended,
                     overlapped, cancelled, joins>>
  BY DEF Me!Notified, Me!store, Me!history
<1>3. PICK m : m = notices[1]
  OBVIOUS
<1>4. /\ notices' \in Seq(Notice) /\ Head(notices) = m /\ m \in Notice
      /\ Len(notices) \in Nat /\ 1 \in 1 .. Len(notices) /\ Len(notices') = Len(notices) - 1
      /\ \A i \in 1 .. Len(notices') : i + 1 \in 1 .. Len(notices) /\ notices'[i] = notices[i + 1]
      /\ \A i \in 1 .. Len(notices') : Latest(i)' => Latest(i + 1)
      /\ \A p : Sent(p)' = {} => Sent(p) \subseteq {1}
      /\ \A p : Sent(p)' = {} /\ m.id = p => Latest(1)
      /\ Closing' \subseteq Closing
      /\ \A p \in Closing : p \in Closing' \/ (m.type = "close" /\ m.id = p)
  BY <1>1, <1>2, <1>3, Arrives DEF DataOK
<1>5. PICK x : x = m.id
  OBVIOUS
<1>6. /\ x \in Me!Producer /\ m.type \in {"close", "pause", "resume"}
      /\ m.type = "close" => x \in Closing
  BY <1>3, <1>4, <1>5 DEF Notice, Closing
<1>7. /\ served' = IF m.type = "close" THEN served \ {x} ELSE served
      /\ paused' = IF m.type = "pause" THEN paused \cup ({x} \cap served) ELSE paused \ {x}
  <2>1. /\ served' = IF m.type = "close" THEN served \ {m.id} ELSE served
        /\ paused' = CASE m.type = "pause" -> paused \cup ({m.id} \cap served)
                       [] OTHER -> paused \ {m.id}
    BY <1>4 DEF Me!Notified
  <2> QED BY <1>5, <2>1
<1>8. open
  BY <1>2 DEF SelfInStep, DataSound, ServerSound
<1>9. /\ served \ Closing = Me!ToSet(shown) \cup Answered
      /\ Closing \cap (Me!ToSet(shown) \cup Answered) = {}
  BY DEF SelfInStep, DataSound, ServerSound
<1>10. Answered' = Answered /\ Pending' = Pending /\ Answers' = Answers
  BY <1>2 DEF Answered, Answers, Pending
<1>11. CallsOK' /\ CallsSound' /\ AloneSound'
  BY <1>1, <1>2, <1>10 DEF SelfInStep, CallsOK, CallsSound, AloneSound
<1>12. DataOK' /\ OthersOK'
  <2>1. served' \subseteq DOMAIN made /\ paused' \subseteq served'
    BY <1>1, <1>6, <1>7 DEF DataOK
  <2> QED BY <1>1, <1>2, <1>4, <2>1 DEF DataOK, OthersOK, Me!TypeOK
<1>13. SlotsSound' /\ FoundSound'
  BY <1>2 DEF SelfInStep, DataSound, SlotsSound, FoundSound
<1>14. ASSUME NEW p, Sent(p) = {} PROVE Sent(p)' = {} /\ p # x
  <2>1. \A i \in 1 .. Len(notices) : notices[i].id # p
    BY <1>14 DEF Sent
  <2>2. \A i \in 1 .. Len(notices') : notices'[i].id # p
    BY <1>4, <2>1
  <2> QED BY <1>3, <1>4, <1>5, <2>1, <2>2 DEF Sent
<1>15. NewSound'
  <2>1. ASSUME NEW p \in Answered PROVE p \notin Me!ToSet(shown) /\ p \notin paused' /\ Sent(p)' = {}
    BY <1>7, <1>14, <2>1 DEF SelfInStep, DataSound, NewSound
  <2> QED BY <1>2, <1>10, <2>1 DEF NewSound
<1>16. ServerSound'
  <2>1. served' \ Closing' = Me!ToSet(shown) \cup Answered
    <3>1. CASE m.type = "close"
      BY <1>4, <1>5, <1>6, <1>7, <1>9, <3>1
    <3>2. CASE m.type # "close"
      BY <1>4, <1>7, <1>9, <3>2
    <3> QED BY <3>1, <3>2
  <2>2. Closing' \cap (Me!ToSet(shown) \cup Answered) = {}
    BY <1>4, <1>9
  <2>3. \A i \in 1 .. Len(notices') : notices'[i].id \in DOMAIN made
    BY <1>4 DEF SelfInStep, DataSound, ServerSound
  <2>4. Me!ToSet(shown) \subseteq DOMAIN made
    BY DEF SelfInStep, DataSound, ServerSound
  <2> QED BY <1>2, <1>8, <1>10, <2>1, <2>2, <2>3, <2>4 DEF ServerSound
<1>17. PauseSound'
  <2>1. ASSUME NEW p \in Me!ToSet(shown)
        PROVE  /\ Sent(p)' = {} => (p \in muted <=> p \in paused')
               /\ \A i \in Sent(p)' : Latest(i)' => (p \in muted <=> notices'[i].type = "pause")
    <3>1. p \in served /\ p \notin Closing
      BY <1>9, <2>1
    <3>2. ASSUME NEW i \in Sent(p)', Latest(i)' PROVE p \in muted <=> notices'[i].type = "pause"
      <4>1. i \in 1 .. Len(notices') /\ notices'[i].id = p
        BY <3>2 DEF Sent
      <4>2. i + 1 \in Sent(p) /\ Latest(i + 1) /\ notices'[i] = notices[i + 1]
        BY <1>4, <3>2, <4>1 DEF Sent
      <4> QED BY <2>1, <4>2 DEF SelfInStep, DataSound, PauseSound
    <3>3. ASSUME Sent(p)' = {}, x # p PROVE p \in muted <=> p \in paused'
      <4>1. Sent(p) = {}
        <5>1. Sent(p) \subseteq {1}
          BY <1>4, <3>3
        <5>2. 1 \notin Sent(p)
          BY <1>3, <1>5, <3>3 DEF Sent
        <5> QED BY <5>1, <5>2
      <4>2. p \in muted <=> p \in paused
        BY <2>1, <4>1 DEF SelfInStep, DataSound, PauseSound
      <4>3. p \in paused' <=> p \in paused
        BY <1>7, <3>3
      <4> QED BY <4>2, <4>3
    <3>4. ASSUME Sent(p)' = {}, x = p PROVE p \in muted <=> p \in paused'
      <4>1. 1 \in Sent(p) /\ Latest(1)
        <5>1. Latest(1)
          BY <1>4, <1>5, <3>4
        <5>2. 1 \in Sent(p)
          BY <1>3, <1>4, <1>5, <3>4 DEF Sent
        <5> QED BY <5>1, <5>2
      <4>2. p \in muted <=> m.type = "pause"
        BY <1>3, <2>1, <4>1 DEF SelfInStep, DataSound, PauseSound
      <4>3. p \in paused' <=> m.type = "pause"
        BY <1>6, <1>7, <3>1, <3>4
      <4> QED BY <4>2, <4>3
    <3> QED BY <3>2, <3>3, <3>4
  <2> QED BY <1>2, <2>1 DEF PauseSound
<1> QED BY <1>11, <1>12, <1>13, <1>15, <1>16, <1>17, SelfNext DEF SelfSound, DataSound

LEMMA StutterStep ==
  ASSUME SelfInStep, UNCHANGED Me!vars
  PROVE  SelfInStep'
<1>1. Me!TypeOK
  BY DEF SelfInStep
<1>2. UNCHANGED <<open, slot, calls, shown, muted, progress, audioOnly, cookie, made, served, paused,
                  notices, ended, overlapped, cancelled, joins>>
  BY DEF Me!vars, Me!store, Me!peer, Me!history
<1>3. SameAnswers
  BY <1>2 DEF SameAnswers, Answers, Pending
<1>4. Pending' = Pending /\ CallsOK' /\ OthersOK'
  BY <1>1, <1>2, SelfParts DEF CallsOK, OthersOK, Pending
<1>5. CallsSound' /\ AloneSound' /\ DataOK' /\ DataSound'
  BY <1>2, <1>3, <1>4, OnlyCalls
<1> QED BY <1>4, <1>5, SelfNext DEF SelfSound

LEMMA ProducingStarts ==
  ASSUME Me!BoundsAssumption, Me!Init
  PROVE  SelfInStep
<1>1. Pending = {} /\ Answers = {} /\ Answered = {} /\ Counted(calls)
  BY DEF Me!Init, Pending, Answers, Answered, Counted
<1>2. Me!ToSet(shown) = {} /\ Once(shown) /\ shown \in Seq(Me!Producer)
  BY DEF Me!Init, Me!ToSet, Once
<1>3. CallsSound /\ AloneSound
  BY <1>1 DEF CallsSound, AloneSound, OneIn, Pending, Me!Init
<1>4. Closing = {} /\ \A p : Sent(p) = {}
  BY DEF Me!Init, Closing, Sent
<1>5. SlotsSound /\ NewSound /\ PauseSound /\ FoundSound
  BY <1>1, <1>2, <1>4 DEF Me!Init, SlotsSound, NewSound, PauseSound, FoundSound
<1>6. ServerSound
  BY <1>1, <1>2, <1>4 DEF Me!Init, ServerSound
<1>7. Me!TypeOK
  <2>1. /\ slot \in [Me!Source -> Me!Producer \cup {0}] /\ made \in Seq(Me!Source) /\ Len(made) <= MaxProducers
        /\ notices \in Seq(Notice) /\ joins \in 0 .. MaxSessions
    BY DEF Me!BoundsAssumption, Me!Init
  <2>2. CallsOK
    BY <1>1 DEF CallsOK
  <2>3. DataOK /\ OthersOK
    BY <1>2, <2>1 DEF Me!Init, DataOK, OthersOK
  <2> QED BY <2>2, <2>3, SelfParts
<1> QED BY <1>3, <1>5, <1>6, <1>7 DEF SelfInStep, DataSound

LEMMA ProducingStep ==
  ASSUME Me!BoundsAssumption, SelfInStep, [Me!Next]_(Me!vars)
  PROVE  SelfInStep'
<1>1. ASSUME NEW k \in Pending, Me!Settles(k) \/ Me!Produce(k) PROVE SelfInStep'
  BY <1>1, SettlesStep, ProduceStep
<1> QED
  BY <1>1, MicStep, ButtonStep, TrackEndedStep, SelfJoinRoom, DisconnectedStep, NotifiedStep,
     StutterStep
  DEF Me!Next, Pending

\* Every state of the producing half satisfies its invariant.
THEOREM ProducingInStep == ASSUME Me!BoundsAssumption PROVE Me!Spec => []SelfInStep
<1>1. Me!Init => SelfInStep
  BY ProducingStarts
<1>2. SelfInStep /\ [Me!Next]_(Me!vars) => SelfInStep'
  BY ProducingStep
<1> QED BY <1>1, <1>2, PTL DEF Me!Spec

\* When nothing is under way, the store shows the Producers that the server has of this
\* client, each paused as it is there, whatever was clicked, ended or reconnected before.
THEOREM StoreFollowsServer ==
  ASSUME Me!BoundsAssumption PROVE Me!Spec => []StoreShowsServer
<1>1. ASSUME SelfInStep, NothingUnderWay PROVE Me!ToSet(shown) = served /\ muted = paused
  <2>1. Answered = {}
    BY <1>1 DEF NothingUnderWay, Answered, Answers, Pending
  <2>2. Closing = {} /\ \A p : Sent(p) = {}
    BY <1>1 DEF NothingUnderWay, Closing, Sent
  <2>3. Me!ToSet(shown) = served
    BY <1>1, <2>1, <2>2 DEF SelfInStep, DataSound, ServerSound
  <2>4. muted \subseteq Me!ToSet(shown) /\ paused \subseteq served
    BY <1>1 DEF SelfInStep, Me!TypeOK
  <2> QED BY <1>1, <2>2, <2>3, <2>4 DEF SelfInStep, DataSound, PauseSound
<1>2. SelfInStep => StoreShowsServer
  BY <1>1 DEF StoreShowsServer, Me!ToSet
<1> QED BY <1>2, ProducingInStep, PTL

\* A Producer that is shown can be closed by the function for its source, unless that
\* source was enabled again while it was being enabled.
THEOREM ShownCanBeClosed ==
  ASSUME Me!BoundsAssumption PROVE Me!Spec => []ShownIsInSlot
<1>1. SelfInStep => ShownIsInSlot
  BY DEF SelfInStep, DataSound, FoundSound, ShownIsInSlot, Me!ToSet
<1> QED BY <1>1, ProducingInStep, PTL

=============================================================================
