------------------------ MODULE RoomMembership_proofs ------------------------
(***************************************************************************)
(* Proofs about RoomMembership, for every set of objects, peerIds and      *)
(* transports.  Registry is the inductive core: what the four Maps say and *)
(* what the objects say agree, and no peerId has two live objects.  The    *)
(* roster invariants are proved on top of it.                              *)
(***************************************************************************)
EXTENDS RoomMembership, TLAPS

\* An object that does not exist is neither joined nor closed, and every other
\* one has a peerId.
ObjectsSound ==
  \A c \in Conn :
    /\ class[c] = "unborn" => c \notin closed /\ c \notin joined
    /\ class[c] # "unborn" => id[c] \in PeerId

\* Every entry is a live object of the Map's class and state, under its peerId.
MapsSound ==
  \A i \in PeerId, c \in Conn :
    /\ peers[i] = c =>
         class[c] = "Peer" /\ c \notin closed /\ c \in joined /\ id[c] = i
    /\ joiningPeers[i] = c =>
         class[c] = "Peer" /\ c \notin closed /\ c \notin joined /\ id[c] = i
    /\ broadcasterPeers[i] = c =>
         class[c] = "BroadcasterPeer" /\ c \notin closed /\ c \in joined /\ id[c] = i
    /\ joiningBroadcasterPeers[i] = c =>
         class[c] = "BroadcasterPeer" /\ c \notin closed /\ c \notin joined /\ id[c] = i

Registry ==
  /\ TypeOK
  /\ ObjectsSound
  /\ MapsSound
  /\ EveryLiveObjectRegistered
  /\ OneLiveObjectPerId
  /\ NoOneInClosedRoom

-----------------------------------------------------------------------------

LEMMA InitRegistry == Init => Registry
<1> SUFFICES ASSUME Init PROVE Registry
  OBVIOUS
<1>1. TypeOK
  BY DEF Init, TypeOK, Map
<1>2. ObjectsSound /\ NoOneInClosedRoom /\ EveryLiveObjectRegistered
                   /\ OneLiveObjectPerId
  BY DEF Init, ObjectsSound, NoOneInClosedRoom, EveryLiveObjectRegistered,
     OneLiveObjectPerId, Live
<1>3. MapsSound
  BY NoneAssumption DEF Init, MapsSound
<1> QED BY <1>1, <1>2, <1>3 DEF Registry

\* An arrival closes exactly the live object that holds the peerId.
LEMMA ReplacedIsTheHolder ==
  ASSUME Registry, NEW i \in PeerId
  PROVE  ExistingPeer(i) \cup ExistingBroadcaster(i)
           = {d \in Conn : Live(d) /\ id[d] = i}
<1>1. ASSUME NEW d \in ExistingPeer(i) \cup ExistingBroadcaster(i)
      PROVE  d \in Conn /\ Live(d) /\ id[d] = i
  BY <1>1, NoneAssumption DEF Registry, TypeOK, Map, MapsSound, ExistingPeer,
     ExistingBroadcaster, Live
<1>2. ASSUME NEW d \in Conn, Live(d), id[d] = i
      PROVE  d \in ExistingPeer(i) \cup ExistingBroadcaster(i)
  <2>1. class[d] \in {"Peer", "BroadcasterPeer"}
    BY <1>2 DEF Registry, TypeOK, Live
  <2>2. ASSUME class[d] = "Peer", d \notin joined PROVE peers[i] = None
    <3>1. joiningPeers[i] = d
      BY <1>2, <2>2 DEF Registry, EveryLiveObjectRegistered
    <3>2. ASSUME peers[i] # None PROVE FALSE
      <4>1. peers[i] \in Conn
        BY <3>2 DEF Registry, TypeOK, Map
      <4>2. Live(peers[i]) /\ id[peers[i]] = i /\ peers[i] \in joined
        BY <4>1 DEF Registry, MapsSound, Live
      <4>3. peers[i] = d
        BY <1>2, <4>1, <4>2 DEF Registry, OneLiveObjectPerId
      <4> QED BY <2>2, <4>2, <4>3
    <3> QED BY <3>2
  <2>3. ASSUME class[d] = "BroadcasterPeer", d \notin joined
        PROVE  broadcasterPeers[i] = None
    <3>1. joiningBroadcasterPeers[i] = d
      BY <1>2, <2>3 DEF Registry, EveryLiveObjectRegistered
    <3>2. ASSUME broadcasterPeers[i] # None PROVE FALSE
      <4>1. broadcasterPeers[i] \in Conn
        BY <3>2 DEF Registry, TypeOK, Map
      <4>2. /\ Live(broadcasterPeers[i]) /\ id[broadcasterPeers[i]] = i
            /\ broadcasterPeers[i] \in joined
        BY <4>1 DEF Registry, MapsSound, Live
      <4>3. broadcasterPeers[i] = d
        BY <1>2, <4>1, <4>2 DEF Registry, OneLiveObjectPerId
      <4> QED BY <2>3, <4>2, <4>3
    <3> QED BY <3>2
  <2> QED
    BY <1>2, <2>1, <2>2, <2>3, NoneAssumption
    DEF Registry, EveryLiveObjectRegistered, ExistingPeer, ExistingBroadcaster
<1> QED BY <1>1, <1>2

-----------------------------------------------------------------------------
(* Type correctness.                                                       *)

LEMMA TypeCloses ==
  ASSUME TypeOK, NEW c \in Conn, Live(c), class[c] # "unborn",
         ClosePeer(c) \/ CloseBroadcaster(c),
         EmitDisconnected(c) \/ LeaveQuietly(c)
  PROVE  TypeOK'
<1>1. transports' \in [Conn -> SUBSET Transport]
  BY DEF TypeOK, ClosePeer, CloseBroadcaster, CloseTransports
<1>2. roster' \in [Conn -> SUBSET PeerId]
  BY DEF TypeOK, EmitDisconnected, LeaveQuietly, ForgetInRosters
<1>3. /\ peers' \in Map /\ joiningPeers' \in Map
      /\ broadcasterPeers' \in Map /\ joiningBroadcasterPeers' \in Map
  BY DEF TypeOK, ClosePeer, CloseBroadcaster, Map, Delete
<1>4. closeCheck' \in BOOLEAN
  BY DEF TypeOK, ClosePeer, CloseBroadcaster, MayClose
<1>5. emitted' \subseteq Conn /\ silent' \subseteq PeerId
  BY DEF TypeOK, EmitDisconnected, LeaveQuietly
<1>6. /\ closed' \subseteq Conn
      /\ UNCHANGED <<class, id, joined, creating, roomClosed, everUsed>>
  BY DEF TypeOK, ClosePeer, CloseBroadcaster
<1> QED BY <1>1, <1>2, <1>3, <1>4, <1>5, <1>6 DEF TypeOK, Map

LEMMA TypeArrival ==
  ASSUME TypeOK, NEW c \in Conn, NEW i \in PeerId,
         ProcessWsConnection(c, i) \/ CreateBroadcasterPeer(c, i)
  PROVE  TypeOK'
<1>1. ExistingPeer(i) \cup ExistingBroadcaster(i) \subseteq Conn
  BY DEF TypeOK, Map, ExistingPeer, ExistingBroadcaster
<1>2. PICK k \in {"Peer", "BroadcasterPeer"} : Replace(i, c, k)
  BY DEF ProcessWsConnection, CreateBroadcasterPeer
<1>3. /\ class' \in [Conn -> {"unborn", "Peer", "BroadcasterPeer"}]
      /\ id' \in [Conn -> PeerId \cup {None}]
      /\ peers' \in Map /\ broadcasterPeers' \in Map
      /\ UNCHANGED <<joined, creating, roomClosed, emitted>>
  BY <1>2 DEF Replace, TypeOK, Map, Delete
<1>6. /\ closed' \subseteq Conn
      /\ transports' \in [Conn -> SUBSET Transport]
  BY <1>1, <1>2 DEF Replace, TypeOK, CloseTransports
<1>7. closeCheck' \in BOOLEAN
  BY <1>2 DEF Replace, TypeOK, MayClose
<1>8. silent' \subseteq PeerId
  BY <1>2 DEF Replace, TypeOK
<1>4. roster' \in [Conn -> SUBSET PeerId]
  BY <1>2 DEF Replace, TypeOK, ForgetInRosters
<1>5. /\ joiningPeers' \in Map /\ joiningBroadcasterPeers' \in Map
      /\ everUsed' \in BOOLEAN
  BY DEF ProcessWsConnection, CreateBroadcasterPeer, TypeOK, Map, Delete
<1> QED BY <1>3, <1>4, <1>5, <1>6, <1>7, <1>8 DEF TypeOK, Map

LEMMA TypeJoins ==
  ASSUME TypeOK, ObjectsSound, MapsSound, NEW c \in Conn,
         Join(c) \/ JoinBroadcaster(c), id[c] \in PeerId
  PROVE  TypeOK'
<1>1. ASSUME NEW S \in SUBSET Conn, NEW C \in SUBSET Conn, NEW L \in SUBSET PeerId,
             TellJoined(id[c], S, C, L)
      PROVE  roster' \in [Conn -> SUBSET PeerId]
  BY <1>1 DEF TypeOK, TellJoined
<1>2. CASE Join(c)
  <2>1. peers' \in Map /\ joiningPeers' \in Map
    BY <1>2 DEF Join, TypeOK, Map, Delete
  <2>2. OtherPeers(peers', c) \subseteq Conn
    BY <2>1 DEF OtherPeers, Values, Map
  <2>3. {id[d] : d \in OtherPeers(peers', c) \cup Values(broadcasterPeers)}
          \subseteq PeerId
    <3>1. ASSUME NEW d \in OtherPeers(peers', c) PROVE id[d] \in PeerId
      <4>1. PICK i \in PeerId : d = peers'[i] /\ d # c /\ d # None
        BY <3>1 DEF OtherPeers, Values
      <4>2. d = peers[i]
        BY <1>2, <4>1 DEF Join, TypeOK, Map
      <4> QED BY <2>2, <3>1, <4>2 DEF MapsSound
    <3>2. ASSUME NEW d \in Values(broadcasterPeers) PROVE id[d] \in PeerId
      BY <3>2 DEF Values, MapsSound, TypeOK, Map
    <3> QED BY <3>1, <3>2
  <2>4. roster' \in [Conn -> SUBSET PeerId]
    BY <1>1, <1>2, <2>2, <2>3 DEF Join
  <2> QED BY <1>2, <2>1, <2>4 DEF Join, TypeOK, Map
<1>3. CASE JoinBroadcaster(c)
  <2>1. Values(peers) \subseteq Conn
    BY DEF TypeOK, Map, Values
  <2>2. roster' \in [Conn -> SUBSET PeerId]
    BY <1>1, <1>3, <2>1 DEF JoinBroadcaster
  <2>3. broadcasterPeers' \in Map /\ joiningBroadcasterPeers' \in Map
    BY <1>3 DEF JoinBroadcaster, TypeOK, Map, Delete
  <2> QED BY <1>3, <2>2, <2>3 DEF JoinBroadcaster, TypeOK, Map
<1> QED BY <1>2, <1>3

LEMMA RegisteredAreObjects == TypeOK => Registered \subseteq Conn
  BY DEF TypeOK, Map, Registered, Values

LEMMA TypeCloseRoom ==
  ASSUME TypeOK, CloseRoom, closeCheck' \in BOOLEAN
  PROVE  TypeOK'
  BY RegisteredAreObjects, NoneAssumption DEF CloseRoom, TypeOK, Map

-----------------------------------------------------------------------------
(* The agreement of the Maps and the objects, action by action.            *)

Agreement ==
  /\ ObjectsSound /\ MapsSound /\ EveryLiveObjectRegistered
  /\ OneLiveObjectPerId /\ NoOneInClosedRoom

\* Deleting by peerId deletes the entry of the closing object and no other.
LEMMA ClosePeerAgreement ==
  ASSUME Registry, NEW c \in Conn, class[c] = "Peer", Live(c), ClosePeer(c)
  PROVE  Agreement'
<1>1. /\ closed' = closed \cup {c}
      /\ UNCHANGED <<class, id, joined, joiningBroadcasterPeers, broadcasterPeers,
                     roomClosed>>
      /\ id[c] \in PeerId
  BY DEF ClosePeer, Registry, ObjectsSound, Live
<1>2. \A i \in PeerId : peers'[i] = IF i = id[c] THEN None ELSE peers[i]
  BY DEF ClosePeer, Delete, Registry, TypeOK, Map
<1>3. \A i \in PeerId : joiningPeers'[i] = IF i = id[c] THEN None ELSE joiningPeers[i]
  BY DEF ClosePeer, Delete, Registry, TypeOK, Map
<1>4. \A d \in Conn : Live(d)' => Live(d) /\ d # c /\ id[d] # id[c]
  BY <1>1 DEF Registry, OneLiveObjectPerId, Live
<1>5. ObjectsSound' /\ OneLiveObjectPerId' /\ NoOneInClosedRoom'
  BY <1>1, <1>4 DEF Registry, ObjectsSound, OneLiveObjectPerId, NoOneInClosedRoom,
     Live
<1>6. MapsSound'
  <2> SUFFICES ASSUME NEW i \in PeerId, NEW d \in Conn
      PROVE /\ peers'[i] = d =>
                class[d] = "Peer" /\ d \notin closed' /\ d \in joined /\ id[d] = i
            /\ joiningPeers'[i] = d =>
                class[d] = "Peer" /\ d \notin closed' /\ d \notin joined /\ id[d] = i
            /\ broadcasterPeers[i] = d =>
                /\ class[d] = "BroadcasterPeer" /\ d \notin closed'
                /\ d \in joined /\ id[d] = i
            /\ joiningBroadcasterPeers[i] = d =>
                /\ class[d] = "BroadcasterPeer" /\ d \notin closed'
                /\ d \notin joined /\ id[d] = i
    BY <1>1 DEF MapsSound
  <2> QED BY <1>1, <1>2, <1>3, NoneAssumption DEF Registry, MapsSound
<1>7. EveryLiveObjectRegistered'
  <2> SUFFICES ASSUME NEW d \in Conn, Live(d)'
      PROVE IF class[d] = "Peer"
            THEN IF d \in joined THEN peers'[id[d]] = d ELSE joiningPeers'[id[d]] = d
            ELSE IF d \in joined THEN broadcasterPeers[id[d]] = d
                                 ELSE joiningBroadcasterPeers[id[d]] = d
    BY <1>1 DEF EveryLiveObjectRegistered
  <2>1. Live(d) /\ id[d] \in PeerId /\ id[d] # id[c]
    BY <1>4 DEF Registry, ObjectsSound, Live
  <2> QED BY <2>1, <1>2, <1>3 DEF Registry, EveryLiveObjectRegistered
<1> QED BY <1>5, <1>6, <1>7 DEF Agreement
LEMMA CloseBroadcasterAgreement ==
  ASSUME Registry, NEW c \in Conn, class[c] = "BroadcasterPeer", Live(c),
         CloseBroadcaster(c)
  PROVE  Agreement'
<1>1. /\ closed' = closed \cup {c}
      /\ UNCHANGED <<class, id, joined, joiningPeers, peers,
                     roomClosed>>
      /\ id[c] \in PeerId
  BY DEF CloseBroadcaster, Registry, ObjectsSound, Live
<1>2. \A i \in PeerId :
         broadcasterPeers'[i] = IF i = id[c] THEN None ELSE broadcasterPeers[i]
  BY DEF CloseBroadcaster, Delete, Registry, TypeOK, Map
<1>3. \A i \in PeerId :
         joiningBroadcasterPeers'[i] = IF i = id[c] THEN None
                                       ELSE joiningBroadcasterPeers[i]
  BY DEF CloseBroadcaster, Delete, Registry, TypeOK, Map
<1>4. \A d \in Conn : Live(d)' => Live(d) /\ d # c /\ id[d] # id[c]
  BY <1>1 DEF Registry, OneLiveObjectPerId, Live
<1>5. ObjectsSound' /\ OneLiveObjectPerId' /\ NoOneInClosedRoom'
  BY <1>1, <1>4 DEF Registry, ObjectsSound, OneLiveObjectPerId, NoOneInClosedRoom,
     Live
<1>6. MapsSound'
  <2> SUFFICES ASSUME NEW i \in PeerId, NEW d \in Conn
      PROVE /\ peers[i] = d =>
                class[d] = "Peer" /\ d \notin closed' /\ d \in joined /\ id[d] = i
            /\ joiningPeers[i] = d =>
                class[d] = "Peer" /\ d \notin closed' /\ d \notin joined /\ id[d] = i
            /\ broadcasterPeers'[i] = d =>
                /\ class[d] = "BroadcasterPeer" /\ d \notin closed'
                /\ d \in joined /\ id[d] = i
            /\ joiningBroadcasterPeers'[i] = d =>
                /\ class[d] = "BroadcasterPeer" /\ d \notin closed'
                /\ d \notin joined /\ id[d] = i
    BY <1>1 DEF MapsSound
  <2> QED BY <1>1, <1>2, <1>3, NoneAssumption DEF Registry, MapsSound
<1>7. EveryLiveObjectRegistered'
  <2> SUFFICES ASSUME NEW d \in Conn, Live(d)'
      PROVE IF class[d] = "Peer"
            THEN IF d \in joined THEN peers[id[d]] = d ELSE joiningPeers[id[d]] = d
            ELSE IF d \in joined THEN broadcasterPeers'[id[d]] = d
                                 ELSE joiningBroadcasterPeers'[id[d]] = d
    BY <1>1 DEF EveryLiveObjectRegistered
  <2>1. Live(d) /\ id[d] \in PeerId /\ id[d] # id[c]
    BY <1>4 DEF Registry, ObjectsSound, Live
  <2> QED BY <2>1, <1>2, <1>3 DEF Registry, EveryLiveObjectRegistered
<1> QED BY <1>5, <1>6, <1>7 DEF Agreement

\* The new object takes the peerId over from the only live one that held it.
LEMMA ArrivalAgreement ==
  ASSUME Registry, NEW c \in Conn, NEW i \in PeerId,
         ProcessWsConnection(c, i) \/ CreateBroadcasterPeer(c, i)
  PROVE  Agreement'
<1> DEFINE old == {d \in Conn : Live(d) /\ id[d] = i}
           byWs == ProcessWsConnection(c, i)
           k == IF byWs THEN "Peer" ELSE "BroadcasterPeer"
<1>0. Replace(i, c, k)
  BY DEF ProcessWsConnection, CreateBroadcasterPeer
<1>1. /\ ~roomClosed /\ class[c] = "unborn"
      /\ class' = [class EXCEPT ![c] = k]
      /\ id' = [id EXCEPT ![c] = i]
      /\ closed' = closed \cup old
      /\ UNCHANGED <<joined, roomClosed>>
  BY <1>0, ReplacedIsTheHolder DEF Replace
<1>2. \A j \in PeerId :
        /\ peers'[j] = IF j = i THEN None ELSE peers[j]
        /\ broadcasterPeers'[j] = IF j = i THEN None ELSE broadcasterPeers[j]
  BY <1>0 DEF Replace, Delete, Registry, TypeOK, Map
<1>3. \A j \in PeerId :
        /\ joiningPeers'[j] =
             IF j # i THEN joiningPeers[j] ELSE IF byWs THEN c ELSE None
        /\ joiningBroadcasterPeers'[j] =
             IF j # i THEN joiningBroadcasterPeers[j] ELSE IF byWs THEN None ELSE c
  <2>1. CASE byWs
    BY <2>1 DEF ProcessWsConnection, Delete, Registry, TypeOK, Map
  <2>2. CASE ~byWs
    BY <2>2 DEF CreateBroadcasterPeer, Delete, Registry, TypeOK, Map
  <2> QED BY <2>1, <2>2
<1> HIDE DEF k, byWs
<1>k. k = IF byWs THEN "Peer" ELSE "BroadcasterPeer"
  BY DEF k
<1>4. c \notin closed /\ c \notin joined /\ c \notin old
  BY <1>1 DEF Registry, ObjectsSound, Live
<1>5. \A d \in Conn \ {c} :
        /\ class'[d] = class[d] /\ id'[d] = id[d]
        /\ Live(d)' <=> Live(d) /\ id[d] # i
  BY <1>1 DEF Registry, TypeOK, Live
<1>6. class'[c] = k /\ id'[c] = i /\ Live(c)'
  BY <1>1, <1>4, <1>k DEF Registry, TypeOK, Live
<1>7. ObjectsSound'
  BY <1>1, <1>4, <1>5, <1>6, <1>k DEF Registry, ObjectsSound, Live
<1>8. OneLiveObjectPerId' /\ NoOneInClosedRoom'
  BY <1>1, <1>5, <1>6 DEF Registry, OneLiveObjectPerId, NoOneInClosedRoom
<1>9. MapsSound'
  <2> SUFFICES ASSUME NEW j \in PeerId, NEW d \in Conn
      PROVE /\ peers'[j] = d =>
                /\ class'[d] = "Peer" /\ d \notin closed'
                /\ d \in joined' /\ id'[d] = j
            /\ joiningPeers'[j] = d =>
                /\ class'[d] = "Peer" /\ d \notin closed'
                /\ d \notin joined' /\ id'[d] = j
            /\ broadcasterPeers'[j] = d =>
                /\ class'[d] = "BroadcasterPeer" /\ d \notin closed'
                /\ d \in joined' /\ id'[d] = j
            /\ joiningBroadcasterPeers'[j] = d =>
                /\ class'[d] = "BroadcasterPeer" /\ d \notin closed'
                /\ d \notin joined' /\ id'[d] = j
    BY DEF MapsSound
  <2>1. CASE j = i
    BY <2>1, <1>1, <1>2, <1>3, <1>4, <1>6, <1>k, NoneAssumption
  <2>2. CASE j # i
    <3>1. /\ peers'[j] = peers[j] /\ joiningPeers'[j] = joiningPeers[j]
          /\ broadcasterPeers'[j] = broadcasterPeers[j]
          /\ joiningBroadcasterPeers'[j] = joiningBroadcasterPeers[j]
      BY <2>2, <1>2, <1>3
    <3>2. ASSUME d \in {peers[j], joiningPeers[j], broadcasterPeers[j],
                        joiningBroadcasterPeers[j]}
          PROVE  d # c /\ d \notin old
      BY <2>2, <3>2, <1>1 DEF Registry, MapsSound
    <3> QED BY <3>1, <3>2, <1>1, <1>5 DEF Registry, MapsSound
  <2> QED BY <2>1, <2>2
<1>10. EveryLiveObjectRegistered'
  <2> SUFFICES ASSUME NEW d \in Conn, Live(d)'
      PROVE IF class'[d] = "Peer"
            THEN IF d \in joined' THEN peers'[id'[d]] = d ELSE joiningPeers'[id'[d]] = d
            ELSE IF d \in joined' THEN broadcasterPeers'[id'[d]] = d
                                 ELSE joiningBroadcasterPeers'[id'[d]] = d
    BY DEF EveryLiveObjectRegistered
  <2>1. CASE d = c
    BY <2>1, <1>1, <1>3, <1>4, <1>6, <1>k
  <2>2. CASE d # c
    <3>1. Live(d) /\ id[d] # i /\ id[d] \in PeerId
      BY <2>2, <1>5 DEF Registry, ObjectsSound, Live
    <3> QED BY <2>2, <3>1, <1>1, <1>2, <1>3, <1>5 DEF Registry, EveryLiveObjectRegistered
  <2> QED BY <2>1, <2>2
<1> QED BY <1>7, <1>8, <1>9, <1>10 DEF Agreement
LEMMA JoinAgreement ==
  ASSUME Registry, NEW c \in Conn, class[c] = "Peer", Live(c), Join(c)
  PROVE  Agreement'
<1>1. /\ c \notin joined /\ joined' = joined \cup {c} /\ id[c] \in PeerId
      /\ UNCHANGED <<class, id, closed, joiningBroadcasterPeers, broadcasterPeers, roomClosed>>
  BY DEF Join, Registry, ObjectsSound, Live
<1>2. \A i \in PeerId :
        /\ peers'[i] = IF i = id[c] THEN c ELSE peers[i]
        /\ joiningPeers'[i] = IF i = id[c] THEN None ELSE joiningPeers[i]
  BY DEF Join, Delete, Registry, TypeOK, Map
<1>3. \A d \in Conn : (Live(d)' <=> Live(d)) /\ (Live(d) /\ d # c => id[d] # id[c])
  BY <1>1 DEF Registry, OneLiveObjectPerId, Live
<1>4. ObjectsSound' /\ OneLiveObjectPerId' /\ NoOneInClosedRoom'
  BY <1>1, <1>3 DEF Registry, ObjectsSound, OneLiveObjectPerId, NoOneInClosedRoom, Live
<1>5. MapsSound'
  <2> SUFFICES ASSUME NEW i \in PeerId, NEW d \in Conn
      PROVE /\ peers'[i] = d =>
                class[d] = "Peer" /\ d \notin closed /\ d \in joined' /\ id[d] = i
            /\ joiningPeers'[i] = d =>
                class[d] = "Peer" /\ d \notin closed /\ d \notin joined' /\ id[d] = i
            /\ broadcasterPeers'[i] = d =>
                /\ class[d] = "BroadcasterPeer" /\ d \notin closed
                /\ d \in joined' /\ id[d] = i
            /\ joiningBroadcasterPeers'[i] = d =>
                /\ class[d] = "BroadcasterPeer" /\ d \notin closed
                /\ d \notin joined' /\ id[d] = i
    BY <1>1 DEF MapsSound
  <2> QED BY <1>1, <1>2, NoneAssumption DEF Registry, MapsSound, Live
<1>6. EveryLiveObjectRegistered'
  <2> SUFFICES ASSUME NEW d \in Conn, Live(d)'
      PROVE IF class[d] = "Peer"
            THEN IF d \in joined' THEN peers'[id[d]] = d ELSE joiningPeers'[id[d]] = d
            ELSE IF d \in joined' THEN broadcasterPeers'[id[d]] = d
                                  ELSE joiningBroadcasterPeers'[id[d]] = d
    BY <1>1 DEF EveryLiveObjectRegistered
  <2>1. Live(d) /\ id[d] \in PeerId
    BY <1>3 DEF Registry, ObjectsSound, Live
  <2> QED BY <2>1, <1>1, <1>2, <1>3 DEF Registry, EveryLiveObjectRegistered
<1> QED BY <1>4, <1>5, <1>6 DEF Agreement

LEMMA JoinBroadcasterAgreement ==
  ASSUME Registry, NEW c \in Conn, class[c] = "BroadcasterPeer", Live(c), JoinBroadcaster(c)
  PROVE  Agreement'
<1>1. /\ c \notin joined /\ joined' = joined \cup {c} /\ id[c] \in PeerId
      /\ UNCHANGED <<class, id, closed, joiningPeers, peers, roomClosed>>
  BY DEF JoinBroadcaster, Registry, ObjectsSound, Live
<1>2. \A i \in PeerId :
        /\ broadcasterPeers'[i] = IF i = id[c] THEN c ELSE broadcasterPeers[i]
        /\ joiningBroadcasterPeers'[i] = IF i = id[c] THEN None ELSE joiningBroadcasterPeers[i]
  BY DEF JoinBroadcaster, Delete, Registry, TypeOK, Map
<1>3. \A d \in Conn : (Live(d)' <=> Live(d)) /\ (Live(d) /\ d # c => id[d] # id[c])
  BY <1>1 DEF Registry, OneLiveObjectPerId, Live
<1>4. ObjectsSound' /\ OneLiveObjectPerId' /\ NoOneInClosedRoom'
  BY <1>1, <1>3 DEF Registry, ObjectsSound, OneLiveObjectPerId, NoOneInClosedRoom, Live
<1>5. MapsSound'
  <2> SUFFICES ASSUME NEW i \in PeerId, NEW d \in Conn
      PROVE /\ peers'[i] = d =>
                class[d] = "Peer" /\ d \notin closed /\ d \in joined' /\ id[d] = i
            /\ joiningPeers'[i] = d =>
                class[d] = "Peer" /\ d \notin closed /\ d \notin joined' /\ id[d] = i
            /\ broadcasterPeers'[i] = d =>
                /\ class[d] = "BroadcasterPeer" /\ d \notin closed
                /\ d \in joined' /\ id[d] = i
            /\ joiningBroadcasterPeers'[i] = d =>
                /\ class[d] = "BroadcasterPeer" /\ d \notin closed
                /\ d \notin joined' /\ id[d] = i
    BY <1>1 DEF MapsSound
  <2> QED BY <1>1, <1>2, NoneAssumption DEF Registry, MapsSound, Live
<1>6. EveryLiveObjectRegistered'
  <2> SUFFICES ASSUME NEW d \in Conn, Live(d)'
      PROVE IF class[d] = "Peer"
            THEN IF d \in joined' THEN peers'[id[d]] = d ELSE joiningPeers'[id[d]] = d
            ELSE IF d \in joined' THEN broadcasterPeers'[id[d]] = d
                                  ELSE joiningBroadcasterPeers'[id[d]] = d
    BY <1>1 DEF EveryLiveObjectRegistered
  <2>1. Live(d) /\ id[d] \in PeerId
    BY <1>3 DEF Registry, ObjectsSound, Live
  <2> QED BY <2>1, <1>1, <1>2, <1>3 DEF Registry, EveryLiveObjectRegistered
<1> QED BY <1>4, <1>5, <1>6 DEF Agreement

\* Room.close() finds every live object in one of the Maps.
LEMMA LiveAreRegistered ==
  ASSUME Registry, NEW c \in Conn, Live(c)
  PROVE  c \in Registered
<1>1. id[c] \in PeerId
  BY DEF Registry, ObjectsSound, Live
<1>2. c \in {peers[id[c]], joiningPeers[id[c]], broadcasterPeers[id[c]],
             joiningBroadcasterPeers[id[c]]}
  BY DEF Registry, EveryLiveObjectRegistered
<1> QED BY <1>1, <1>2, NoneAssumption DEF Registered, Values

LEMMA CloseRoomAgreement ==
  ASSUME Registry, CloseRoom
  PROVE  Agreement'
<1>1. /\ closed' = closed \cup Registered
      /\ UNCHANGED <<class, id, joined>>
      /\ \A i \in PeerId : /\ peers'[i] = None /\ joiningPeers'[i] = None
                           /\ broadcasterPeers'[i] = None
                           /\ joiningBroadcasterPeers'[i] = None
  BY DEF CloseRoom
<1>2. \A c \in Conn : ~Live(c)'
  BY <1>1, LiveAreRegistered DEF Live
<1>3. \A c \in Registered : class[c] # "unborn"
  BY DEF Registered, Values, Registry, MapsSound, TypeOK, Map
<1>4. ObjectsSound'
  BY <1>1, <1>3 DEF Registry, ObjectsSound
<1>5. MapsSound'
  BY <1>1, NoneAssumption DEF MapsSound
<1> QED BY <1>2, <1>4, <1>5 DEF Agreement, EveryLiveObjectRegistered,
        OneLiveObjectPerId, NoOneInClosedRoom

LEMMA SameAgreement ==
  ASSUME Registry, UNCHANGED <<objects, maps, roomClosed>>
  PROVE  Agreement'
  BY DEF objects, maps, Registry, Agreement, ObjectsSound, MapsSound,
     EveryLiveObjectRegistered, OneLiveObjectPerId, NoOneInClosedRoom, Live

-----------------------------------------------------------------------------

LEMMA ReachedBroadcasterIsLive ==
  ASSUME Registry, NEW c \in Conn, class[c] = "BroadcasterPeer",
         GetBroadcasterPeer(id[c]) = c
  PROVE  Live(c)
<1>1. id[c] \in PeerId
  BY DEF Registry, ObjectsSound
<1> QED BY <1>1 DEF Registry, MapsSound, GetBroadcasterPeer, Live

LEMMA NextRegistry == Registry /\ [Next]_vars => Registry'
<1> SUFFICES ASSUME Registry, [Next]_vars PROVE TypeOK' /\ Agreement'
  BY DEF Registry, Agreement
<1>t. TypeOK /\ ObjectsSound /\ MapsSound
  BY DEF Registry
<1>1. ASSUME NEW c \in Conn, NEW i \in PeerId,
             ProcessWsConnection(c, i) \/ CreateBroadcasterPeer(c, i)
      PROVE  TypeOK' /\ Agreement'
  BY <1>1, <1>t, TypeArrival, ArrivalAgreement
<1>2. ASSUME NEW c \in Conn, Join(c) PROVE TypeOK' /\ Agreement'
  BY <1>2, <1>t, TypeJoins, JoinAgreement DEF Join, ObjectsSound, Live
<1>3. ASSUME NEW c \in Conn, JoinBroadcaster(c) PROVE TypeOK' /\ Agreement'
  BY <1>3, <1>t, TypeJoins, JoinBroadcasterAgreement, ReachedBroadcasterIsLive
  DEF JoinBroadcaster, ObjectsSound
<1>4. ASSUME NEW c \in Conn, class[c] = "Peer", Live(c), ClosePeer(c),
             EmitDisconnected(c) \/ LeaveQuietly(c)
      PROVE  TypeOK' /\ Agreement'
  BY <1>4, <1>t, TypeCloses, ClosePeerAgreement
<1>5. ASSUME NEW c \in Conn, ProtooClose(c) \/ JoinTimeout(c)
      PROVE  TypeOK' /\ Agreement'
  BY <1>4, <1>5 DEF ProtooClose, GoneWebSocket, JoinTimeout
<1>6. ASSUME NEW c \in Conn, NEW t \in Transport, TransportFail(c, t)
      PROVE  TypeOK' /\ Agreement'
  BY <1>4, <1>6 DEF TransportFail
<1>7. ASSUME NEW c \in Conn, DisconnectBroadcaster(c) PROVE TypeOK' /\ Agreement'
  <2>1. Live(c) /\ class[c] = "BroadcasterPeer" /\ CloseBroadcaster(c)
        /\ (EmitDisconnected(c) \/ LeaveQuietly(c))
    BY <1>7, ReachedBroadcasterIsLive DEF DisconnectBroadcaster
  <2> QED BY <2>1, <1>t, TypeCloses, CloseBroadcasterAgreement
<1>8. ASSUME NEW c \in Conn, NEW t \in Transport,
             RequestTransport(c, t) \/ TransportSettled(c, t)
      PROVE  TypeOK' /\ Agreement'
  <2>1. UNCHANGED <<objects, maps, roomClosed, closeCheck, roster, history>>
    BY <1>8 DEF RequestTransport, TransportSettled
  <2>2. creating' \in [Conn -> SUBSET Transport] /\ transports' \in [Conn -> SUBSET Transport]
    BY <1>8, <1>t DEF RequestTransport, TransportSettled, TypeOK
  <2> QED BY <2>1, <2>2, <1>t, SameAgreement DEF TypeOK, Map, objects, maps, history
<1>9. ASSUME Shutdown PROVE TypeOK' /\ Agreement'
  BY <1>9, <1>t, TypeCloseRoom, CloseRoomAgreement DEF Shutdown, MayClose, TypeOK
<1>10. ASSUME CloseCheck PROVE TypeOK' /\ Agreement'
  <2>1. CASE CloseRoom
    BY <1>10, <2>1, <1>t, TypeCloseRoom, CloseRoomAgreement DEF CloseCheck
  <2>2. CASE UNCHANGED <<objects, maps, creating, transports, roomClosed, roster, history>>
    BY <1>10, <2>2, <1>t, SameAgreement DEF CloseCheck, TypeOK, Map, objects, maps, history
  <2> QED BY <1>10, <2>1, <2>2 DEF CloseCheck
<1>11. ASSUME UNCHANGED vars PROVE TypeOK' /\ Agreement'
  BY <1>11, <1>t, SameAgreement DEF vars, TypeOK, Map, objects, maps, history
<1> QED
  BY <1>1, <1>2, <1>3, <1>5, <1>6, <1>7, <1>8, <1>9, <1>10, <1>11 DEF Next

\* In every reachable state the Maps and the objects agree.
THEOREM RegistryHolds == Spec => []Registry
  BY InitRegistry, NextRegistry, PTL DEF Spec

\* Every state is well typed.
THEOREM TypeCorrect == Spec => []TypeOK
  BY RegistryHolds, PTL DEF Registry

\* At most one live object per peerId, however connections, API requests,
\* timers, transport failures and closures interleave.
THEOREM OneObjectPerPeerId == Spec => []OneLiveObjectPerId
  BY RegistryHolds, PTL DEF Registry

\* No live object is ever out of reach of the Room that owns it.
THEOREM NoObjectLost == Spec => []EveryLiveObjectRegistered
  BY RegistryHolds, PTL DEF Registry

\* Nobody is ever left in, or enters, a closed Room: the Maps hold every live
\* object, so its closure reaches them all, and a turn that empties the Room
\* does not close it before it has registered the object that comes.
THEOREM ClosedRoomIsEmpty == Spec => []NoOneInClosedRoom
  BY RegistryHolds, PTL DEF Registry

-----------------------------------------------------------------------------
(* What the Peers were told.                                               *)

Rosters == RosterComplete /\ StaleOnlyIfReplaced

\* Nothing but c itself is registered under the peerId of a live c.
LEMMA HolderIsUnique ==
  ASSUME Registry, NEW c \in Conn, Live(c)
  PROVE  /\ id[c] \in PeerId
         /\ {peers[id[c]], joiningPeers[id[c]], broadcasterPeers[id[c]],
             joiningBroadcasterPeers[id[c]]} \subseteq {c, None}
         /\ id[c] \in JoinedIds <=> c \in joined
<1>1. id[c] \in PeerId
  BY DEF Registry, ObjectsSound, Live
<1>2. ASSUME NEW d \in Conn, d \in {peers[id[c]], joiningPeers[id[c]],
               broadcasterPeers[id[c]], joiningBroadcasterPeers[id[c]]}
      PROVE  d = c
  <2>1. Live(d) /\ id[d] = id[c]
    BY <1>1, <1>2 DEF Registry, MapsSound, Live
  <2> QED BY <2>1 DEF Registry, OneLiveObjectPerId
<1>3. {peers[id[c]], joiningPeers[id[c]], broadcasterPeers[id[c]],
       joiningBroadcasterPeers[id[c]]} \subseteq {c, None}
  BY <1>1, <1>2 DEF Registry, TypeOK, Map
<1>4. id[c] \in JoinedIds <=> c \in joined
  BY <1>1, <1>3, NoneAssumption
  DEF JoinedIds, Registry, MapsSound, EveryLiveObjectRegistered
<1> QED BY <1>1, <1>3, <1>4

LEMMA LeaveRosters ==
  ASSUME Registry, Rosters, NEW c \in Conn, Live(c),
         \/ class[c] = "Peer" /\ ClosePeer(c)
         \/ class[c] = "BroadcasterPeer" /\ CloseBroadcaster(c),
         EmitDisconnected(c) \/ (c \notin joined /\ LeaveQuietly(c))
  PROVE  Rosters'
<1>1. /\ id[c] \in PeerId /\ id' = id
      /\ {peers[id[c]], joiningPeers[id[c]], broadcasterPeers[id[c]],
          joiningBroadcasterPeers[id[c]]} \subseteq {c, None}
  BY HolderIsUnique DEF ClosePeer, CloseBroadcaster
<1>2. \A i \in PeerId :
        /\ peers'[i] = IF i = id[c] THEN None ELSE peers[i]
        /\ broadcasterPeers'[i] = IF i = id[c] THEN None ELSE broadcasterPeers[i]
  <2>1. CASE class[c] = "Peer" /\ ClosePeer(c)
    <3>1. broadcasterPeers[id[c]] = None /\ broadcasterPeers' = broadcasterPeers
      BY <2>1, <1>1 DEF ClosePeer, Registry, MapsSound
    <3> QED BY <2>1, <3>1 DEF ClosePeer, Delete, Registry, TypeOK, Map
  <2>2. CASE class[c] = "BroadcasterPeer" /\ CloseBroadcaster(c)
    <3>1. peers[id[c]] = None /\ peers' = peers
      BY <2>2, <1>1 DEF CloseBroadcaster, Registry, MapsSound
    <3> QED BY <2>2, <3>1 DEF CloseBroadcaster, Delete, Registry, TypeOK, Map
  <2> QED BY <2>1, <2>2
<1>3. JoinedIds' = JoinedIds \ {id[c]}
  BY <1>1, <1>2 DEF JoinedIds
<1>4. ASSUME NEW d \in Values(peers)'
      PROVE  d \in Values(peers) /\ d # c /\ d \in Conn
  <2>1. PICK i \in PeerId : d = peers'[i] /\ d # None
    BY DEF Values
  <2>2. i # id[c] /\ d = peers[i] /\ d \in Conn
    BY <2>1, <1>2 DEF Registry, TypeOK, Map
  <2>3. d # c
    BY <2>1, <2>2 DEF Registry, MapsSound
  <2> QED BY <2>1, <2>2, <2>3 DEF Values
<1>5. CASE EmitDisconnected(c)
  <2>1. \A d \in Values(peers)' : roster'[d] = roster[d] \ {id[c]}
    BY <1>4, <1>5 DEF EmitDisconnected, ForgetInRosters, OtherPeers, Values
  <2>2. silent' = silent \ {id[c]}
    BY <1>5 DEF EmitDisconnected
  <2> QED BY <1>1, <1>3, <1>4, <2>1, <2>2 DEF Rosters, RosterComplete, StaleOnlyIfReplaced
<1>6. CASE c \notin joined /\ LeaveQuietly(c)
  <2>1. \A d \in Values(peers)' : roster'[d] = roster[d]
    BY <1>4, <1>6 DEF LeaveQuietly, ForgetInRosters
  <2>2. silent' = silent /\ JoinedIds' = JoinedIds
    BY <1>3, <1>6, HolderIsUnique DEF LeaveQuietly
  <2> QED BY <1>1, <1>4, <2>1, <2>2 DEF Rosters, RosterComplete, StaleOnlyIfReplaced
<1> QED BY <1>5, <1>6

LEMMA ArrivalRosters ==
  ASSUME Registry, Rosters, NEW c \in Conn, NEW i \in PeerId,
         ProcessWsConnection(c, i) \/ CreateBroadcasterPeer(c, i)
  PROVE  Rosters'
<1>1. PICK k : Replace(i, c, k)
  BY DEF ProcessWsConnection, CreateBroadcasterPeer
<1>2. \A j \in PeerId :
        /\ peers'[j] = IF j = i THEN None ELSE peers[j]
        /\ broadcasterPeers'[j] = IF j = i THEN None ELSE broadcasterPeers[j]
  BY <1>1 DEF Replace, Delete, Registry, TypeOK, Map
<1>3. JoinedIds' = JoinedIds \ {i}
  BY <1>2 DEF JoinedIds
<1>4. ASSUME NEW d \in Values(peers)'
      PROVE  d \in Values(peers) /\ d \in Conn /\ id'[d] = id[d] /\ roster'[d] = roster[d]
  <2>1. PICK j \in PeerId : d = peers'[j] /\ d # None
    BY DEF Values
  <2>2. j # i /\ d = peers[j] /\ d \in Conn
    BY <2>1, <1>2 DEF Registry, TypeOK, Map
  <2>3. id[d] = j /\ class[d] = "Peer"
    BY <2>2, <2>1 DEF Registry, MapsSound
  <2>4. d \notin ExistingPeer(i) \cup ExistingBroadcaster(i)
    BY <2>2, <2>3, ReplacedIsTheHolder
  <2>5. d # c /\ id' = [id EXCEPT ![c] = i]
    BY <2>3, <1>1 DEF Replace
  <2>6. roster'[d] = roster[d]
    BY <2>2, <2>4, <1>1 DEF Replace, ForgetInRosters
  <2> QED BY <2>1, <2>2, <2>5, <2>6 DEF Values, Registry, TypeOK
<1>5. silent' = silent \cup {j \in {i} : i \in JoinedIds}
  BY <1>1 DEF Replace
<1> QED BY <1>3, <1>4, <1>5 DEF Rosters, RosterComplete, StaleOnlyIfReplaced

LEMMA JoinRosters ==
  ASSUME Registry, Rosters, NEW c \in Conn, Join(c)
  PROVE  Rosters'
<1> DEFINE others == OtherPeers(peers', c)
           listed == {id[d] : d \in others \cup Values(broadcasterPeers)}
<1>1. /\ class[c] = "Peer" /\ Live(c) /\ id[c] \in PeerId
      /\ UNCHANGED <<id, broadcasterPeers>>
      /\ TellJoined(id[c], others, {c}, listed)
      /\ silent' = silent \ {id[c]}
  BY DEF Join, Registry, ObjectsSound, Live
<1>2. \A i \in PeerId : peers'[i] = IF i = id[c] THEN c ELSE peers[i]
  BY <1>1 DEF Join, Registry, TypeOK, Map
<1>3. JoinedIds' = JoinedIds \cup {id[c]}
  BY <1>1, <1>2, NoneAssumption DEF JoinedIds
<1>4. ASSUME NEW d \in others
      PROVE  d \in Values(peers) /\ d \in Conn /\ d # c /\ id[d] \in JoinedIds
  <2>1. PICK j \in PeerId : d = peers'[j] /\ d # None /\ d # c
    BY DEF OtherPeers, Values
  <2>2. j # id[c] /\ d = peers[j] /\ d \in Conn
    BY <2>1, <1>2 DEF Registry, TypeOK, Map
  <2>3. id[d] = j
    BY <2>2 DEF Registry, MapsSound
  <2> QED BY <2>1, <2>2, <2>3 DEF Values, JoinedIds
<1>5. listed \subseteq JoinedIds
  <2>1. ASSUME NEW d \in Values(broadcasterPeers) PROVE id[d] \in JoinedIds
    <3>1. PICK j \in PeerId : d = broadcasterPeers[j] /\ d # None
      BY DEF Values
    <3>2. id[d] = j
      BY <3>1 DEF Registry, MapsSound, TypeOK, Map
    <3> QED BY <3>1, <3>2 DEF JoinedIds
  <2> QED BY <2>1, <1>4
<1>6. JoinedIds \ {id[c]} \subseteq listed
  <2> SUFFICES ASSUME NEW j \in JoinedIds, j # id[c] PROVE j \in listed
    OBVIOUS
  <2>1. CASE peers[j] # None
    <3>1. peers[j] \in Conn /\ id[peers[j]] = j /\ peers[j] # c
      BY <2>1 DEF JoinedIds, Registry, TypeOK, Map, MapsSound
    <3>2. peers[j] \in others
      BY <2>1, <3>1, <1>2 DEF JoinedIds, OtherPeers, Values
    <3> QED BY <3>1, <3>2
  <2>2. CASE broadcasterPeers[j] # None
    <3>1. broadcasterPeers[j] \in Conn /\ id[broadcasterPeers[j]] = j
      BY <2>2 DEF JoinedIds, Registry, TypeOK, Map, MapsSound
    <3>2. broadcasterPeers[j] \in Values(broadcasterPeers)
      BY <2>2 DEF JoinedIds, Values
    <3> QED BY <3>1, <3>2
  <2> QED BY <2>1, <2>2 DEF JoinedIds
<1>7. roster'[c] = listed
  BY <1>1 DEF TellJoined
<1>8. \A d \in others : roster'[d] = roster[d] \cup {id[c]}
  BY <1>1, <1>4 DEF TellJoined
<1>9. Values(peers)' = others \cup {c}
  BY <1>1, <1>2, NoneAssumption DEF OtherPeers, Values
<1> QED
  BY <1>1, <1>3, <1>4, <1>5, <1>6, <1>7, <1>8, <1>9
  DEF Rosters, RosterComplete, StaleOnlyIfReplaced

LEMMA JoinBroadcasterRosters ==
  ASSUME Registry, Rosters, NEW c \in Conn, JoinBroadcaster(c)
  PROVE  Rosters'
<1>1. /\ id[c] \in PeerId /\ UNCHANGED <<id, peers>>
      /\ silent' = silent \ {id[c]}
      /\ Values(peers) \subseteq Conn
  BY DEF JoinBroadcaster, Registry, ObjectsSound, TypeOK, Map, Values
<1>2. JoinedIds' = JoinedIds \cup {id[c]}
  BY <1>1, NoneAssumption DEF JoinBroadcaster, JoinedIds, Registry, TypeOK, Map
<1>3. \A d \in Values(peers) : roster'[d] = roster[d] \cup {id[c]}
  BY <1>1 DEF JoinBroadcaster, TellJoined
<1>4. Values(peers)' = Values(peers)
  BY <1>1 DEF Values
<1> QED BY <1>1, <1>2, <1>3, <1>4 DEF Rosters, RosterComplete, StaleOnlyIfReplaced

LEMMA CloseRoomRosters == CloseRoom => Rosters'
  BY DEF CloseRoom, Rosters, RosterComplete, StaleOnlyIfReplaced, Values

LEMMA SameRosters ==
  Rosters /\ UNCHANGED <<objects, maps, roster, silent>> => Rosters'
  BY DEF objects, maps, Rosters, RosterComplete, StaleOnlyIfReplaced, Values, JoinedIds

LEMMA NextRosters == Registry /\ Rosters /\ [Next]_vars => Rosters'
<1> SUFFICES ASSUME Registry, Rosters, [Next]_vars PROVE Rosters'
  OBVIOUS
<1>1. ASSUME NEW c \in Conn, NEW i \in PeerId,
             ProcessWsConnection(c, i) \/ CreateBroadcasterPeer(c, i)
      PROVE  Rosters'
  BY <1>1, ArrivalRosters
<1>2. ASSUME NEW c \in Conn, Join(c) \/ JoinBroadcaster(c) PROVE Rosters'
  BY <1>2, JoinRosters, JoinBroadcasterRosters
<1>3. ASSUME NEW c \in Conn, ProtooClose(c) \/ JoinTimeout(c) PROVE Rosters'
  BY <1>3, LeaveRosters DEF ProtooClose, GoneWebSocket, JoinTimeout
<1>4. ASSUME NEW c \in Conn, NEW t \in Transport, TransportFail(c, t) PROVE Rosters'
  BY <1>4, LeaveRosters DEF TransportFail
<1>5. ASSUME NEW c \in Conn, DisconnectBroadcaster(c) PROVE Rosters'
  BY <1>5, LeaveRosters, ReachedBroadcasterIsLive DEF DisconnectBroadcaster
<1>6. ASSUME NEW c \in Conn, NEW t \in Transport,
             RequestTransport(c, t) \/ TransportSettled(c, t)
      PROVE  Rosters'
  BY <1>6, SameRosters DEF RequestTransport, TransportSettled, history
<1>7. ASSUME Shutdown \/ CloseCheck PROVE Rosters'
  BY <1>7, CloseRoomRosters, SameRosters DEF Shutdown, CloseCheck, history
<1>8. ASSUME UNCHANGED vars PROVE Rosters'
  BY <1>8, SameRosters DEF vars, history
<1> QED BY <1>1, <1>2, <1>3, <1>4, <1>5, <1>6, <1>7, <1>8 DEF Next

LEMMA InitRosters == Init => Rosters
  BY DEF Init, Rosters, RosterComplete, StaleOnlyIfReplaced, Values, JoinedIds

LEMMA RostersHold == Spec => []Rosters
  BY InitRosters, NextRosters, RegistryHolds, PTL DEF Spec

\* Every joined Peer has been told of everyone who is joined, whatever
\* connections with the same peerId came and went before.
THEOREM RostersAreComplete == Spec => []RosterComplete
  BY RostersHold, PTL DEF Rosters

\* The one way to a stale participant: a joined connection was replaced.
THEOREM StaleMeansReplaced == Spec => []StaleOnlyIfReplaced
  BY RostersHold, PTL DEF Rosters

-----------------------------------------------------------------------------
(* The closing check.                                                      *)

LEMMA NextChecked ==
  Registry /\ DesertedRoomIsChecked /\ [Next]_vars => DesertedRoomIsChecked'
<1> SUFFICES ASSUME Registry, DesertedRoomIsChecked, [Next]_vars,
                    everUsed', ~roomClosed', Deserted'
             PROVE  closeCheck'
  BY DEF DesertedRoomIsChecked
<1>1. ASSUME NEW c \in Conn, NEW i \in PeerId, ProcessWsConnection(c, i)
      PROVE  FALSE
  <2>1. joiningPeers'[i] = c
    BY <1>1 DEF ProcessWsConnection, Registry, TypeOK, Map
  <2> QED BY <2>1, NoneAssumption DEF Deserted, Values
<1>2. ASSUME NEW c \in Conn, NEW i \in PeerId, CreateBroadcasterPeer(c, i)
      PROVE  closeCheck'
  <2>1. /\ everUsed /\ ~roomClosed
        /\ closeCheck' = (closeCheck \/ ExistingPeer(i) # {})
    BY <1>2 DEF CreateBroadcasterPeer, Replace, MayClose
  <2>2. CASE Deserted
    BY <2>1, <2>2 DEF DesertedRoomIsChecked
  <2>3. CASE ~Deserted
    <3>1. PICK j \in PeerId : peers[j] # None \/ joiningPeers[j] # None
      BY <2>3 DEF Deserted, Values
    <3>2. peers'[j] = None /\ joiningPeers'[j] = None
      BY DEF Deserted, Values
    <3>3. j = i
      BY <1>2, <3>1, <3>2
      DEF CreateBroadcasterPeer, Replace, Delete, Registry, TypeOK, Map
    <3>4. ExistingPeer(i) # {}
      BY <3>1, <3>3 DEF ExistingPeer
    <3> QED BY <2>1, <3>4
  <2> QED BY <2>2, <2>3
<1>3. ASSUME NEW c \in Conn, Join(c) PROVE FALSE
  <2>1. id[c] \in PeerId
    BY <1>3 DEF Join, Registry, ObjectsSound, Live
  <2>2. peers'[id[c]] = c
    BY <1>3, <2>1 DEF Join, Registry, TypeOK, Map
  <2> QED BY <2>1, <2>2, NoneAssumption DEF Deserted, Values
<1>4. ASSUME NEW c \in Conn, ClosePeer(c) PROVE closeCheck'
  BY <1>4 DEF ClosePeer, MayClose
<1>5. ASSUME UNCHANGED <<peers, joiningPeers, closeCheck, roomClosed, everUsed>>
      PROVE  closeCheck'
  BY <1>5 DEF DesertedRoomIsChecked, Deserted, Values
<1>6. ASSUME NEW c \in Conn, JoinBroadcaster(c) \/ DisconnectBroadcaster(c)
      PROVE  closeCheck'
  BY <1>5, <1>6 DEF JoinBroadcaster, DisconnectBroadcaster, CloseBroadcaster
<1>7. ASSUME NEW c \in Conn, NEW t \in Transport,
             RequestTransport(c, t) \/ TransportSettled(c, t)
      PROVE  closeCheck'
  BY <1>5, <1>7 DEF RequestTransport, TransportSettled, objects, maps, history
<1>8. ASSUME Shutdown PROVE FALSE
  BY <1>8 DEF Shutdown, CloseRoom
<1>9. ASSUME CloseCheck PROVE FALSE
  <2>1. ~CloseRoom
    BY DEF CloseRoom
  <2>2. ~Deserted /\ UNCHANGED maps
    BY <1>9, <2>1 DEF CloseCheck
  <2> QED BY <2>2 DEF maps, Deserted, Values
<1>10. ASSUME UNCHANGED vars PROVE closeCheck'
  BY <1>5, <1>10 DEF vars, maps, history
<1>11. ASSUME NEW c \in Conn, ProtooClose(c) \/ JoinTimeout(c) PROVE closeCheck'
  BY <1>4, <1>11 DEF ProtooClose, GoneWebSocket, JoinTimeout
<1>12. ASSUME NEW c \in Conn, NEW t \in Transport, TransportFail(c, t)
       PROVE  closeCheck'
  BY <1>4, <1>12 DEF TransportFail
<1> QED
  BY <1>1, <1>2, <1>3, <1>6, <1>7, <1>8, <1>9, <1>10, <1>11, <1>12 DEF Next

\* No wake-up is lost: a used Room without Peers has its check scheduled.
THEOREM DesertedMeansChecked == Spec => []DesertedRoomIsChecked
<1>1. Init => DesertedRoomIsChecked
  BY DEF Init, DesertedRoomIsChecked
<1> QED BY <1>1, NextChecked, RegistryHolds, PTL DEF Spec

-----------------------------------------------------------------------------
(* The refinement of RoomPresence: every turn of the Room is a step of one   *)
(* register, the closure of all, or none.                                    *)

Status == [i \in PeerId |-> StatusOf(i)]
Visitors == {i \in PeerId : peers[i] # None \/ joiningPeers[i] # None}

\* What the registers say follows from the Maps alone, one peerId at a time.
LEMMA OtherRegisters ==
  ASSUME NEW i \in PeerId, NEW s,
         \A j \in PeerId \ {i} :
           /\ peers'[j] = peers[j] /\ joiningPeers'[j] = joiningPeers[j]
           /\ broadcasterPeers'[j] = broadcasterPeers[j]
           /\ joiningBroadcasterPeers'[j] = joiningBroadcasterPeers[j],
         StatusOf(i)' = s
  PROVE  /\ Status' = [Status EXCEPT ![i] = s]
         /\ Visitors' \ {i} = Visitors \ {i}
<1>1. ASSUME NEW j \in PeerId, j # i PROVE StatusOf(j)' = StatusOf(j)
  BY <1>1 DEF StatusOf, JoinedIds
<1> QED BY <1>1 DEF Status, Visitors

\* The holder of a peerId in one of the four Maps is in none of the others.
LEMMA RegisterOfLive ==
  ASSUME Registry, NEW c \in Conn, Live(c)
  PROVE  /\ id[c] \in PeerId
         /\ StatusOf(id[c]) = IF c \in joined THEN "joined" ELSE "joining"
         /\ class[c] = "Peer" =>
              broadcasterPeers[id[c]] = None /\ joiningBroadcasterPeers[id[c]] = None
         /\ class[c] = "BroadcasterPeer" =>
              peers[id[c]] = None /\ joiningPeers[id[c]] = None
         /\ id[c] \in Visitors <=> class[c] = "Peer"
<1>1. /\ id[c] \in PeerId /\ (id[c] \in JoinedIds <=> c \in joined)
      /\ {peers[id[c]], joiningPeers[id[c]], broadcasterPeers[id[c]],
          joiningBroadcasterPeers[id[c]]} \subseteq {c, None}
  BY HolderIsUnique
<1>2. class[c] \in {"Peer", "BroadcasterPeer"}
  BY DEF Registry, TypeOK, Live
<1>3. /\ class[c] = "Peer" =>
           broadcasterPeers[id[c]] = None /\ joiningBroadcasterPeers[id[c]] = None
      /\ class[c] = "BroadcasterPeer" =>
           peers[id[c]] = None /\ joiningPeers[id[c]] = None
  BY <1>1 DEF Registry, MapsSound
<1>4. /\ class[c] = "Peer" => peers[id[c]] = c \/ joiningPeers[id[c]] = c
      /\ class[c] # "Peer" =>
           broadcasterPeers[id[c]] = c \/ joiningBroadcasterPeers[id[c]] = c
      /\ c \notin joined => joiningPeers[id[c]] = c \/ joiningBroadcasterPeers[id[c]] = c
  BY DEF Registry, EveryLiveObjectRegistered
<1> QED BY <1>1, <1>2, <1>3, <1>4, NoneAssumption DEF StatusOf, Visitors

LEMMA ArrivalIsArrive ==
  ASSUME Registry, NEW c \in Conn, NEW i \in PeerId,
         ProcessWsConnection(c, i) \/ CreateBroadcasterPeer(c, i)
  PROVE  Presence!Arrive(i)
<1>1. PICK k : Replace(i, c, k)
  BY DEF ProcessWsConnection, CreateBroadcasterPeer
<1>2. ~roomClosed /\ roomClosed' = roomClosed
  BY <1>1 DEF Replace
<1>3. \A j \in PeerId :
        /\ peers'[j] = IF j = i THEN None ELSE peers[j]
        /\ broadcasterPeers'[j] = IF j = i THEN None ELSE broadcasterPeers[j]
  BY <1>1 DEF Replace, Delete, Registry, TypeOK, Map
<1>4. /\ \A j \in PeerId \ {i} :
           /\ joiningPeers'[j] = joiningPeers[j]
           /\ joiningBroadcasterPeers'[j] = joiningBroadcasterPeers[j]
      /\ joiningPeers'[i] = c \/ joiningBroadcasterPeers'[i] = c
  BY DEF ProcessWsConnection, CreateBroadcasterPeer, Delete, Registry, TypeOK, Map
<1>5. StatusOf(i)' = "joining"
  BY <1>3, <1>4, NoneAssumption DEF StatusOf, JoinedIds
<1>6. Status' = [Status EXCEPT ![i] = "joining"] /\ Visitors' \ {i} = Visitors \ {i}
  BY <1>3, <1>4, <1>5, OtherRegisters
<1>7. Visitors' \in {Visitors \cup {i}, Visitors \ {i}}
  BY <1>6
<1> QED BY <1>2, <1>6, <1>7 DEF Presence!Arrive, Status, Visitors

LEMMA JoinIsJoin ==
  ASSUME Registry, NEW c \in Conn, NEW i \in PeerId, id[c] = i,
         Join(c) \/ JoinBroadcaster(c)
  PROVE  Presence!Join(i)
<1>1. Live(c) /\ c \notin joined
  BY ReachedBroadcasterIsLive DEF Join, JoinBroadcaster
<1>2. StatusOf(i) = "joining"
  BY <1>1, RegisterOfLive
<1>3. /\ roomClosed' = roomClosed
      /\ \A j \in PeerId \ {i} :
           /\ peers'[j] = peers[j] /\ joiningPeers'[j] = joiningPeers[j]
           /\ broadcasterPeers'[j] = broadcasterPeers[j]
           /\ joiningBroadcasterPeers'[j] = joiningBroadcasterPeers[j]
      /\ peers'[i] = c \/ broadcasterPeers'[i] = c
  BY <1>2 DEF Join, JoinBroadcaster, Delete, Registry, TypeOK, Map
<1>4. StatusOf(i)' = "joined"
  BY <1>3, NoneAssumption DEF StatusOf, JoinedIds
<1>5. /\ Status' = [Status EXCEPT ![i] = "joined"]
      /\ Visitors' \ {i} = Visitors \ {i}
  BY <1>3, <1>4, OtherRegisters
<1>6. i \in Visitors <=> i \in Visitors'
  <2>1. CASE Join(c)
    <3>1. class[c] = "Peer" /\ peers'[i] = c
      BY <2>1, <1>2 DEF Join, Registry, TypeOK, Map
    <3> QED BY <3>1, <1>1, <1>2, RegisterOfLive, NoneAssumption DEF Visitors
  <2>2. CASE JoinBroadcaster(c)
    BY <2>2 DEF JoinBroadcaster, Visitors
  <2> QED BY <2>1, <2>2
<1> QED BY <1>2, <1>3, <1>5, <1>6 DEF Presence!Join, Status, Visitors

LEMMA CloseIsLeave ==
  ASSUME Registry, NEW c \in Conn, Live(c), NEW i \in PeerId, id[c] = i,
         \/ class[c] = "Peer" /\ ClosePeer(c)
         \/ class[c] = "BroadcasterPeer" /\ CloseBroadcaster(c)
  PROVE  Presence!Leave(i)
<1>1. /\ StatusOf(i) # "absent"
      /\ class[c] = "Peer" =>
           broadcasterPeers[i] = None /\ joiningBroadcasterPeers[i] = None
      /\ class[c] = "BroadcasterPeer" =>
           peers[i] = None /\ joiningPeers[i] = None
  BY RegisterOfLive
<1>2. /\ roomClosed' = roomClosed
      /\ \A j \in PeerId \ {i} :
           /\ peers'[j] = peers[j] /\ joiningPeers'[j] = joiningPeers[j]
           /\ broadcasterPeers'[j] = broadcasterPeers[j]
           /\ joiningBroadcasterPeers'[j] = joiningBroadcasterPeers[j]
  BY <1>1 DEF ClosePeer, CloseBroadcaster, Delete, Registry, TypeOK, Map
<1>3. /\ peers'[i] = None /\ joiningPeers'[i] = None
      /\ broadcasterPeers'[i] = None /\ joiningBroadcasterPeers'[i] = None
  BY <1>1 DEF ClosePeer, CloseBroadcaster, Delete, Registry, TypeOK, Map
<1>4. StatusOf(i)' = "absent"
  BY <1>3 DEF StatusOf, JoinedIds
<1>5. /\ Status' = [Status EXCEPT ![i] = "absent"]
      /\ Visitors' \ {i} = Visitors \ {i}
  BY <1>2, <1>4, OtherRegisters
<1>6. i \notin Visitors'
  BY <1>3 DEF Visitors
<1> QED BY <1>1, <1>2, <1>5, <1>6 DEF Presence!Leave, Status, Visitors

LEMMA CloseRoomIsClose ==
  ASSUME ~roomClosed, CloseRoom
  PROVE  Presence!Close
<1>1. \A i \in PeerId : StatusOf(i)' = "absent"
  BY DEF CloseRoom, StatusOf, JoinedIds
<1>2. roomClosed' = TRUE /\ Visitors' = {}
  BY DEF CloseRoom, Visitors
<1> QED BY <1>1, <1>2 DEF Presence!Close, Visitors

LEMMA SamePresence == UNCHANGED <<maps, roomClosed>> => UNCHANGED Presence!vars
  BY DEF maps, Presence!vars, StatusOf, JoinedIds

LEMMA StepsOfPresence == Registry /\ [Next]_vars => [Presence!Next]_(Presence!vars)
<1> SUFFICES ASSUME Registry, [Next]_vars PROVE Presence!Next \/ UNCHANGED Presence!vars
  OBVIOUS
<1>0. \A c \in Conn : Live(c) => \E i \in PeerId : id[c] = i
  BY DEF Registry, ObjectsSound, Live
<1>1. ASSUME NEW c \in Conn, NEW i \in PeerId,
             ProcessWsConnection(c, i) \/ CreateBroadcasterPeer(c, i)
      PROVE  Presence!Next
  BY <1>1, ArrivalIsArrive DEF Presence!Next
<1>2. ASSUME NEW c \in Conn, Join(c) \/ JoinBroadcaster(c) PROVE Presence!Next
  BY <1>2, <1>0, JoinIsJoin, ReachedBroadcasterIsLive
  DEF Join, JoinBroadcaster, Presence!Next
<1>3. ASSUME NEW c \in Conn, ProtooClose(c) \/ JoinTimeout(c) PROVE Presence!Next
  BY <1>3, <1>0, CloseIsLeave DEF ProtooClose, GoneWebSocket, JoinTimeout, Presence!Next
<1>4. ASSUME NEW c \in Conn, DisconnectBroadcaster(c) PROVE Presence!Next
  BY <1>4, <1>0, CloseIsLeave, ReachedBroadcasterIsLive
  DEF DisconnectBroadcaster, Presence!Next
<1>5. ASSUME NEW c \in Conn, NEW t \in Transport, TransportFail(c, t)
      PROVE  Presence!Next
  BY <1>5, <1>0, CloseIsLeave DEF TransportFail, Presence!Next
<1>6. ASSUME NEW c \in Conn, NEW t \in Transport,
             RequestTransport(c, t) \/ TransportSettled(c, t)
      PROVE  UNCHANGED Presence!vars
  BY <1>6, SamePresence DEF RequestTransport, TransportSettled
<1>7. ASSUME Shutdown PROVE Presence!Next
  BY <1>7, CloseRoomIsClose DEF Shutdown, Presence!Next
<1>8. ASSUME CloseCheck PROVE Presence!Next \/ UNCHANGED Presence!vars
  BY <1>8, CloseRoomIsClose, SamePresence DEF CloseCheck, Presence!Next
<1>9. ASSUME UNCHANGED vars PROVE UNCHANGED Presence!vars
  BY <1>9, SamePresence DEF vars
<1> QED BY <1>1, <1>2, <1>3, <1>4, <1>5, <1>6, <1>7, <1>8, <1>9 DEF Next

\* Objects, Maps and timers together implement one register per peerId: what one
\* connection does never changes another participant, whichever Map its entry is in.
THEOREM RoomImplementsPresence == Spec => ImplementsPresence
<1>1. Init => Presence!Init
  BY DEF Init, Presence!Init, StatusOf, JoinedIds
<1> QED
  BY <1>1, StepsOfPresence, RegistryHolds, PTL
  DEF Spec, ImplementsPresence, Presence!Spec

=============================================================================
