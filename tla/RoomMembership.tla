--------------------------- MODULE RoomMembership ---------------------------
(***************************************************************************)
(* Who is in a Room: the life of the Peer and BroadcasterPeer objects of   *)
(* one Room, the four Maps the Room keeps them in, the deferred check that *)
(* closes a deserted Room, and what every joined Peer has been told about  *)
(* the others.  (server/src/Room.ts, Peer.ts and BroadcasterPeer.ts.)      *)
(*                                                                         *)
(* An object is identified by a value of Conn and never reused: a client   *)
(* that reconnects gets a new object with the same peerId.  The server is  *)
(* single threaded, so an action is one turn of its event loop: the        *)
(* handler and every listener it calls through emit().                     *)
(***************************************************************************)
EXTENDS Naturals, FiniteSets

CONSTANTS
  Conn,       \* the Peer and BroadcasterPeer objects ever created
  PeerId,     \* the peerIds clients choose
  Transport,  \* the transports an object may ask for
  None        \* an empty Map entry

ASSUME NoneAssumption == None \notin Conn /\ None \notin PeerId

VARIABLES
  class,      \* class[c]: the class of object c, "unborn" before it exists
  id,         \* Peer.#peerId, BroadcasterPeer.#peerId
  closed,     \* the objects whose #closed is set
  joined,     \* the objects whose #joined is set
  joiningPeers, peers,                          \* Room.#joiningPeers, #peers
  joiningBroadcasterPeers, broadcasterPeers,    \* and their broadcaster twins
  creating,   \* creating[c]: createWebRtcTransport / createPlainTransport awaited
  transports, \* #transports of c: those the object knows and can close
  roomClosed, \* Room.#closed
  closeCheck, \* a setImmediate() callback of Room.mayClose() is pending
  roster,     \* roster[c]: the peerIds c was told about and not told to drop
  everUsed,   \* history: a Peer entered the Room
  emitted,    \* history: the objects that emitted 'disconnected'
  silent      \* history: the peerIds replaced while joined, nothing said since

maps == <<joiningPeers, peers, joiningBroadcasterPeers, broadcasterPeers>>
objects == <<class, id, closed, joined>>
history == <<everUsed, emitted, silent>>
vars == <<objects, maps, creating, transports, roomClosed, closeCheck, roster,
          history>>

Map == [PeerId -> Conn \cup {None}]

TypeOK ==
  /\ class \in [Conn -> {"unborn", "Peer", "BroadcasterPeer"}]
  /\ id \in [Conn -> PeerId \cup {None}]
  /\ closed \subseteq Conn /\ joined \subseteq Conn
  /\ joiningPeers \in Map /\ peers \in Map
  /\ joiningBroadcasterPeers \in Map /\ broadcasterPeers \in Map
  /\ creating \in [Conn -> SUBSET Transport]
  /\ transports \in [Conn -> SUBSET Transport]
  /\ roomClosed \in BOOLEAN /\ closeCheck \in BOOLEAN
  /\ roster \in [Conn -> SUBSET PeerId]
  /\ everUsed \in BOOLEAN /\ emitted \subseteq Conn /\ silent \subseteq PeerId

Init ==
  /\ class = [c \in Conn |-> "unborn"]
  /\ id = [c \in Conn |-> None]
  /\ closed = {} /\ joined = {}
  /\ joiningPeers = [i \in PeerId |-> None]
  /\ peers = [i \in PeerId |-> None]
  /\ joiningBroadcasterPeers = [i \in PeerId |-> None]
  /\ broadcasterPeers = [i \in PeerId |-> None]
  /\ creating = [c \in Conn |-> {}]
  /\ transports = [c \in Conn |-> {}]
  /\ roomClosed = FALSE /\ closeCheck = FALSE
  /\ roster = [c \in Conn |-> {}]
  /\ everUsed = FALSE /\ emitted = {} /\ silent = {}

-----------------------------------------------------------------------------
(* Vocabulary.                                                             *)

Values(map) == {map[i] : i \in PeerId} \ {None}

Delete(map, i) == [map EXCEPT ![i] = None]

Live(c) == class[c] # "unborn" /\ c \notin closed

\* The Room's view: the participants the others are told about, by peerId.
JoinedIds == {i \in PeerId : peers[i] # None \/ broadcasterPeers[i] # None}

\* The Peers that getOtherPeers(c) returns when #peers is map.
OtherPeers(map, c) == Values(map) \ {c}

\* The #transports of every object of S are closed, and forget themselves.
CloseTransports(S) ==
  transports' = [c \in Conn |-> IF c \in S THEN {} ELSE transports[c]]

\* notify('peerClosed', {peerId: i}) to every Peer of S; the gone Peers of G
\* have no roster any more.
ForgetInRosters(i, S, G) ==
  roster' = [c \in Conn |-> IF c \in G THEN {}
                            ELSE IF c \in S THEN roster[c] \ {i} ELSE roster[c]]

-----------------------------------------------------------------------------
(* Closing one object.                                                     *)

\* Mutant: only the leave of a joined Peer counts.
MayCloseIfJoined(S) == closeCheck' = (closeCheck \/ S \cap joined # {})

\* Room.mayClose(), called for each Peer of S that closes.
MayClose(S) == closeCheck' = (closeCheck \/ S # {})

\* Peer.close() of a live Peer, with the Room's 'closed' listener: it deletes
\* by peerId, in both Maps, and schedules the check of mayClose().
ClosePeer(c) ==
  /\ closed' = closed \cup {c}
  /\ CloseTransports({c})
  /\ joiningPeers' = Delete(joiningPeers, id[c])
  /\ peers' = Delete(peers, id[c])
  /\ MayClose({c})
  /\ UNCHANGED <<class, id, joined, joiningBroadcasterPeers, broadcasterPeers,
                 creating, roomClosed, everUsed>>

\* BroadcasterPeer.close() with the Room's 'closed' listener: no mayClose().
CloseBroadcaster(c) ==
  /\ closed' = closed \cup {c}
  /\ CloseTransports({c})
  /\ joiningBroadcasterPeers' = Delete(joiningBroadcasterPeers, id[c])
  /\ broadcasterPeers' = Delete(broadcasterPeers, id[c])
  /\ UNCHANGED <<class, id, joined, joiningPeers, peers, creating, roomClosed,
                 closeCheck, everUsed>>

\* emit('disconnected') of an object closed in this step: every Peer still in
\* #peers is notified.
EmitDisconnected(c) ==
  /\ ForgetInRosters(id[c], OtherPeers(peers', c), {c})
  /\ emitted' = emitted \cup {c}
  /\ silent' = silent \ {id[c]}

\* The object goes without a word.
LeaveQuietly(c) ==
  /\ ForgetInRosters(id[c], {}, {c})
  /\ UNCHANGED <<emitted, silent>>

-----------------------------------------------------------------------------
(* Arriving: a WebSocket connection, or an API request of a broadcaster.   *)

\* Mutant: only #peers is looked at.
ExistingJoinedPeer(i) == {peers[i]} \ {None}

\* The Peer that mayCloseExistingPeer(i) closes: the 'closed' of a joined one
\* deletes the joining entry as well, before it is looked up.
ExistingPeer(i) ==
  IF peers[i] # None THEN {peers[i]} ELSE {joiningPeers[i]} \ {None}

ExistingBroadcaster(i) ==
  IF broadcasterPeers[i] # None THEN {broadcasterPeers[i]}
  ELSE {joiningBroadcasterPeers[i]} \ {None}

\* Mutant: mayClose() looks at once, before the new object is registered.
ReplaceCheckingAtOnce(i, c, k) ==
  LET old == ExistingPeer(i) \cup ExistingBroadcaster(i) IN
  /\ ~roomClosed /\ class[c] = "unborn"
  /\ class' = [class EXCEPT ![c] = k]
  /\ id' = [id EXCEPT ![c] = i]
  /\ closed' = closed \cup old
  /\ CloseTransports(old)
  /\ peers' = Delete(peers, i)
  /\ broadcasterPeers' = Delete(broadcasterPeers, i)
  /\ roomClosed' = (ExistingPeer(i) # {}
                     /\ Values(peers) \cup Values(joiningPeers) = ExistingPeer(i))
  /\ ForgetInRosters(i, {}, old)
  /\ silent' = silent \cup {j \in {i} : i \in JoinedIds}
  /\ UNCHANGED <<joined, creating, closeCheck, emitted>>

\* mayCloseExistingPeer(i) and the construction of c, which takes over i.
Replace(i, c, k) ==
  LET old == ExistingPeer(i) \cup ExistingBroadcaster(i) IN
  /\ ~roomClosed /\ class[c] = "unborn"
  /\ class' = [class EXCEPT ![c] = k]
  /\ id' = [id EXCEPT ![c] = i]
  /\ closed' = closed \cup old
  /\ CloseTransports(old)
  /\ peers' = Delete(peers, i)
  /\ broadcasterPeers' = Delete(broadcasterPeers, i)
  /\ MayClose(ExistingPeer(i))
  /\ ForgetInRosters(i, {}, old)
  /\ silent' = silent \cup {j \in {i} : i \in JoinedIds}
  /\ UNCHANGED <<joined, creating, roomClosed, emitted>>

\* Mutant: the new Peer is registered before the existing one is closed.
RegisterThenReplace(c, i) ==
  /\ Replace(i, c, "Peer")
  /\ joiningPeers' = [joiningPeers EXCEPT
                        ![i] = IF ExistingPeer(i) = {} THEN c ELSE None]
  /\ joiningBroadcasterPeers' = Delete(joiningBroadcasterPeers, i)
  /\ everUsed' = TRUE

\* Room.processWsConnection(): the Peer has its join timer running.
ProcessWsConnection(c, i) ==
  /\ Replace(i, c, "Peer")
  /\ joiningPeers' = [joiningPeers EXCEPT ![i] = c]
  /\ joiningBroadcasterPeers' = Delete(joiningBroadcasterPeers, i)
  /\ everUsed' = TRUE

\* The 'createBroadcasterPeer' API request: no timer bounds its join.
CreateBroadcasterPeer(c, i) ==
  /\ Replace(i, c, "BroadcasterPeer")
  /\ joiningPeers' = Delete(joiningPeers, i)
  /\ joiningBroadcasterPeers' = [joiningBroadcasterPeers EXCEPT ![i] = c]
  /\ UNCHANGED everUsed

-----------------------------------------------------------------------------
(* Joining.                                                                *)

\* notify('newPeer', i) to every Peer of S; c, if any, gets the list L.
TellJoined(i, S, C, L) ==
  roster' = [d \in Conn |-> IF d \in C THEN L
                            ELSE IF d \in S THEN roster[d] \cup {i} ELSE roster[d]]

\* The 'join' request of a Peer: the answer lists the other Peers and the
\* BroadcasterPeers, the other Peers get 'newPeer'.
Join(c) ==
  /\ class[c] = "Peer" /\ Live(c) /\ c \notin joined
  /\ joined' = joined \cup {c}
  /\ joiningPeers' = Delete(joiningPeers, id[c])
  /\ peers' = [peers EXCEPT ![id[c]] = c]
  /\ LET others == OtherPeers(peers', c)
         listed == {id[d] : d \in others \cup Values(broadcasterPeers)}
     IN  TellJoined(id[c], others, {c}, listed)
  /\ silent' = silent \ {id[c]}
  /\ UNCHANGED <<class, id, closed, joiningBroadcasterPeers, broadcasterPeers,
                 creating, transports, roomClosed, closeCheck, everUsed, emitted>>

\* Room.getBroadcasterPeer(): the API reaches a BroadcasterPeer by peerId.
GetBroadcasterPeer(i) ==
  IF broadcasterPeers[i] # None THEN broadcasterPeers[i]
  ELSE joiningBroadcasterPeers[i]

\* The 'join' API request of a BroadcasterPeer.
JoinBroadcaster(c) ==
  /\ class[c] = "BroadcasterPeer" /\ GetBroadcasterPeer(id[c]) = c
  /\ c \notin joined
  /\ joined' = joined \cup {c}
  /\ joiningBroadcasterPeers' = Delete(joiningBroadcasterPeers, id[c])
  /\ broadcasterPeers' = [broadcasterPeers EXCEPT ![id[c]] = c]
  /\ TellJoined(id[c], Values(peers), {}, {})
  /\ silent' = silent \ {id[c]}
  /\ UNCHANGED <<class, id, closed, joiningPeers, peers, creating, transports,
                 roomClosed, closeCheck, everUsed, emitted>>

-----------------------------------------------------------------------------
(* Leaving.                                                                *)

GoneWebSocket(c) ==
  /\ class[c] = "Peer" /\ Live(c)
  /\ ClosePeer(c)
  /\ IF c \in joined THEN EmitDisconnected(c) ELSE LeaveQuietly(c)

\* Mutant: the listener does not look at #closed.
UnguardedProtooClose(c) ==
  \/ GoneWebSocket(c)
  \/ /\ class[c] = "Peer" /\ c \in closed \cap joined
     /\ UNCHANGED <<objects, maps, creating, transports, roomClosed, closeCheck,
                    everUsed>>
     /\ EmitDisconnected(c)

\* Mutant: the listener closes the Peer and forgets 'disconnected'.
SilentProtooClose(c) ==
  /\ class[c] = "Peer" /\ Live(c)
  /\ ClosePeer(c)
  /\ LeaveQuietly(c)

\* protoo reports that the WebSocket is gone.
ProtooClose(c) == GoneWebSocket(c)

\* Mutant: the timer looks at #joined the wrong way round.
JoinTimeoutIfJoined(c) ==
  /\ class[c] = "Peer" /\ Live(c) /\ c \in joined
  /\ ClosePeer(c)
  /\ LeaveQuietly(c)

\* The timer of the constructor: JOIN_TIMEOUT_MS without 'join', which clears it.
JoinTimeout(c) ==
  /\ class[c] = "Peer" /\ Live(c) /\ c \notin joined
  /\ ClosePeer(c)
  /\ LeaveQuietly(c)

\* ICE disconnected or closed, DTLS failed or closed: 'disconnected' is emitted
\* whether or not the Peer joined.  Only a client that got the transport can
\* bring it that far: not one whose Peer was closed meanwhile.
TransportFail(c, t) ==
  /\ class[c] = "Peer" /\ Live(c) /\ t \in transports[c]
  /\ ClosePeer(c)
  /\ EmitDisconnected(c)

\* The 'disconnect' API request.
DisconnectBroadcaster(c) ==
  /\ class[c] = "BroadcasterPeer" /\ GetBroadcasterPeer(id[c]) = c
  /\ CloseBroadcaster(c)
  /\ IF c \in joined THEN EmitDisconnected(c) ELSE LeaveQuietly(c)

-----------------------------------------------------------------------------
(* Transports: created by an await, in whatever state the object is then.  *)

RequestTransport(c, t) ==
  /\ Live(c) /\ ~roomClosed /\ t \notin creating[c] \cup transports[c]
  /\ creating' = [creating EXCEPT ![c] = @ \cup {t}]
  /\ UNCHANGED <<objects, maps, transports, roomClosed, closeCheck, roster,
                 history>>

\* The await resolves (the Router is open), or rejects.
TransportSettled(c, t) ==
  /\ t \in creating[c]
  /\ creating' = [creating EXCEPT ![c] = @ \ {t}]
  /\ \/ ~roomClosed /\ transports' = [transports EXCEPT ![c] = @ \cup {t}]
     \/ UNCHANGED transports
  /\ UNCHANGED <<objects, maps, roomClosed, closeCheck, roster, history>>

-----------------------------------------------------------------------------
(* Closing the Room.                                                       *)

\* The objects Room.close() walks through.
Registered == UNION {Values(joiningPeers), Values(peers),
                     Values(joiningBroadcasterPeers), Values(broadcasterPeers)}

\* Room.close() of an open Room: nobody is notified, the Routers take every
\* transport with them.
CloseRoom ==
  /\ roomClosed' = TRUE
  /\ closed' = closed \cup Registered
  /\ transports' = [c \in Conn |-> {}]
  /\ joiningPeers' = [i \in PeerId |-> None]
  /\ peers' = [i \in PeerId |-> None]
  /\ joiningBroadcasterPeers' = [i \in PeerId |-> None]
  /\ broadcasterPeers' = [i \in PeerId |-> None]
  /\ roster' = [c \in Conn |-> {}]
  /\ silent' = {}
  /\ UNCHANGED <<class, id, joined, creating, everUsed, emitted>>

\* The Server, a mediasoup Worker, Router or WebRtcServer closes.
Shutdown ==
  /\ ~roomClosed
  /\ CloseRoom
  /\ MayClose(Values(joiningPeers) \cup Values(peers))

\* The condition of mayClose(): BroadcasterPeers do not count.
Deserted == Values(peers) = {} /\ Values(joiningPeers) = {}

\* The setImmediate() callback of mayClose().
CloseCheck ==
  /\ closeCheck
  /\ closeCheck' = FALSE
  /\ \/ ~roomClosed /\ Deserted /\ CloseRoom
     \/ /\ roomClosed \/ ~Deserted
        /\ UNCHANGED <<objects, maps, creating, transports, roomClosed, roster,
                       history>>

-----------------------------------------------------------------------------

Next ==
  \/ \E c \in Conn, i \in PeerId :
        ProcessWsConnection(c, i) \/ CreateBroadcasterPeer(c, i)
  \/ \E c \in Conn :
        \/ Join(c) \/ JoinBroadcaster(c)
        \/ ProtooClose(c) \/ JoinTimeout(c) \/ DisconnectBroadcaster(c)
  \/ \E c \in Conn, t \in Transport :
        RequestTransport(c, t) \/ TransportSettled(c, t) \/ TransportFail(c, t)
  \/ Shutdown \/ CloseCheck

Spec == Init /\ [][Next]_vars

\* Node's timers and setImmediate() callbacks do run.
FairSpec == Spec /\ WF_vars(CloseCheck) /\ \A c \in Conn : WF_vars(JoinTimeout(c))

-----------------------------------------------------------------------------
(* Properties.                                                             *)

\* mayCloseExistingPeer() leaves no second object with the same peerId alive,
\* in whatever Map and of whatever class the first one was.
OneLiveObjectPerId ==
  \A c, d \in Conn : Live(c) /\ Live(d) /\ id[c] = id[d] => c = d

\* Deleting by peerId never takes away the entry of another object: a live
\* object stays in the Map of its class and state, where Room.close(), the API
\* and the next connection with its peerId find it.
EveryLiveObjectRegistered ==
  \A c \in Conn : Live(c) =>
     IF class[c] = "Peer"
     THEN (IF c \in joined THEN peers ELSE joiningPeers)[id[c]] = c
     ELSE (IF c \in joined THEN broadcasterPeers
                           ELSE joiningBroadcasterPeers)[id[c]] = c

\* A closed Room has no live object: not even the one that takes the place of
\* the last Peer of the Room, whose leave asks for the closing check before the
\* new object is registered (the setImmediate() of mayClose()).
NoOneInClosedRoom == roomClosed => \A c \in Conn : ~Live(c)

\* Every joined Peer was told of every other joined Peer and BroadcasterPeer,
\* in the answer to 'join' or by 'newPeer', and no 'peerClosed' of an earlier
\* connection with the same peerId undid it.
RosterComplete ==
  \A c \in Values(peers) : JoinedIds \ {id[c]} \subseteq roster[c]

\* A joined Peer still lists someone who is gone only when a joined connection
\* of that peerId was replaced, which 'peerClosed' does not announce, and the
\* new one has not joined.
StaleOnlyIfReplaced ==
  \A c \in Values(peers) : roster[c] \subseteq JoinedIds \cup silent

\* A used Room without any Peer has its closing check pending: mayClose() was
\* called since the last Peer left.
DesertedRoomIsChecked ==
  everUsed /\ ~roomClosed /\ Deserted => closeCheck

\* Peer.ts says of 'disconnected' that it is only emitted if the Peer was
\* joined; the transport listeners of handleTransport() do not look.
DisconnectedOnlyIfJoined == emitted \subseteq joined

\* The join timer: no Peer stays in the joining state for ever.
EveryPeerJoinsOrCloses ==
  \A c \in Conn : (class[c] = "Peer") ~> (c \in joined \/ c \in closed)

\* A Room its last Peer has left is closed, unless someone comes first.
DesertedRoomCloses == (everUsed /\ Deserted) ~> (roomClosed \/ ~Deserted)

\* The objects and Maps implement one register per peerId: no step of one
\* participant changes another, and nobody is joined who did not arrive first.
StatusOf(i) ==
  IF i \in JoinedIds THEN "joined"
  ELSE IF joiningPeers[i] # None \/ joiningBroadcasterPeers[i] # None
       THEN "joining" ELSE "absent"

Presence == INSTANCE RoomPresence WITH
  status <- [i \in PeerId |-> StatusOf(i)],
  visitors <- {i \in PeerId : peers[i] # None \/ joiningPeers[i] # None},
  open <- ~roomClosed

ImplementsPresence == Presence!Spec

=============================================================================
