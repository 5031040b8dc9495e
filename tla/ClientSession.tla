---------------------------- MODULE ClientSession ----------------------------
(***************************************************************************)
(* The web client's connection (app/src/RoomClient.js): the WebSocket of    *)
(* protoo-client that opens, drops and opens again, one _joinRoom() per     *)
(* opening, which creates the transports and joins, the DataProducers it    *)
(* enables at its end, restartIce(), changeDisplayName() and close(),       *)
(* against the server's Peer of the current WebSocket.                      *)
(*                                                                          *)
(* A _joinRoom() is not told that its WebSocket was lost: its next request  *)
(* goes to the next WebSocket, beside the _joinRoom() of that one.  The     *)
(* client produces and consumes; capabilities, candidates and keys are left *)
(* out: a step that may fail because of them has a failure.                 *)
(***************************************************************************)
EXTENDS Naturals, Sequences, Bags, BagsExt

CONSTANTS
  MaxSessions,   \* bound: how often the WebSocket opens
  MaxTransports, \* bound: transports that the server creates
  MaxWire,       \* bound: messages under way when ICE is restarted
  MaxNames       \* bound: changes of the display name

ASSUME BoundsAssumption ==
  /\ MaxSessions \in Nat /\ MaxTransports \in Nat /\ MaxWire \in Nat
  /\ MaxNames \in Nat

VARIABLES
  ws,         \* the WebSocket: none, connecting, open, closed for good
  session,    \* how often it opened
  room,       \* the store's room.state
  restarting, \* the store's restartIceInProgress
  name,       \* _displayName, which is the store's
  calls,      \* the bag of the async functions under way, each in an await
  slot,       \* slot["send"], slot["recv"]: _sendTransport, _recvTransport, or 0
  alive,      \* the client's transports that are not closed
  linked,     \* those that believe that the server has their DTLS parameters
  data,       \* _chatDataProducer, _botDataProducer: which are there
  wire,       \* the requests and notifications under way to the server
  peer,       \* the server's Peer of the current WebSocket
  created,    \* transports created by the server
  overlapped  \* history: a _joinRoom() began while another one was under way

client == <<room, restarting, name, slot, alive, linked, data>>
vars == <<ws, session, client, calls, wire, peer, created, overlapped>>

Transport == 1 .. MaxTransports
Name == 0 .. MaxNames

\* What a function asks the server for, and what else it awaits.
Request == {"capabilities", "send", "recv", "join", "connect", "data", "iceSend",
            "iceRecv"}
Local == {"device", "mic", "queue"}

DataRun == {"chat", "bot"}
Run == DataRun \cup {"join", "ice"}

\* in: the WebSocket a request was sent through, or 0; on: the transport of a
\* DataProducer, or the one that an answer is about.
Call == [run: Run, at: Request \cup Local,
         in: 0 .. MaxSessions, answered: BOOLEAN, on: Transport \cup {0}]

NewPeer == [joined |-> FALSE, name |-> 0, transports |-> {}, connected |-> {},
            data |-> {}]

TypeOK ==
  /\ ws \in {"none", "connecting", "open", "closed"} /\ session \in 0 .. MaxSessions
  /\ room \in {"new", "connecting", "connected", "closed"}
  /\ restarting \in BOOLEAN /\ overlapped \in BOOLEAN /\ name \in Name
  /\ IsABag(calls) /\ BagToSet(calls) \subseteq Call
  /\ slot \in [{"send", "recv"} -> Transport \cup {0}]
  /\ alive \subseteq 1 .. created /\ linked \subseteq alive
  /\ data \subseteq {"chat", "bot"}
  /\ wire \in Seq([what: Request \cup {"name"}, run: Run \cup {""}, on: Transport \cup {0},
                   name: Name])
  /\ peer \in [joined: BOOLEAN, name: Name, transports: SUBSET (1 .. created),
               connected: SUBSET (1 .. created), data: SUBSET {"chat", "bot"}]
  /\ created \in 0 .. MaxTransports

Init ==
  /\ ws = "none" /\ session = 0 /\ room = "new" /\ restarting = FALSE /\ name = 0
  /\ calls = EmptyBag
  /\ slot = [s \in {"send", "recv"} |-> 0] /\ alive = {} /\ linked = {} /\ data = {}
  /\ wire = <<>> /\ peer = NewPeer /\ created = 0 /\ overlapped = FALSE

-----------------------------------------------------------------------------
(* Calls, and the requests they make.                                      *)

Started(f, stage, t) == [run |-> f, at |-> stage, in |-> 0, answered |-> FALSE, on |-> t]
Without(k) == BagRemove(calls, k)
Becomes(k, after) == calls' = BagAdd(Without(k), after)
Running(f) == \E k \in BagToSet(calls) : k.run = f

At(k, f, stage) == BagIn(k, calls) /\ k.run = f /\ k.at = stage

\* An answer comes through the WebSocket of its request, or never.
Resolves(k) == k.answered /\ k.in = session /\ ws = "open"
Answered(k, f, stage) == At(k, f, stage) /\ Resolves(k)

\* Mutant: the name that the client was created with.
MessageWithFirstName(k, what, t) == [what |-> what, run |-> k.run, on |-> t, name |-> 0]

Message(k, what, t) == [what |-> what, run |-> k.run, on |-> t, name |-> name]

\* protoo-client: a request over a WebSocket that is not open is rejected.
Asks(k, what, t) ==
  /\ ws = "open"
  /\ wire' = Append(wire, Message(k, what, t))
  /\ Becomes(k, [run |-> k.run, at |-> what, in |-> session, answered |-> FALSE,
                 on |-> IF k.run = "join" THEN 0 ELSE k.on])

Ends(k) == calls' = Without(k)

\* What is awaited is rejected, or times out.
MayFail(k) == k.at \in Local \/ ~Resolves(k)

-----------------------------------------------------------------------------
(* The WebSocket.                                                          *)

\* Mutant: the transports are forgotten, not closed.
ForgetTransports(left) ==
  /\ slot' = [s \in {"send", "recv"} |-> 0]
  /\ data' = {} /\ calls' = left
  /\ UNCHANGED <<alive, linked>>

\* transport.close() ends its DataProducers and rejects those under way; left are
\* the calls that are not over yet.
CloseTransports(left) ==
  /\ slot' = [s \in {"send", "recv"} |-> 0]
  /\ alive' = alive \ {slot["send"], slot["recv"]}
  /\ linked' = linked \ {slot["send"], slot["recv"]}
  /\ data' = {}
  /\ calls' = [k \in {c \in BagToSet(left) :
                        c.run \in DataRun => c.on # slot["send"]} |-> left[k]]

\* What the store forgets with its room.
RoomClosed == room' = "closed" /\ restarting' = FALSE

\* The Room is mounted.
Join ==
  /\ ws = "none" /\ ws' = "connecting" /\ room' = "connecting"
  /\ UNCHANGED <<session, restarting, name, calls, slot, alive, linked, data, wire,
                 peer, created, overlapped>>

\* 'open': the server has a new Peer for it, and dropped the old one.
Open ==
  /\ ws = "connecting" /\ session < MaxSessions
  /\ ws' = "open" /\ session' = session + 1
  /\ calls' = BagAdd(calls, Started("join", "device", 0))
  /\ overlapped' = (overlapped \/ Running("join"))
  /\ wire' = <<>> /\ peer' = NewPeer
  /\ UNCHANGED <<client, created>>

\* 'disconnected': protoo-client connects again.
Disconnected ==
  /\ ws = "open" /\ ws' = "connecting"
  /\ CloseTransports(calls) /\ RoomClosed
  /\ wire' = <<>>
  /\ UNCHANGED <<session, name, peer, created, overlapped>>

\* close(), and what protoo-client does then: nothing is sent any more.
Close(k) ==
  /\ ws' = "closed" /\ wire' = <<>>
  /\ IF ws = "closed" THEN Ends(k) /\ UNCHANGED client
     ELSE CloseTransports(Without(k)) /\ RoomClosed /\ UNCHANGED name
  /\ UNCHANGED <<session, peer, created, overlapped>>

\* 'close': the server closed it (its Peer is closed), or no attempt is left.
ProtooClosed ==
  /\ ws \in {"open", "connecting"} /\ ws' = "closed"
  /\ CloseTransports(calls) /\ RoomClosed
  /\ wire' = <<>>
  /\ UNCHANGED <<session, name, peer, created, overlapped>>

-----------------------------------------------------------------------------
(* _joinRoom().                                                            *)

DeviceCreated(k) ==
  /\ At(k, "join", "device") /\ Asks(k, "capabilities", 0)
  /\ UNCHANGED <<ws, session, client, peer, created, overlapped>>

\* device.load(), then getUserMedia().
CapabilitiesKnown(k) ==
  /\ Answered(k, "join", "capabilities")
  /\ Becomes(k, Started("join", "mic", 0))
  /\ UNCHANGED <<ws, session, client, wire, peer, created, overlapped>>

MicGranted(k) ==
  /\ At(k, "join", "mic") /\ Asks(k, "send", 0)
  /\ UNCHANGED <<ws, session, client, peer, created, overlapped>>

\* Mutant: the client is shown as connected before it has joined.
ConnectedWithTransports(k, s, next) ==
  /\ Answered(k, "join", s)
  /\ slot' = [slot EXCEPT ![s] = k.on] /\ alive' = alive \cup {k.on}
  /\ Asks(k, next, 0)
  /\ room' = IF s = "recv" THEN "connected" ELSE room
  /\ UNCHANGED <<ws, session, restarting, name, linked, data, peer, created, overlapped>>

\* createSendTransport(), createRecvTransport(): the slot is overwritten.
TransportCreated(k, s, next) ==
  /\ Answered(k, "join", s)
  /\ slot' = [slot EXCEPT ![s] = k.on] /\ alive' = alive \cup {k.on}
  /\ Asks(k, next, 0)
  /\ UNCHANGED <<ws, session, room, restarting, name, linked, data, peer, created,
                 overlapped>>

\* The tail: the DataProducers begin; microphone and webcam: see ClientProducing.
Joined(k) ==
  /\ Answered(k, "join", "join")
  /\ room' = "connected"
  /\ calls' = BagAdd(BagAdd(Without(k), Started("chat", "queue", slot["send"])),
                    Started("bot", "queue", slot["send"]))
  /\ UNCHANGED <<ws, session, restarting, name, slot, alive, linked, data, wire, peer,
                 created, overlapped>>

\* Mutant: the error is shown, the WebSocket stays.
JoinFailedOpen(k) ==
  /\ BagIn(k, calls) /\ k.run = "join" /\ MayFail(k) /\ Ends(k)
  /\ UNCHANGED <<ws, session, client, wire, peer, created, overlapped>>

\* A device, the user, the server, a timeout, a WebSocket that is gone: the catch
\* closes the client, whichever WebSocket it has by now.
JoinFailed(k) ==
  /\ BagIn(k, calls) /\ k.run = "join" /\ MayFail(k) /\ Close(k)

-----------------------------------------------------------------------------
(* enableChatDataProducer(), enableBotDataProducer().                      *)

\* The transport's queue runs one produceData() at a time, and connects first.
\* The listeners name the transport that is in the slot by then.
ProduceData(k) ==
  /\ BagIn(k, calls) /\ k.run \in DataRun /\ k.at = "queue" /\ slot["send"] # 0
  /\ \A j \in BagToSet(calls) :
       j.run \in DataRun /\ j.on = k.on => j.at = "queue"
  /\ Asks(k, IF k.on \in linked THEN "data" ELSE "connect", slot["send"])
  /\ UNCHANGED <<ws, session, client, peer, created, overlapped>>

TransportConnected(k) ==
  /\ BagIn(k, calls) /\ k.at = "connect" /\ Resolves(k) /\ slot["send"] # 0
  /\ linked' = linked \cup {k.on}
  /\ Asks(k, "data", slot["send"])
  /\ UNCHANGED <<ws, session, room, restarting, name, slot, alive, data, peer, created,
                 overlapped>>

DataProduced(k) ==
  /\ BagIn(k, calls) /\ k.at = "data" /\ Resolves(k) /\ Ends(k)
  /\ data' = data \cup {k.run}
  /\ UNCHANGED <<ws, session, room, restarting, name, slot, alive, linked, wire, peer,
                 created, overlapped>>

EnableDataFailed(k) ==
  /\ BagIn(k, calls) /\ k.run \in DataRun /\ MayFail(k) /\ Ends(k)
  /\ UNCHANGED <<ws, session, client, wire, peer, created, overlapped>>

-----------------------------------------------------------------------------
(* restartIce(): a button that is disabled meanwhile.                      *)

RestartIce ==
  /\ Len(wire) < MaxWire
  /\ ~restarting /\ ws = "open" /\ slot["send"] # 0
  /\ restarting' = TRUE
  /\ LET k == [Started("ice", "iceSend", 0) EXCEPT !.in = session] IN
     /\ wire' = Append(wire, Message(k, "iceSend", slot["send"]))
     /\ calls' = BagAdd(calls, k)
  /\ UNCHANGED <<ws, session, room, name, slot, alive, linked, data, peer, created,
                 overlapped>>

\* The transport for sending restarted; the one for receiving, if it is there yet.
SendIceRestarted(k) ==
  /\ Answered(k, "ice", "iceSend") /\ slot["send"] # 0
  /\ IF slot["recv"] # 0 THEN Asks(k, "iceRecv", slot["recv"]) /\ UNCHANGED restarting
     ELSE Ends(k) /\ restarting' = FALSE /\ UNCHANGED wire
  /\ UNCHANGED <<ws, session, room, name, slot, alive, linked, data, peer, created,
                 overlapped>>

RecvIceRestarted(k) ==
  /\ Answered(k, "ice", "iceRecv") /\ Ends(k) /\ restarting' = FALSE
  /\ UNCHANGED <<ws, session, room, name, slot, alive, linked, data, wire, peer,
                 created, overlapped>>

RestartIceFailed(k) ==
  /\ BagIn(k, calls) /\ k.run = "ice" /\ Ends(k) /\ restarting' = FALSE
  /\ UNCHANGED <<ws, session, room, name, slot, alive, linked, data, wire, peer,
                 created, overlapped>>

-----------------------------------------------------------------------------
(* changeDisplayName(), at any time: the name is kept even if it is not told. *)

ChangeDisplayName ==
  /\ ws # "none" /\ name < MaxNames /\ name' = name + 1
  /\ wire' = IF ws = "open"
             THEN Append(wire, [what |-> "name", run |-> "", on |-> 0, name |-> name'])
             ELSE wire
  /\ UNCHANGED <<ws, session, room, restarting, calls, slot, alive, linked, data, peer,
                 created, overlapped>>

-----------------------------------------------------------------------------
(* The server's Peer.                                                      *)

\* The transport that a request is about is one of this Peer's.
Found(m) == m.on \in peer.transports

\* The call that a request is of.
Asked(m, k) ==
  BagIn(k, calls) /\ k.run = m.run /\ k.at = m.what /\ k.in = session /\ ~k.answered

Answer(k, t) ==
  Becomes(k, [k EXCEPT !.answered = TRUE, !.on = t])

GetRouterRtpCapabilities(m, k) ==
  m.what = "capabilities" /\ Answer(k, 0) /\ UNCHANGED <<peer, created>>

CreateWebRtcTransport(m, k) ==
  /\ m.what \in {"send", "recv"} /\ created < MaxTransports
  /\ created' = created + 1
  /\ peer' = [peer EXCEPT !.transports = @ \cup {created'}]
  /\ Answer(k, created')

JoinPeer(m, k) ==
  /\ m.what = "join" /\ ~peer.joined
  /\ peer' = [peer EXCEPT !.joined = TRUE, !.name = m.name]
  /\ Answer(k, 0) /\ UNCHANGED created

ConnectWebRtcTransport(m, k) ==
  /\ m.what = "connect" /\ Found(m) /\ m.on \notin peer.connected
  /\ peer' = [peer EXCEPT !.connected = @ \cup {m.on}]
  /\ Answer(k, k.on) /\ UNCHANGED created

ProduceDataAtServer(m, k) ==
  /\ m.what = "data" /\ peer.joined /\ Found(m)
  /\ peer' = [peer EXCEPT !.data = @ \cup {m.run}]
  /\ Answer(k, k.on) /\ UNCHANGED created

RestartIceAtServer(m, k) ==
  /\ m.what \in {"iceSend", "iceRecv"} /\ Found(m)
  /\ Answer(k, 0) /\ UNCHANGED <<peer, created>>

ChangedDisplayName(m) ==
  /\ m.what = "name"
  /\ peer' = IF peer.joined THEN [peer EXCEPT !.name = m.name] ELSE peer
  /\ UNCHANGED <<calls, created>>

\* handleProtooRequest(), handleProtooNotification(); a request that has no
\* success, a second 'join' above all, is an error: its call fails.
Handle ==
  /\ ws = "open" /\ wire # <<>> /\ wire' = Tail(wire)
  /\ LET m == Head(wire) IN
     \/ ChangedDisplayName(m)
     \/ \E k \in BagToSet(calls) : Asked(m, k) /\
          \/ GetRouterRtpCapabilities(m, k) \/ CreateWebRtcTransport(m, k)
          \/ JoinPeer(m, k) \/ ConnectWebRtcTransport(m, k)
          \/ ProduceDataAtServer(m, k) \/ RestartIceAtServer(m, k)
     \/ m.what # "name" /\ UNCHANGED <<calls, peer, created>>
  /\ UNCHANGED <<ws, session, client, overlapped>>

-----------------------------------------------------------------------------

Settles(k) ==
  \/ DeviceCreated(k) \/ CapabilitiesKnown(k) \/ MicGranted(k)
  \/ TransportCreated(k, "send", "recv") \/ TransportCreated(k, "recv", "join")
  \/ Joined(k) \/ JoinFailed(k)
  \/ ProduceData(k) \/ TransportConnected(k) \/ DataProduced(k) \/ EnableDataFailed(k)
  \/ SendIceRestarted(k) \/ RecvIceRestarted(k) \/ RestartIceFailed(k)

Next ==
  \/ Join \/ Open \/ Disconnected \/ ProtooClosed
  \/ \E k \in BagToSet(calls) : Settles(k)
  \/ RestartIce \/ ChangeDisplayName
  \/ Handle

Spec == Init /\ [][Next]_vars

\* What a function awaits settles: devices and the user answer, requests are
\* answered, rejected or time out.
Proceeds(f) == \E k \in BagToSet(calls) : k.run = f /\ Settles(k)

FairSpec == Spec /\ \A f \in {"join", "ice"} : WF_vars(Proceeds(f))

-----------------------------------------------------------------------------
(* Properties.                                                             *)

\* The client shows itself as connected only while its WebSocket is open and the
\* server's Peer for that WebSocket has joined.
ConnectedIsJoined == room = "connected" => ws = "open" /\ peer.joined

\* Every transport of the client is in its slot, where close() finds it, unless
\* two _joinRoom() ran at the same time; and it is one of the server's Peer.
TransportsAreReachable ==
  ~overlapped => /\ alive = {slot["send"], slot["recv"]} \ {0}
                 /\ alive \subseteq peer.transports
                 /\ linked \subseteq peer.connected

\* Once nothing is under way, the server knows the client by its current name,
\* whenever it was changed.
NameIsKnown == room = "connected" /\ wire = <<>> => peer.name = name

\* An open WebSocket leads into the room, or is closed.
SessionSettles == (ws = "open") ~> (room = "connected" \/ ws # "open")

=============================================================================
