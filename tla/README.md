# TLA+ models of mediasoup-demo

mediasoup-demo is a videoconference: a Node server built on mediasoup (an SFU in
separate Worker processes), a web application, and command line programs that
inject media.  This directory models the parts in which *order* matters, checks
them with TLC on small instances, and proves the safety properties for every
size with TLAPS.

| module | what it is about | code |
| --- | --- | --- |
| `RoomMembership` | who is in a Room, and what the others were told | `server/src/Room.ts`, `Peer.ts`, `BroadcasterPeer.ts` |
| `RoomPresence` | what that promises: one register per peerId | (abstract) |
| `RoomRegistry` | how a connection gets its Room | `server/src/Server.ts`, `WsServer.ts` |
| `MediaForwarding` | who consumes which Producer | `server/src/Room.ts`, `Peer.ts`, `BroadcasterPeer.ts`, `Bot.ts` |
| `NetworkThrottle` | the throttle of the machine's network | `server/src/Server.ts`, `index.ts` |
| `BroadcasterApi` | the HTTP API and the programs that call it | `server/src/ApiServer.ts`, `Room.ts`, `BroadcasterPeer.ts`, `broadcasters/*.sh` |
| `Broadcaster` | one run of the Node broadcaster, and how it ends | `broadcaster/src/index.ts`, `Broadcaster.ts`, `mediaClients/` |
| `ThrottleFlags`, `BroadcasterEnd`, `ProducingStore` | state and promise of `NetworkThrottle`, `Broadcaster`, `ClientProducing` | (as theirs) |
| `ClientSession` | the web client's connection, transports and `_joinRoom()` | `app/src/RoomClient.js`, `server/src/Peer.ts` |
| `ClientProducing` | its microphone, webcam and screen sharing | `app/src/RoomClient.js`, `components/Me.jsx`, `redux/reducers/` |
| `ClientConsuming` | what it makes of the messages about peers and Consumers | `app/src/RoomClient.js`, `redux/reducers/` |
| `ConsumerPausing` | who pauses a Consumer, from the server to what the user sees | `server/src/Peer.ts`, `app/src/RoomClient.js`, `components/Peer.jsx` |
| `AiortcClient` | the Node client, which asks and waits where the web client tells | `aiortc/src/RoomClient.ts` |
| `MC…`, `*.cfg` | the instances TLC checks | |
| `…_proofs` | the theorems and their proofs | |

Run one with `tlc -config RoomMembership.cfg MCRoomMembership`, check a proof
with `tlapm RoomMembership_proofs.tla`.

## 1. The system

### Components

**Room, Peer, BroadcasterPeer** (membership).  A `Room` keeps four Maps by peerId:
`#joiningPeers`, `#peers`, `#joiningBroadcasterPeers`, `#broadcasterPeers`.  A
`Peer` is a WebSocket (protoo) connection, a `BroadcasterPeer` is driven by HTTP
requests; each has `#closed`, `#joined`, its transports, Producers and Consumers,
and a Peer a timer that closes it unless it joins.  An arrival with a known peerId
closes the object that holds it (`mayCloseExistingPeer`).  Correct when: at most one
live object holds a peerId; every live object is where `close()`, the API and the
next arrival look for it; a closed Room is empty; a deserted Room closes and a used
one does not; every joined Peer knows the other participants.

**Room, Peer, BroadcasterPeer** (media).  `produce` and `produceData` requests make
Producers, which are piped to a second Router when the Room has two
(`usePipeTransports`), announced, and consumed by every other joined Peer
`1 + consumerReplicas` times; a joining Peer consumes what is there.  Correct when:
nothing is consumed twice, nothing is missed, no client is asked to consume from
somebody it does not know, and a Consumer goes with its Producer.

**Bot.**  One DataProducer of the Room itself, which every Peer that joins consumes.
The Peers' own `bot` channel reaches the Bot only.

**Server** (registry).  `#roomQueues` maps a roomId to a `roomData`, an AwaitQueue
and perhaps a Room.  `getOrCreateRoom()` pushes a task that returns the Room or
creates it in several awaits, on Workers picked by a round robin.  Correct when: one
open Room per roomId, the table agrees with the Rooms, nobody is handed a closed
Room, and every request is answered.

**Server** (throttle).  `#networkThrottleEnabled`, `#networkThrottleEnabledByRoomId`
and an AwaitQueue of tasks that apply or stop a throttle of the machine's network,
which outlives the process.  Correct when: a throttled network is not forgotten,
requests settle, and the closure of the Room that applied it, of the Server or of the
process stops it.

**Workers.**  `createWorkersAndWebRtcServers()` starts `numWorkers` mediasoup Workers
in sequence; the death of one closes the Server and emits `died`.

**WsServer, ApiServer.**  They validate requests, find the Room (by an event with
callbacks that `Server` answers), and hand it the connection or the HTTP request.
Their own state is none.  The API's handlers in `Room` and `BroadcasterPeer` await the
Worker, and each request has a connection of its own, so that requests of one program
may overtake each other.  Correct when: a BroadcasterPeer that was deleted stays
deleted, and takes its transports with it.

**Process** (`index.ts`).  Signals, the Server's `closed` and `died`, and the exits.

**TerminalServer, TerminalClient.**  A console to inspect the server's objects.

**Web client** (`app/src/RoomClient.js` and the redux store).  protoo-client opens a
WebSocket, and again when it was lost; each `open` starts a `_joinRoom()` that awaits
capabilities, transports, the microphone's permission and `join`, and then enables
what it produces.  Each source has a slot (`_micProducer`, `_webcamProducer`,
`_shareProducer`, `_sendTransport`, ...) that is read before an await and written
after it.  `newConsumer`, `consumerClosed` and the like wait in an AwaitQueue,
`newPeer` and `peerClosed` are handled at once.  Correct when: the store shows the
peers, Producers, Consumers and pauses that the server has, whatever is in a slot can
be closed, and nothing is in progress for ever.

**Web user interface.**  It renders the store; its buttons are enabled or disabled, and
act, by what the store holds, which is not always what the client's slots hold.

**aiortc client.**  A client for Node that speaks the protocol of an earlier server,
without a queue: `closeProducer`, `pauseConsumer` and the like are *requests*, and the
slot is emptied, or the Consumer paused, when the answer is there.  Rejections
that nobody handles end its process.

**Broadcaster.**  A command line program that creates a BroadcasterPeer, may send a
media file through ffmpeg or gstreamer (media clients with a subprocess each), and is
closed by signals and by errors.  Correct when: its end leaves neither a
BroadcasterPeer nor a subprocess, and comes.

**Shell broadcasters.**  Scripts that send or receive media with `set -e` and a trap
that sends the DELETE.

**Deployment, scripts for trying things out.**

### How they interact

The server is one Node process with one event loop.  Components call each other
through EventEmitters, whose listeners run *synchronously*: `Peer.close()` runs the
Room's `closed` listener before it returns, which may delete entries and schedule
`mayClose()`.  So a turn of the event loop is atomic and its inside is ordered, and
that order is much of what can go wrong.  What is awaited (Worker requests, throttle
commands, answers of clients, `AwaitQueue.push()`) resumes in a later turn, when
anything may have happened.  mediasoup Workers are other processes: they answer the
requests of a Router in order, and report closures by events.  Clients send requests
and notifications over a WebSocket, in order.

### What is hard

- arrival, replacement, join, leave and timers of several connections with the same
  peerId, in any order, with Maps keyed by peerId and not by object;
- the closing check, a `setImmediate()` later than the leave that asked for it;
- creation of a Room across awaits, with queued requests, failures and closures;
- join, produce and pipe overlapping: each Producer must be consumed once;
- closures crossing creations;
- messages that overtake each other in the client, for some go through a queue;
- slots that are read before and written after an await, with buttons, lost devices,
  lost connections and second calls in between;
- a `_joinRoom()` that goes on beside that of the next connection;
- three pauses of one Consumer (server, Producer, user) crossing each other;
- requests of one program that overtake each other, signals in the midst of them;
- a queue whose tasks push on the queue they run in;
- a process that exits with work still to do on the machine.

`PROJECT.json` lists each of these hazards with its line and with the properties that
would catch it.

## 2. Modelling conventions

An action is one turn of the event loop: a handler with every listener that it calls.
Where a turn leaves microtasks behind (an AwaitQueue that goes on, a `.then()`), these
are actions of their own (`Run`, `Start`, `Recorded`) that no other turn overtakes
(`Turn`).  An await splits a handler in two actions, and a failed await is a disjunct.
Media, capabilities, names and options are reduced to what the properties tell apart.
AwaitQueue, protoo and mediasoup are dependencies: they are modelled from how the
code uses them and the map marks the definitions that stand for them alone as external.
Operators with `Mutant:` in their comment are wrong variants of a definition of the
code, kept to show that a property notices the difference; no specification uses them.
Variables marked `history` exist for the properties only and no guard reads them.

## 3. The modules and the code

**RoomMembership.**  `Conn` is the set of objects ever created: a client that
reconnects is a new object with the old peerId.  The four Maps are four functions
from `PeerId`; `closed`, `joined`, `class` and `id` are the objects' fields;
`creating` and `transports` are the transports awaited and recorded; `closeCheck` is
the pending `setImmediate()` of `mayClose()`.  `roster[c]` is what c's client knows
after the answer to `join`, `newPeer` and `peerClosed`.  Actions:
`ProcessWsConnection`, `CreateBroadcasterPeer` (both with `Replace`), `Join`,
`JoinBroadcaster`, `ProtooClose`, `JoinTimeout`, `TransportFail`,
`DisconnectBroadcaster`, `RequestTransport`, `TransportSettled`, `Shutdown`,
`CloseCheck`.

**RoomPresence.**  Each peerId is absent, joining or joined, and no step of one changes
another.  `RoomMembership!Presence` reads this register off the four Maps, and
`ImplementsPresence` says that every behaviour of the Room is one of RoomPresence.

**RoomRegistry.**  A request names the roomData and the Room that it makes.  `queue[d]`
holds the tasks of roomData d, the running one first, and `stage[d]` the await that
one is in; Workers are numbers, as in the code, for the round robin counts.  Actions:
`GetOrCreateRoom`, `Run`, `RouterCreated`, `CreationFailed`, `RoomCreated`, `CloseRoom`,
`CloseServer`.

**MediaForwarding.**  A Producer is a value with an owner and the `stage` of its
`produce()`; `dead` is what the Worker closed; a Consumer is a Peer, a Producer and a
number of copy, with a state.  `consumes` counts how often `consume()` got past its
guards.  Participants are objects here: RoomMembership says who replaces whom.
Actions: `CreateConsumerTransport`, `Join`, `JoinBroadcaster`, `Produce`,
`ProduceSettled`, `PipeResolved`, `PipeRejected`, `ConsumeSettled`, `ClientAccepts`,
`ProducerClosed`, `CloseProducer`, `Leave`, `CloseRoom`.  `PipeRejected` sets `ended`:
`pipeToRouter()` is awaited in an event listener whose promise nobody handles, so its
rejection ends the process.

**NetworkThrottle.**  `tasks` is the AwaitQueue with the phase of its running task;
`active` is the state of the machine's network, which the code only knows through
its flags.  Actions: `OpenRoom`, `Apply`, `Stop`, `Start`, `Started`, `Recorded`,
`Stopped`, `CloseRoom`, `Terminate`, `WorkerDied`.  A `throttle.start()` or `stop()` runs
several system commands, so that one that fails leaves the network throttled or not;
`leftover` remembers that a start left it so.  The secret is checked before
anything happens, so only accepted requests are modelled.

**ClientConsuming.**  The web client is the system and the server its environment: it
sends what `Room` and `Peer` send to one joined Peer, in order (`wire`).  `tasks` is
the client's AwaitQueue, `consumers` its two Maps, `peers` and `stored` the store;
a reducer that throws leaves the store as it was and is remembered in `thrown`.  An
update stands for the three notifications that write a Consumer's entry.  `cut`
remembers the DataConsumers that a closing DataChannel took from the Map.  Actions of
the server: `PeerJoins`, `PeerLeaves`, `PeerReplaced`, `Consume`, `ConsumerCreated`,
`ProducerClosed`, `ConsumerUpdated`; of the client: `JoinRoom`, `Disconnected`,
`ReceiveAboutPeer` (at once), `ReceiveAboutConsumer` (to the queue), `Consumed`,
`DataConsumed`, `ConsumeFailed`, `RunClosed`, `RunDataClosed`, `RunUpdate`,
`ChannelClosed`.

**ClientSession.**  `calls` is the bag of the async functions under way, each with the
await it is in and the WebSocket through which it asked; an answer comes through that
WebSocket or never.  `slot` is `_sendTransport` and `_recvTransport`, `alive` the
transports that are not closed, `peer` the server's Peer of the current WebSocket.
Actions: `Join`, `Open`, `Disconnected`, `ProtooClosed`; one per await of `_joinRoom()`
(`DeviceCreated`, `CapabilitiesKnown`, `MicGranted`, `TransportCreated`, `Joined`,
`JoinFailed`); `ProduceData`, `TransportConnected`, `DataProduced`, `EnableDataFailed`;
`RestartIce` and its answers; `ChangeDisplayName`; `Handle`, the server's turn.
`overlapped` remembers that a `_joinRoom()` began while another was under way.

**ClientProducing.**  Again `calls` is a bag of awaits; `slot[s]` is the Producer of
source s, `shown` and `muted` the store's producers, `progress` its two flags, `cookie`
what it keeps of the webcam, `served` and `paused` the server's Peer, `notices` what is
under way to it. There is an action per await of `enableMic()`, `enableWebcam()`,
`changeWebcam()` and `enableShare()`, and one for what each button does, with the guard
that Me.jsx gives the button; further `TrackEnded`, `JoinRoom`, `Disconnected`,
`Produce` and `Notified` (the server).

**ConsumerPausing.**  `producerPaused` is the pause of the Producer, `paused` that of the
server's Consumer (which begins paused and is resumed when the client has accepted),
`halted` that of the client's object, `locally` and `remotely` what the store shows.
Two FIFO channels join the two sides: the client's queue keeps the order, and is
part of the one.  Actions: `Consume`, `PauseProducer`, `ResumeProducer`,
`CloseProducer`, `Serve`; `NewConsumer`, `NewConsumerFailed`, `ConsumerPaused`,
`ConsumerResumed`, `ConsumerClosed`, `EnableAudioOnly`, `DisableAudioOnly`, `WishLayers`.

**BroadcasterApi.**  `done[p]` says how far program p got in its list of requests,
`requests` which of them are under way and where (sent, in the Worker, answered), in no
order.  `held` is `#transports` of a BroadcasterPeer, `alive` what the Worker has,
`observed` the Producers that the Room knows.  A script ends by `set -e`, a signal or
the end of its list, and its trap sends the DELETE; the Node program's `close()` does.

**Broadcaster.**  `at` and `done` are where `run()` is; `started`, `forced`, `closed` and
`deleting` are the flags and promises of the termination; `client` and `media` the
media client and its subprocess; `missed` remembers that the termination began before
`create()` had returned.  The server is any server: each request succeeds or
fails.

**AiortcClient.**  `sent` holds the requests of the connection, which its server serves
in order, and `lost` those of former connections, each of which times out.  `slot`, `alive`,
`muted`, `paused` are the client's objects, `server` what the server has of them.  Each
function of the terminal's is an action, each answer another (`Produced`,
`ProducerClosed`, `ConsumerPaused`, ...), and `Refused` and `TimedOut` do what the
rejection of each does: close the client, end the process, or a flag.  `crashed` is a
rejection that nobody handles.  The server is not in the repository and is external.

## 4. What is checked

| run | instance | distinct states | shows |
| --- | --- | --- | --- |
| `RoomMembership` | 3 objects, 2 peerIds, 1 transport | 260,900 | objects, rosters, nobody in a closed Room; refinement of RoomPresence; a Peer joins or closes; a deserted Room closes |
| `RoomRegistry` | 3 requests, 2 roomIds, 3 Workers | 39,014 | exact table, balanced Workers, answers |
| `MediaForwarding` | 2 Peers, 1 broadcaster, a Producer with a replica, the Bot | 682,946 | consumed once, not missed, owner known, no Consumer outlives its Producer |
| `NetworkThrottle` | 2 Rooms, 1 apply, 2 stops, failures, a dying Worker | 1,170 | forgotten only after a failed start; requests settle; closure stops an idle throttle |
| `NetworkThrottle_repeated` | 2 applies | (violation) | the queue waits for itself |
| `ClientConsuming` | 1 other Peer, a Consumer, a DataConsumer, 5 arrivals or leaves, 2 sessions | 373,569 | the store, the Maps and the server agree; closed Consumers leave both |
| `ClientProducing` | 3 calls at once, 2 Producers, 2 sessions | 206,260 | store, slots and server agree; progress ends |
| `ClientSession` | 2 WebSockets, 4 transports, 1 change of name | 373,513 | connected means joined; transports are reachable; a session settles |
| `ConsumerPausing` | an audio and 2 video Consumers, 2 pauses of Producers | 2,907,904 | what is shown is what is forwarded |
| `BroadcasterApi` | a sender, a receiver, the Node program | 2,727,114 | deleted for good; leaks bounded; a script serves media or ends |
| `Broadcaster` | 2 signals, with a media file or without | 661 | nothing left behind; termination ends |
| `AiortcClient` | the webcam, 1 Consumer, 2 calls, 2 connections, 3 Producers | 1,055,758 | slots and server agree; progress ends |

Six more configurations have no passing property: they show what section 6 tells
(`RoomMembership_disconnected`, `NetworkThrottle_starting`, `NetworkThrottle_died`,
`NetworkThrottle_other_room`, `ClientConsuming_reducers`, `BroadcasterApi_transports`).
Each module has a `TypeOK`; it is proved where there are proofs, and is not in the
configurations, where a few more properties that the theorems establish are left out too
(`EveryLiveObjectRegistered`, `DesertedRoomIsChecked`, `OneOpenRoomPerId`,
`TasksHaveTheirEntry`, `PipesJoinWorkers`).

*Bounds.*  Three objects of two peerIds give a participant a connection and its
replacement in the presence of another, or a connection replaced twice, and either
class may replace the other (more objects are left to the theorems); one transport gives a closure during its creation and a failure after it.
Three requests give a creation, a request queued behind it, and one that comes after
a failure or closure; three Workers make the round robin wrap inside and between
creations with two picks.  (`usePipeTransports` with fewer than two Workers is refused
at once; `GetOrCreateRoom` has the branch, the instance does not take it, the
theorems cover it.)  Two Peers and a broadcaster give a producer of each class and a Peer
that joins before, during and after the announcement; the
Bot's DataProducer takes the data path and has no owner; a replica gives a Producer two
Consumers in one Peer, whose creations and closures interleave.  For the
throttle, one apply with two stops overlaps a start and a stop with further requests
and closures; a second apply is a run of its own because it never settles
(section 6).  One other Peer is enough for the client, because no message about one
peerId touches what the store holds of another; five of its arrivals and leaves let it
go and come back twice while a Consumer of its first stay is in the queue; a second
session begins with what the first left behind.

Of what the web client produces, two Producers are enough for one to be closed, or
overwritten in its slot, while another is made, and three calls for a function to run
beside itself and beside another source's.  Two WebSockets give a `_joinRoom()` that
outlives its own, and four transports both of them both directions.  Two video
Consumers make audio-only mode meet one that the Producer's side paused and one that it
did not; two pauses or resumptions of Producers let each cross `newConsumer`, its answer and the
user's.  For the API one program of each kind is enough, for they share nothing but
the Room and the Producers of the sender.  A broadcaster ignores every signal after its first, so two are enough.  For the
aiortc client two calls let each function of the terminal's run beside itself or
another, on top of what a join starts; three Producers let one be made after an
overwritten one; the microphone is left out of the instance, for it has the webcam's code
without the progress flag.

`MaxApply`, `MaxStop`, `MaxPeerEvents`, `MaxSessions`, `MaxCalls`, `MaxProducers`,
`MaxTransports`, `MaxNames`, `MaxChanges`, `MaxSignals` and `MaxOpens` bound counters, and
`MaxWire` how many messages may be under way when a *button* is pressed (what the
program sends by itself is not bounded); `consumes` and `picks` stay finite by the
finite sets of requests.

*Deadlock* is not checked: everyone may have left, everything may have been asked, the
process may have ended.  What must not stop is stated as a liveness property.

*Symmetry* is not used: most runs check liveness.

*Fairness.*  `RoomMembership`: Node runs its timers and `setImmediate()` callbacks.
`RoomRegistry`: queues run their tasks, and a Worker answers a request or, when it
dies, mediasoup rejects it.  `MediaForwarding`: the same for `consume()`, and a Worker
tells a Consumer that its Producer closed.  Nothing is assumed of clients: a
`newConsumer` request may stay unanswered.  `NetworkThrottle`: microtasks run, and a
throttle command ends, one way or the other.  `ClientConsuming`: messages arrive while the
connection lasts, `recvTransport.consume()` settles, and the queue runs its tasks.
`ClientProducing` and `ClientSession`: what a function awaits settles, for devices and
the user answer, and protoo rejects a request that is not answered.  `AiortcClient`: the
same.  `Broadcaster`: HTTP requests end, by an answer or an error, and a subprocess that
is told to end does; one that nobody tells need not.  `ConsumerPausing` and
`BroadcasterApi` have safety properties only.  No call of a user, no signal and no
choice of a failure is fair.

### The properties

*RoomMembership*: `OneLiveObjectPerId`, `RosterComplete`, `StaleOnlyIfReplaced` (a Peer
lists somebody who is gone only when a joined connection was replaced silently and its
successor has not joined), `NoOneInClosedRoom` (whoever comes between a leave and the
closing check: above all the Peer that replaces the last one, which is registered after
the old one's leave has asked for the check), `EveryPeerJoinsOrCloses`,
`DesertedRoomCloses`, `ImplementsPresence`.

*RoomRegistry*: `TableHoldsOpenRooms`, `HandedRoomsAreOpen`, `NoRoomAfterClose`,
`PicksAreBalanced`, `EveryRequestAnswered`.

*MediaForwarding*: `ConsumedAtMostOnce`, `NothingMissed` (for a Peer that had its
consumer transport when it joined, as the web client does), `ToldBeforeAsked`,
`NoLastingOrphan`.

*NetworkThrottle*: `ActiveIsRecorded` (a throttled network is remembered by the flag or
by the stop that runs, unless a start that failed half way left it so),
`EveryRequestSettles`,
`ClosureStopsIdleThrottle`; and, violated, `ClosureStopsThrottle`,
`DeathStopsIdleThrottle`, `OwnerClosureStops`.

*ClientConsuming*: `ListedIsKnown` (what the store lists for a peer is where the next
message looks for it), `NothingHidden` (once all messages are handled, a live Consumer
of a Peer that is there is listed), `ClosedConsumerLeaves` (a closed Consumer leaves the
Maps and the peers' lists, but for a DataConsumer whose channel closed first, which
stays listed); and, violated,
`NoReducerThrows`.

*ClientProducing*: `StoreShowsServer` (when nothing is under way, the store and the
server agree, even after an overlap), `ShownIsInSlot` (what is shown can be closed,
unless a source was enabled while it was being enabled: the audio-only button and a
reconnection do that), `ProgressEnds` (a share that yields no stream is the one
exception, for the code sets the flag there).

*ClientSession*: `ConnectedIsJoined` (of the *current* WebSocket, though the `_joinRoom()`
may be that of an earlier one), `TransportsAreReachable` (unless two overlapped, when
the first one's transport is overwritten and stays open), `NameIsKnown`,
`SessionSettles`.

*ConsumerPausing*: `ShownIsForwarded`, `PausesAreToldApart`.

*BroadcasterApi*: `ForgottenForGood`, `LeaksAtMostOne` (the transport that was being
created at the closure does leak), `MediaIsServed`, `PlayerIsKilled` (unless the DELETE
failed: under `set -e` the trap does not get to its `kill` then); and, violated,
`TransportsAreAccepted`.

*Broadcaster*: `LeavesNothing` (unless the DELETE failed, or the program was told to end
before `create()` had returned), `TerminationEnds` (unless the media client was added
after `close()` went through the set: its subprocess outlives the termination).

*AiortcClient*: `AliveIsInSlot` and `ServerAgrees`, with the overlaps in which they fail
as antecedents, and `ProgressEnds`.

Several of these state an exception, because the code does not do better: `overlapped`,
`leftover`, `cut`, `missed`, a DELETE that failed, an orphaned subprocess, a cancelled
share.  Such a property does not rule the defect out: it says that this is the only way
to it.  Section 6 lists them.

Each property of a passing run has a mutant in `PROJECT.json`: a variant of a
definition, such as the code with a plausible mistake, under which TLC finds the
property violated.

## 5. What is proved

Every theorem has the form `Spec => []Inv` or `Spec => [][A]_vars`, or states the
refinement of a specification (`Spec => ImplementsPresence`), and holds for all
values of the constants, under the assumptions named in the modules: the empty
values are none of the others, the kinds of participants and Producers are disjoint,
`NumWorkers` is at least one, bounds are natural numbers.  The sets need not be finite,
but for the Consumers of the aiortc client: audio-only mode asks for a pause of each of
them, and the requests are a sequence.

- **RoomMembership_proofs.**  `Registry` is inductive: types, `ObjectsSound` (unborn
  objects are neither joined nor closed), `MapsSound` (an entry is a live object of the
  Map's class and state under its own peerId), and the three properties it needs itself.
  `MapsSound` is why deleting by peerId is safe: the entry deleted is the object's own.
  The key lemma is `ReplacedIsTheHolder`: the search of `mayCloseExistingPeer()`, in an
  order with early exits, finds exactly the live object of the peerId, because there
  is at most one.  `Rosters` adds what Peers were told.  Theorems: `RegistryHolds`,
  `TypeCorrect`, `OneObjectPerPeerId`, `NoObjectLost`, `ClosedRoomIsEmpty`,
  `RostersAreComplete`, `StaleMeansReplaced`, `DesertedMeansChecked`.  `RoomImplementsPresence` is the
  refinement: under `Registry` an arrival, a join, a departure and the closure of the
  Room are each one step of the register of `RoomPresence`, an arrival that replaces an
  object included (the object that leaves and the one that comes are the same peerId's,
  by `ReplacedIsTheHolder`), and every other action is a stutter.
- **RoomRegistry_proofs.**  Of the registry, `Consistent` ties table, queues, creations,
  Rooms and Workers: a queued task's roomId still leads to its roomData, a creation runs
  only where there is no Room, and a Room and its roomData point to each other.  `Rotated` gives the
  round robin its closed form: Workers below `nextWorkerIdx` were handed out once more
  than the others.  Theorems: `ConsistencyHolds`, `TypeCorrect`, `OneRoomPerId`,
  `TableIsExact`, `TheCheckIsVacuous`, `ClosedForGood`, `PipesHaveTwoEnds`,
  `OnlyOpenRooms`, `Balanced`.  Of the throttle (`NetworkThrottle`, the instance `Net`),
  only the head of the queue has begun, and while a stop runs the flag is down, so
  that nothing else raises it; the flag is owed (`Kept`) while the network is throttled and
  no failed start left it so.  Theorems: `ThrottleHolds`, `ThrottleTypes`,
  `ThrottleIsRemembered`; they hold for repeated applies as well.
- **MediaForwarding_proofs.**  The invariant says that `consume()` got past its guards only
  for a Peer that has joined and a Producer that is announced (`Counted`), which a
  `join` and an announcement each make true once and only once; that the owner of a
  Producer that is not closed is present; and that joined Peers know all who are
  joined.  Theorems: `ForwardingHolds`, `TypeCorrect`, `NoDoubleConsumption`,
  `NoMissedProducer`, `OwnersAreKnown`.
- **ConsumerPausing_proofs.**  What both sides show is only right once nothing is under
  way, so the invariant, `Agreement`, speaks of the messages that are: for each Consumer
  and each kind of message the *last* one in a channel agrees with what its sender has,
  and where there is none the two sides agree.  That is why the order of a Producer's
  pause, the user's pause and the answer to `newConsumer` does not matter.  The lemmas
  on channels (`AppendedMessage` and its like) say how the last message of a kind changes
  when one is sent or read.  Theorems: `ChannelsAgree`, `TypeCorrect`,
  `ShownMediaIsForwarded`, `EachPauseIsToldApart`.
- **BroadcasterApi_proofs.**  A program has one request of its plan under way at most
  (`InOrder`), so that what it was told of, the server has while its BroadcasterPeer is
  there; a DELETE comes only after the answer of the POST, which is why no overtaken
  request makes a BroadcasterPeer again; and a transport that settles after the closure
  is the last one its program asks for.  Theorems: `ServedInvariant`, `TypeCorrect`,
  `ForgottenStayForgotten`, `OneTransportLeaks`, `MediaStaysServed`, `NoPlayerForgotten`.
  Of the Node program alone (`Broadcaster`, the instance `Run`), whatever the server
  answers: `close()` runs on a BroadcasterPeer that was made, and no request after the
  second of `run()` makes one (`MadeOnce`), so that it stays only if the DELETE fails
  or `close()` was never called, which needs a signal or an error before `create()` had
  returned (`ClosedForGood`, `RunInOrder`); and a subprocess that nobody told to end is awaited, so that the
  process does not exit before it (`RunEnds`).  Theorems: `RunIsSound`, `NothingLeft`.
- **ClientConsuming_proofs.**  The messages about peers overtake those about Consumers,
  which wait in a queue.  `InStep` says what is left of the server's order: what it sent
  about the owner of a Consumer came before the `newConsumer`, and was handled before
  that one is (`OrderSound`), a joined Peer is in the store or will be (`PeerSound`), and
  a live Consumer is listed, queued or on the wire (`ShownSound`), but for the orphans, whose
  owner left during their creation.  Theorems: `StoreInStep`, `TypeCorrect`,
  `ListedStaysKnown`, `NothingStaysHidden`.
  Of what the client produces (`ClientProducing`, the instance `Me`), `SelfInStep` compares
  the store with what the server *will* have: its Producers but for those that a `close`
  under way names, of which the store shows all but the one whose `produce` was answered
  and not read (`ServerSound`); the last notification about a Producer says whether it is
  paused, and without one the server does (`PauseSound`).  That holds even where a source
  was enabled twice at once; `AloneSound`, that a source has one call and an empty slot
  while it awaits, is for the other case and for `ShownIsInSlot`.  Theorems: `ProducingInStep`,
  `StoreFollowsServer`, `ShownCanBeClosed`.
- **ClientSession_proofs.**  A `_joinRoom()` outlives its WebSocket.  `CallSound` says what
  a call under way may rely on, whatever runs beside it: an answer is of the current
  WebSocket or never comes, so a `_joinRoom()` whose `join` was answered has joined the
  Peer of *this* WebSocket, and the transport of a DataProducer is not closed.
  `KindsApart` keeps transports for sending and for receiving apart, which the closure
  of a slot's transports needs.  `AloneSound` is what holds besides when no two
  `_joinRoom()` met: a slot is empty until it is filled, hence nothing is overwritten.
  `NameSound` follows the last message that carries the display name.  Theorems:
  `SessionInvariant`, `TypeCorrect`, `ConnectedMeansJoined`, `NoTransportIsLost`,
  `NameReachesServer`.
- **AiortcClient_proofs.**  Here the client asks first and changes its slot when it is
  answered, so a property about quiet states is inductive only together with the
  requests that wait.  `Base` says what those are about (a Producer that was made, a
  Consumer that was there) and that a lost connection leaves nothing with the server.
  `Agree` compares client and server over a sequence of requests: the server has the
  client's Producers and those that a waiting `closeProducer` names, and the last
  waiting request about a Producer says whether it is paused; `ServerSound` maintains it
  until the server refuses something, through every loss and reconnection.  `Alone` says,
  unless calls overlapped, that a medium has one waiting request that touches its slot, and
  that the slot is empty while one is made and full while one is closed; the store's pauses
  (`StoreSound`) depend on it, because the answer looks for the Producer in the slot.
  Theorems: `ClientInStep`, `TypeCorrect`, `AliveStaysInSlot`, `ServerWillAgree`.

Each inductive invariant was first checked by TLC, on an instance of its module's
configuration.

`RoomRegistry_proofs`, `BroadcasterApi_proofs` and `ClientConsuming_proofs` each speak of two
specifications of one part of the system.  They extend the first and instantiate the second
with variables of its own, so that neither says anything of the other.  The variables that
the second one's invariants speak of, and these invariants, are in a module that both the
second and the proofs extend (`ThrottleFlags`, `BroadcasterEnd`, `ProducingStore`), so that the
runs and the theorems state the same definition.  An assumption on the constants of the
second (`Net!BoundsAssumption`, `Run!SignalsAssumption`, `Me!BoundsAssumption`: the bounds
are natural numbers) is a hypothesis of its theorems instead of a fact of the module.

Only model-checked: liveness under fairness (out of the proof system's reach:
`EveryPeerJoinsOrCloses`, `DesertedRoomCloses`, `EveryRequestAnswered`, `NoLastingOrphan`,
`EveryRequestSettles`, `ClosureStopsIdleThrottle`, `ClosedConsumerLeaves`, `ProgressEnds`,
`SessionSettles`, `TerminationEnds`).  Every safety property of the passing runs is proved.

## 6. Where code and comments disagree

1. **`disconnected` of a Peer that never joined.**  `Peer.ts:69` says the event is only
   emitted if the Peer was joined.  The transport listeners do not look at `#joined`: a
   client whose transport fails before `join` makes the others hear `peerClosed` of
   somebody they were never told about (`RoomMembership_disconnected`, `DisconnectedOnlyIfJoined`).
2. **The throttle queue waits for itself.**  The task of `applyNetworkThrottleInternal()`
   awaits `stopNetworkThrottleInternal()`, which pushes on the same queue.  A second
   apply while the throttle is enabled never settles, nor does anything after it
   (`NetworkThrottle_repeated`).
3. **Closure during a start.**  `Server.close()` looks at a flag that is set only when
   the start resolves, so a network whose throttle is just being applied stays throttled
   (`NetworkThrottle_starting`, `ClosureStopsThrottle`); `index.ts:149` counts on the closure to stop it.
4. **Death of a Worker.**  The Server's `closed` makes `index.ts` forget it before `died`
   asks whether the throttle is enabled: `process.exit()` follows at once, with the
   stop under way (`NetworkThrottle_died`, `DeathStopsIdleThrottle`).
5. **Any Room's closure forgets the owner.**  The `closed` listener of every Room clears
   `#networkThrottleEnabledByRoomId`, so the Room that applied the throttle no longer
   stops it when it closes (`NetworkThrottle_other_room`, `OwnerClosureStops`).
6. **A reducer finds no peer.**  `peers.js:42` throws "no Peer found for new Consumer",
   and `peers.js:59` "Consumer not found".  Both happen: `newConsumer` and
   `consumerClosed` wait in a queue while `peerClosed` and `newPeer` are dispatched at
   once, and the server sends a `newConsumer` whose owner left during its creation.
   The Consumer is then in `_consumers` but not in the store, and the request is
   not accepted (`ClientConsuming_reducers`, `NoReducerThrows`); after "Consumer not found" its entry stays
   among the store's consumers, where no peer lists it.  What the user sees is right all
   the same: `NothingHidden` and `ListedIsKnown` hold, and no peer goes on listing a closed
   Consumer, but for item 8.
7. **The broadcaster's transports.**  `broadcaster/src/signaling/apiMessages.ts:63-67` gives
   `createPlainTransport` a body with the direction in `appData`, and
   `Broadcaster.ts` sends it so; `ApiServer.ts:280` reads it at the top of the body, where the
   scripts put it.  It is undefined, `Room.ts` rejects it, and every such request of
   the Node broadcaster is answered with an error (`BroadcasterApi_transports`,
   `TransportsAreAccepted`).

8. **A DataConsumer that stays listed.**  When its DataChannel closes,
   `RoomClient.js:523-527` deletes it from `_dataConsumers` and leaves the store alone; the
   task of `dataConsumerClosed` (`RoomClient.js:846-858`) finds nothing in the Map then and
   returns before it dispatches `removeDataConsumer`.  The peer lists it until it leaves, or
   the session ends (`cut`, the exception of `ClosedConsumerLeaves` and `ListedIsKnown`).
9. **A start that fails half way.**  `throttle.start()` runs several commands;
   `Server.ts:481-491` logs and rethrows, cleans nothing up and leaves the flag false, so
   that no closure stops what it left: only a request to stop it does, or a start that
   succeeds makes it known again (`leftover`, the exception of `ActiveIsRecorded`).
10. **A signal during `create()`.**  `index.ts` calls `broadcaster?.close()` with `broadcaster`
   undefined (`index.ts:105`) and ignores every later call, though the server may already
   have the BroadcasterPeer (`missed`, the exception of `LeavesNothing`).

The second is a run of `PROJECT.json`; items 1 and 3 to 7 are found by TLC with the
configurations named, and items 8 to 10 are exceptions that properties state.  Further
exceptions, where no comment of the code says otherwise:

- two calls for one source at once leave a Producer out of the slot (`RoomClient.js:903`,
  `RoomClient.js:1670`; `ShownIsInSlot`), and so do overlapping calls of the aiortc client
  (`RoomClient.ts:759`; `AliveIsInSlot`);
- two `_joinRoom()` at once overwrite a transport (`RoomClient.js:325`;
  `TransportsAreReachable`);
- a share that yields no stream stays in progress (`RoomClient.js:1449`; `ProgressEnds`);
- a PlainTransport that was being created outlives its BroadcasterPeer
  (`BroadcasterPeer.ts:382`; `LeaksAtMostOne` bounds this at one);
- the trap's DELETE that fails leaves the BroadcasterPeer and ffplay
  (`ffmpeg.sh:105`, `ffmpeg-receiver.sh:144`; `PlayerIsKilled`);
- a media client that is added after `close()` leaves its subprocess (`Broadcaster.ts:305`;
  `TerminationEnds`).

`EveryRequestSettles` is both a property that holds with one apply and the one that
the second apply violates: the passing run shows that nothing else breaks it.

## 7. What is not modelled, and the plan

Not modelled:

- statistics, scores, priorities and the observers of volume and active speaker: each
  sets or forwards a value of one object;
- chat messages, and what the Bot answers: payload;
- validation of HTTP and WebSocket requests, and the API's `getPeerProducersInfos`, which no
  program of the repository gets to;
- Worker start-up (sequential), the terminal (inspection), deployment;
- of the web client, its settings, the choice of codecs and encodings, statistics,
  `muteAudio()` and `changeWebcamResolution()`, which nobody calls; of its user
  interface, all but the buttons and the state of a Consumer;
- of the aiortc client, statistics, priorities, layers, the display name and the chat.

Some behaviours are in the models and no property speaks of them, because nothing
in the repository promises otherwise: `pipeToRouter()` that ends the server's process,
`changeWebcam()` that leaves a camera's track running when the slot was emptied in its
awaits, an `audioOnly` mode of the aiortc client that ends while a pause is being asked
for and leaves the Consumer paused.

Modules, in the order they were written:

1. `RoomMembership` with `RoomPresence`: safety and refinement proved.
2. `RoomRegistry`: safety proved.
3. `NetworkThrottle`: safety proved.
4. `MediaForwarding`: safety proved.
5. `ClientConsuming`, `ClientSession`, `ConsumerPausing`: safety proved.
6. `ClientProducing`: safety proved.
7. `BroadcasterApi`, `Broadcaster`, `AiortcClient`: safety proved.

What would come next is a composition of `RoomMembership`, `MediaForwarding` and
`ClientConsuming` on the replacement of a producing Peer, which would close the gap that the
environment of the client leaves.
