----------------------------- MODULE AiortcClient -----------------------------
(***************************************************************************)
(* The Node client of aiortc/src/RoomClient.ts, which produces and consumes *)
(* by default and is driven from an interactive terminal.  Unlike the web   *)
(* client it asks the server with requests, empties a slot (_micProducer,   *)
(* _webcamProducer) and pauses a Consumer when the answer is there, and has *)
(* rejections that nobody handles, which end a Node process.                *)
(*                                                                         *)
(* It speaks the protocol of a former server (README of aiortc/).  That     *)
(* server is external: it serves the requests of a connection in order and  *)
(* may refuse each of them.                                                 *)
(***************************************************************************)
EXTENDS Naturals, Sequences, SequencesExt

CONSTANTS
  Medium,       \* mic, webcam: the slots of the instance
  Consumer,     \* what the server may offer: each a video Consumer or a DataConsumer
  MaxCalls,     \* bound: calls from the terminal
  MaxOpens,     \* bound: connections
  MaxProducers  \* bound: Producers that the server creates

ASSUME MediumAssumption == "webcam" \in Medium /\ Medium \subseteq {"mic", "webcam"}
ASSUME ConsumerAssumption == IsFiniteSet(Consumer)
ASSUME BoundsAssumption == {MaxCalls, MaxOpens, MaxProducers} \subseteq Nat

VARIABLES
  room,     \* the store's room state
  closed,   \* _closed
  crashed,  \* a rejection was not handled: the process is over
  up,       \* the connection is open
  sent,     \* the requests of the connection that wait for an answer, in order
  lost,     \* those of former connections, which time out
  send,     \* _sendTransport is there, and open
  recv,     \* _recvTransport is there, and open
  connected, \* _sendTransport is connected, and its DataProducers were asked for
  slot,     \* slot[m]: the Producer in _micProducer, _webcamProducer, or 0
  capturing, \* capturing[m]: the calls of enableMic() etc. in getUserMedia()
  changing, \* the calls of changeWebcam() in getUserMedia()
  made,     \* made[p]: the medium of Producer p
  alive,    \* the Producer objects that are not closed
  muted,    \* those that are paused
  shownMuted, \* the Producers that the store has as paused
  progress, \* the store's webcamInProgress and restartIceInProgress
  audioOnly, \* the store's audioOnly
  consumer, \* consumer[c]: none, consuming, open, closed
  data,     \* those that are DataConsumers
  paused,   \* the Consumer objects that are paused
  server,   \* what the server has of this client
  overlapped, \* history: a medium was enabled or disabled during the same
  refused,  \* history: the server refused what it could have done
  calls, opens \* bounded counters

session == <<room, closed, up, send, recv, connected>>
wire == <<sent, lost>>
producing == <<slot, capturing, changing, made, alive, muted, shownMuted>>
consuming == <<audioOnly, consumer, data, paused>>
history == <<overlapped, refused>>
vars == <<session, crashed, wire, producing, progress, consuming, server, history,
          calls, opens>>

Producer == 1 .. MaxProducers

Joining == <<"getRouterRtpCapabilities", "createSendTransport", "createRecvTransport",
             "join">>
Request ==
       [what: ToSet(Joining) \cup {"produceChat", "produceBot",
                                "restartIceSend", "restartIceRecv"}]
  \cup [what: {"produce"}, medium: Medium]
  \cup [what: {"closeProducer", "pauseProducer", "resumeProducer"}, medium: Medium,
        id: Producer]
  \cup [what: {"pauseConsumer", "resumeConsumer"}, consumer: Consumer]

TypeOK ==
  /\ room \in {"connecting", "connected", "closed"}
  /\ {closed, crashed, up, send, recv, connected} \subseteq BOOLEAN
  /\ sent \in Seq(Request) /\ lost \in Seq(Request)
  /\ slot \in [Medium -> Producer \cup {0}]
  /\ capturing \in [Medium -> Nat] /\ changing \in Nat
  /\ made \in Seq(Medium) /\ Len(made) <= MaxProducers
  /\ alive \subseteq DOMAIN made /\ muted \subseteq alive
  /\ shownMuted \subseteq DOMAIN made
  /\ progress \subseteq {"webcam", "restartIce"} /\ audioOnly \in BOOLEAN
  /\ consumer \in [Consumer -> {"none", "consuming", "open", "closed"}]
  /\ paused \subseteq Consumer /\ data \subseteq Consumer
  /\ server \in [producers: SUBSET DOMAIN made, muted: SUBSET DOMAIN made,
                 consumers: SUBSET Consumer, paused: SUBSET Consumer]
  /\ {overlapped, refused} \subseteq BOOLEAN
  /\ calls \in 0 .. MaxCalls /\ opens \in 0 .. MaxOpens

Forgotten == [producers |-> {}, muted |-> {}, consumers |-> {}, paused |-> {}]

Init ==
  /\ room = "connecting" /\ closed = FALSE /\ crashed = FALSE /\ up = FALSE
  /\ sent = <<>> /\ lost = <<>>
  /\ send = FALSE /\ recv = FALSE /\ connected = FALSE
  /\ slot = [m \in Medium |-> 0] /\ capturing = [m \in Medium |-> 0] /\ changing = 0
  /\ made = <<>> /\ alive = {} /\ muted = {} /\ shownMuted = {}
  /\ progress = {} /\ audioOnly = FALSE
  /\ consumer = [c \in Consumer |-> "none"] /\ data = {} /\ paused = {}
  /\ server = Forgotten
  /\ overlapped = FALSE /\ refused = FALSE /\ calls = 0 /\ opens = 0

-----------------------------------------------------------------------------
(* Requests.                                                               *)

About(what) == [what |-> what]
OfMedium(what, m, id) == [what |-> what, medium |-> m, id |-> id]
OfConsumer(what, c) == [what |-> what, consumer |-> c]

\* _protoo.request(), on the connection that is open.  Without one it rejects: that
\* is a request that is lost from the beginning.
Sends(requests) ==
  IF up THEN sent' = sent \o requests /\ UNCHANGED lost
  ELSE lost' = lost \o requests /\ UNCHANGED sent

-----------------------------------------------------------------------------
(* The session.                                                            *)

\* What the closure of both transports and setRoomState('closed') do: 'transportclose'
\* of a Producer empties its slot, whichever Producer that holds.
TransportsClosed ==
  /\ send' = FALSE /\ recv' = FALSE /\ connected' = FALSE
  /\ slot' = [m \in Medium |-> IF \E p \in alive : made[p] = m THEN 0 ELSE slot[m]]
  /\ alive' = {} /\ muted' = {} /\ shownMuted' = {}
  /\ consumer' = [c \in Consumer |-> IF consumer[c] = "open" THEN "closed" ELSE consumer[c]]
  /\ paused' = {}
  /\ room' = "closed" /\ progress' = {} /\ audioOnly' = FALSE
  /\ UNCHANGED <<capturing, changing, made, data>>

\* The connection is over: its requests in s join those in l, without an answer.
ConnectionLost(s, l) ==
  up' = FALSE /\ sent' = <<>> /\ lost' = l \o s /\ server' = Forgotten

\* 'open': _joinRoom(), of the first connection and of each that follows.
Open ==
  /\ ~crashed /\ ~closed /\ ~up /\ opens < MaxOpens
  /\ up' = TRUE /\ opens' = opens + 1
  /\ sent' = <<About("getRouterRtpCapabilities")>>
  /\ UNCHANGED <<room, closed, crashed, send, recv, connected, lost, producing, progress,
                 consuming, server, history, calls>>

Disconnected ==
  /\ ~crashed /\ up /\ ConnectionLost(sent, lost) /\ TransportsClosed
  /\ UNCHANGED <<closed, crashed, history, calls, opens>>

\* close()
Close(s, l) == closed' = TRUE /\ ConnectionLost(s, l) /\ TransportsClosed

\* 'close': protoo does not reconnect any more.
ProtooClosed ==
  /\ ~crashed /\ ~closed /\ ~up /\ opens > 0 /\ Close(sent, lost)
  /\ UNCHANGED <<crashed, history, calls, opens>>

-----------------------------------------------------------------------------
(* Microphone and webcam.                                                  *)

Enabling(m) ==
  \/ capturing[m] > 0
  \/ \E i \in DOMAIN sent : sent[i].what = "produce" /\ sent[i].medium = m

Disabling(m) ==
  \E r \in ToSet(sent \o lost) : r.what = "closeProducer" /\ r.medium = m

InProgress(m) == IF m = "webcam" THEN {"webcam"} ELSE {}

\* The media in ms, of those whose slot is empty, go to getUserMedia().
Captures(ms) ==
  LET empty == {m \in ms : slot[m] = 0} IN
  /\ capturing' = [m \in Medium |-> capturing[m] + IF m \in empty THEN 1 ELSE 0]
  /\ progress' = progress \cup UNION {InProgress(m) : m \in empty}
  /\ overlapped' = (overlapped \/ \E m \in empty : Enabling(m))

Called == ~crashed /\ calls < MaxCalls /\ opens > 0 /\ calls' = calls + 1

\* enableMic(), enableWebcam(), once the Device is there.
Enable(m) ==
  /\ Called /\ slot[m] = 0 /\ Captures({m})
  /\ UNCHANGED <<session, crashed, wire, slot, changing, made, alive, muted, shownMuted,
                 consuming, server, refused, opens>>

\* getUserMedia() resolves: produce(), which needs the transport.
Captured(m) ==
  /\ ~crashed /\ capturing[m] > 0
  /\ capturing' = [capturing EXCEPT ![m] = @ - 1]
  /\ IF send THEN Sends(<<[what |-> "produce", medium |-> m]>>) /\ UNCHANGED progress
     ELSE progress' = progress \ InProgress(m) /\ UNCHANGED wire
  /\ UNCHANGED <<session, crashed, slot, changing, made, alive, muted, shownMuted,
                 consuming, server, history, calls, opens>>

\* Mutant: webcamInProgress is left set.
CaptureFailedInProgress(m) ==
  /\ ~crashed /\ capturing[m] > 0
  /\ capturing' = [capturing EXCEPT ![m] = @ - 1]
  /\ UNCHANGED <<session, crashed, wire, slot, changing, made, alive, muted, shownMuted,
                 progress, consuming, server, history, calls, opens>>

\* It rejects: the track, if there is one, is stopped.
CaptureFailed(m) ==
  /\ ~crashed /\ capturing[m] > 0
  /\ capturing' = [capturing EXCEPT ![m] = @ - 1]
  /\ progress' = progress \ InProgress(m)
  /\ UNCHANGED <<session, crashed, wire, slot, changing, made, alive, muted, shownMuted,
                 consuming, server, history, calls, opens>>

\* Mutant: the server is asked to close the Producer, which still sends.
DisableAtServer(m) ==
  /\ Called /\ slot[m] # 0
  /\ Sends(<<OfMedium("closeProducer", m, slot[m])>>)
  /\ overlapped' = (overlapped \/ Disabling(m))
  /\ UNCHANGED <<session, crashed, producing, progress, consuming, server, refused, opens>>

\* disableMic(), disableWebcam(): the slot is emptied when the server has answered.
Disable(m) ==
  /\ Called /\ slot[m] # 0
  /\ alive' = alive \ {slot[m]} /\ muted' = muted \ {slot[m]}
  /\ shownMuted' = shownMuted \ {slot[m]}
  /\ Sends(<<OfMedium("closeProducer", m, slot[m])>>)
  /\ overlapped' = (overlapped \/ Disabling(m))
  /\ UNCHANGED <<session, crashed, slot, capturing, changing, made, progress, consuming,
                 server, refused, opens>>

\* muteMic(), muteWebcam(): the object, the server, the store.
Mute(m) ==
  /\ Called /\ slot[m] # 0
  /\ muted' = muted \cup ({slot[m]} \cap alive)
  /\ Sends(<<OfMedium("pauseProducer", m, slot[m])>>)
  /\ UNCHANGED <<session, crashed, slot, capturing, changing, made, alive, shownMuted,
                 progress, consuming, server, history, opens>>

Unmute(m) ==
  /\ Called /\ slot[m] # 0
  /\ muted' = muted \ {slot[m]}
  /\ Sends(<<OfMedium("resumeProducer", m, slot[m])>>)
  /\ UNCHANGED <<session, crashed, slot, capturing, changing, made, alive, shownMuted,
                 progress, consuming, server, history, opens>>

\* changeWebcam() with a Producer in the slot.
ChangeWebcam ==
  /\ Called /\ slot["webcam"] # 0
  /\ changing' = changing + 1 /\ progress' = progress \cup {"webcam"}
  /\ UNCHANGED <<session, crashed, wire, slot, capturing, made, alive, muted, shownMuted,
                 consuming, server, history, opens>>

\* The track is replaced, or stopped: the slot may be empty by then.
WebcamChanged ==
  /\ ~crashed /\ changing > 0
  /\ changing' = changing - 1 /\ progress' = progress \ {"webcam"}
  /\ UNCHANGED <<session, crashed, wire, slot, capturing, made, alive, muted, shownMuted,
                 consuming, server, history, calls, opens>>

-----------------------------------------------------------------------------
(* Consumers and audio-only mode.                                          *)

Offered(c) ==
  /\ ~crashed /\ room = "connected" /\ recv /\ consumer[c] = "none"
  /\ consumer' = [consumer EXCEPT ![c] = "consuming"]
  /\ server' = [server EXCEPT !.consumers = @ \cup {c}]
  /\ UNCHANGED <<session, crashed, wire, producing, progress, audioOnly, paused, history,
                 calls, opens>>

\* 'newConsumer': the transport is there once the client has joined.
NewConsumer(c) == Offered(c) /\ UNCHANGED data

NewDataConsumer(c) == Offered(c) /\ data' = data \cup {c}

\* Mutant: the Consumer is paused before the server was asked.
PauseAtOnce(cs) ==
  /\ paused' = paused \cup cs
  /\ Sends(SetToSeq({OfConsumer("pauseConsumer", c) : c \in cs \ paused}))

\* _pauseConsumer(): the Consumer is paused when the server has answered.
Pause(cs) ==
  /\ Sends(SetToSeq({OfConsumer("pauseConsumer", c) : c \in cs \ paused}))
  /\ UNCHANGED paused

\* consume() resolves; a Consumer that comes in audio-only mode is paused.
Consumed(c) ==
  /\ ~crashed /\ consumer[c] = "consuming" /\ recv /\ c \notin data
  /\ consumer' = [consumer EXCEPT ![c] = "open"]
  /\ Pause(IF audioOnly THEN {c} ELSE {})
  /\ UNCHANGED <<session, crashed, producing, progress, audioOnly, data, server, history,
                 calls, opens>>

\* consumeData() resolves.
DataConsumed(c) ==
  /\ ~crashed /\ consumer[c] = "consuming" /\ recv /\ c \in data
  /\ consumer' = [consumer EXCEPT ![c] = "open"]
  /\ UNCHANGED <<session, crashed, wire, producing, progress, audioOnly, data, paused,
                 server, history, calls, opens>>

\* It rejects, as it does when the transport has closed, and the listener throws.
ConsumeFailed(c) ==
  /\ ~crashed /\ consumer[c] = "consuming" /\ crashed' = TRUE
  /\ UNCHANGED <<session, wire, producing, progress, consuming, server, history, calls,
                 opens>>

ClosedAtServer(c) ==
  /\ ~crashed /\ c \in server.consumers
  /\ server' = [server EXCEPT !.consumers = @ \ {c}, !.paused = @ \ {c}]
  /\ consumer' = [consumer EXCEPT ![c] = IF @ = "open" THEN "closed" ELSE @]
  /\ paused' = paused \ {c}
  /\ UNCHANGED <<session, crashed, wire, producing, progress, audioOnly, data, history,
                 calls, opens>>

\* 'consumerClosed', which says nothing to a client that is still in consume().
ConsumerClosed(c) == c \notin data /\ ClosedAtServer(c)

\* 'dataConsumerClosed', in the same way.
DataConsumerClosed(c) == c \in data /\ ClosedAtServer(c)

Opened == {c \in Consumer \ data : consumer[c] = "open"}

EnableAudioOnly ==
  /\ Called /\ audioOnly' = TRUE
  /\ LET p == slot["webcam"] IN
     /\ Sends((IF p = 0 THEN <<>> ELSE <<OfMedium("closeProducer", "webcam", p)>>) \o
              SetToSeq({OfConsumer("pauseConsumer", c) : c \in Opened \ paused}))
     /\ alive' = alive \ {p} /\ muted' = muted \ {p} /\ shownMuted' = shownMuted \ {p}
     /\ overlapped' = (overlapped \/ (p # 0 /\ Disabling("webcam")))
  /\ UNCHANGED <<session, crashed, slot, capturing, changing, made, progress, consumer,
                 data, paused, server, refused, opens>>

\* A Consumer whose pauseConsumer is not answered is not resumed.
DisableAudioOnly ==
  /\ Called /\ audioOnly' = FALSE
  /\ Captures({"webcam"})
  /\ Sends(SetToSeq({OfConsumer("resumeConsumer", c) : c \in paused}))
  /\ UNCHANGED <<session, crashed, slot, changing, made, alive, muted, shownMuted,
                 consumer, data, paused, server, refused, opens>>

-----------------------------------------------------------------------------
(* DataProducers and ICE.                                                  *)

\* 'connectionstatechange' to connected: enableChatDataProducer() and
\* enableBotDataProducer().
TransportConnected ==
  /\ ~crashed /\ send /\ ~connected /\ alive # {} /\ connected' = TRUE
  /\ Sends(<<About("produceChat"), About("produceBot")>>)
  /\ UNCHANGED <<room, closed, crashed, up, send, recv, producing, progress, consuming,
                 server, history, calls, opens>>

\* restartIce(), with at least one transport.
RestartIce ==
  /\ Called /\ (send \/ recv)
  /\ progress' = progress \cup {"restartIce"}
  /\ Sends(<<About(IF send THEN "restartIceSend" ELSE "restartIceRecv")>>)
  /\ UNCHANGED <<session, crashed, producing, consuming, server, history, opens>>

-----------------------------------------------------------------------------
(* Answers.                                                                *)

\* The server can do what r asks it for.
Possible(r) ==
  CASE r.what \in {"closeProducer", "pauseProducer", "resumeProducer"} ->
         r.id \in server.producers
    [] r.what \in {"pauseConsumer", "resumeConsumer"} -> r.consumer \in server.consumers
    [] r.what = "produce" -> Len(made) < MaxProducers
    [] OTHER -> TRUE

\* The request of the connection that the server serves next, and what follows it.
Done(what) == ~crashed /\ sent # <<>> /\ Head(sent).what = what /\ Possible(Head(sent))
Then(requests) == sent' = Tail(sent) \o requests /\ UNCHANGED lost

JoinStepDone ==
  /\ \E i \in 1 .. 3 : Done(Joining[i]) /\ Then(<<About(Joining[i + 1])>>)
  /\ send' = (send \/ Head(sent).what = "createSendTransport")
  /\ recv' = (recv \/ Head(sent).what = "createRecvTransport")
  /\ UNCHANGED <<room, closed, crashed, up, connected, producing, progress, consuming,
                 server, history, calls, opens>>

\* The client is in the Room: enableMic(), enableWebcam().
Joined ==
  /\ Done("join") /\ Then(<<>>) /\ room' = "connected"
  /\ Captures(Medium)
  /\ UNCHANGED <<closed, crashed, up, send, recv, connected, slot, changing, made, alive,
                 muted, shownMuted, consuming, server, refused, calls, opens>>

\* produce() resolves: the slot is overwritten.
Produced ==
  /\ Done("produce") /\ Then(<<>>)
  /\ LET m == Head(sent).medium
         p == Len(made) + 1
     IN
     /\ made' = Append(made, m) /\ slot' = [slot EXCEPT ![m] = p]
     /\ alive' = alive \cup {p}
     /\ server' = [server EXCEPT !.producers = @ \cup {p}]
     /\ progress' = progress \ InProgress(m)
  /\ UNCHANGED <<session, crashed, capturing, changing, muted, shownMuted, consuming,
                 history, calls, opens>>

ProducerClosed ==
  /\ Done("closeProducer") /\ Then(<<>>)
  /\ slot' = [slot EXCEPT ![Head(sent).medium] = 0]
  /\ server' = [server EXCEPT !.producers = @ \ {Head(sent).id},
                              !.muted = @ \ {Head(sent).id}]
  /\ UNCHANGED <<session, crashed, capturing, changing, made, alive, muted, shownMuted,
                 progress, consuming, history, calls, opens>>

\* The store is told of the Producer that is in the slot by now, if there is one.
ProducerPaused ==
  /\ Done("pauseProducer") /\ Then(<<>>)
  /\ server' = [server EXCEPT !.muted = @ \cup {Head(sent).id}]
  /\ shownMuted' = shownMuted \cup ({slot[Head(sent).medium]} \ {0})
  /\ UNCHANGED <<session, crashed, slot, capturing, changing, made, alive, muted, progress,
                 consuming, history, calls, opens>>

ProducerResumed ==
  /\ Done("resumeProducer") /\ Then(<<>>)
  /\ server' = [server EXCEPT !.muted = @ \ {Head(sent).id}]
  /\ shownMuted' = shownMuted \ {slot[Head(sent).medium]}
  /\ UNCHANGED <<session, crashed, slot, capturing, changing, made, alive, muted, progress,
                 consuming, history, calls, opens>>

ConsumerPaused ==
  /\ Done("pauseConsumer") /\ Then(<<>>)
  /\ server' = [server EXCEPT !.paused = @ \cup {Head(sent).consumer}]
  /\ paused' = paused \cup ({Head(sent).consumer} \cap Opened)
  /\ UNCHANGED <<session, crashed, producing, progress, audioOnly, consumer, data, history,
                 calls, opens>>

ConsumerResumed ==
  /\ Done("resumeConsumer") /\ Then(<<>>)
  /\ server' = [server EXCEPT !.paused = @ \ {Head(sent).consumer}]
  /\ paused' = paused \ {Head(sent).consumer}
  /\ UNCHANGED <<session, crashed, producing, progress, audioOnly, consumer, data, history,
                 calls, opens>>

ChatDataProduced ==
  /\ Done("produceChat") /\ Then(<<>>)
  /\ UNCHANGED <<session, crashed, producing, progress, consuming, server, history, calls,
                 opens>>

BotDataProduced ==
  /\ Done("produceBot") /\ Then(<<>>)
  /\ UNCHANGED <<session, crashed, producing, progress, consuming, server, history, calls,
                 opens>>

IceRestarted ==
  /\ \/ /\ Done("restartIceSend") /\ recv
        /\ Then(<<About("restartIceRecv")>>) /\ UNCHANGED progress
     \/ /\ (Done("restartIceSend") /\ ~recv) \/ Done("restartIceRecv")
        /\ Then(<<>>) /\ progress' = progress \ {"restartIce"}
  /\ UNCHANGED <<session, crashed, producing, consuming, server, history, calls, opens>>

\* What a rejection does, with the requests in s and l left.
Rejects(r, s, l) ==
  LET Stays == sent' = s /\ lost' = l /\ UNCHANGED <<session, server>>
      medium == IF "medium" \in DOMAIN r THEN r.medium ELSE "none"
  IN
  IF r.what \in ToSet(Joining) /\ ~closed
  THEN Close(s, l) /\ UNCHANGED crashed
  ELSE
    /\ Stays
    /\ crashed' = (r.what \in {"produceChat", "produceBot"})
    /\ progress' = progress \ CASE r.what = "produce" -> InProgress(medium)
                               [] r.what \in {"restartIceSend", "restartIceRecv"} ->
                                    {"restartIce"}
                               [] OTHER -> {}
    /\ slot' = [m \in Medium |->
                 IF r.what = "closeProducer" /\ m = medium THEN 0 ELSE slot[m]]
    /\ UNCHANGED <<capturing, changing, made, alive, muted, shownMuted, consuming>>

Refused ==
  /\ ~crashed /\ sent # <<>> /\ Rejects(Head(sent), Tail(sent), lost)
  /\ refused' = (refused \/ Possible(Head(sent)))
  /\ UNCHANGED <<overlapped, calls, opens>>

TimedOut ==
  /\ ~crashed /\ \E i \in DOMAIN lost : Rejects(lost[i], sent, RemoveAt(lost, i))
  /\ UNCHANGED <<history, calls, opens>>

-----------------------------------------------------------------------------
(* Specification.                                                          *)

Served ==
  \/ JoinStepDone \/ Joined \/ Produced \/ ProducerClosed
  \/ ProducerPaused \/ ProducerResumed \/ ConsumerPaused \/ ConsumerResumed
  \/ ChatDataProduced \/ BotDataProduced \/ IceRestarted

Next ==
  \/ Open \/ Disconnected \/ ProtooClosed
  \/ \E m \in Medium :
       \/ Enable(m) \/ Captured(m) \/ CaptureFailed(m) \/ Disable(m)
       \/ Mute(m) \/ Unmute(m)
  \/ ChangeWebcam \/ WebcamChanged
  \/ \E c \in Consumer :
       \/ NewConsumer(c) \/ Consumed(c) \/ ConsumerClosed(c)
       \/ NewDataConsumer(c) \/ DataConsumed(c) \/ DataConsumerClosed(c)
       \/ ConsumeFailed(c)
  \/ EnableAudioOnly \/ DisableAudioOnly \/ TransportConnected \/ RestartIce
  \/ Served \/ Refused \/ TimedOut

Spec == Init /\ [][Next]_vars

\* Devices answer; a request is answered, refused or times out.
FairSpec ==
  /\ Spec
  /\ \A m \in Medium : WF_vars(Captured(m) \/ CaptureFailed(m))
  /\ WF_vars(WebcamChanged) /\ WF_vars(Served \/ Refused) /\ WF_vars(TimedOut)

-----------------------------------------------------------------------------
(* Properties.                                                             *)

\* A Producer that sends can be closed by the function for its medium, unless that
\* medium was enabled while it was being enabled or disabled while it was being
\* disabled: the answer to the second one empties the slot of a Producer made since.
AliveIsInSlot == \A p \in alive : slot[made[p]] = p \/ overlapped

\* When nothing is under way, unless the server refused something, the client and the
\* server agree on which Producers there are and which are paused; and so does the
\* store, which after an overlap may have been told of another Producer.  They agree
\* on which Consumers are paused whatever the server refused.
Quiet == up /\ sent = <<>> /\ room = "connected"

ServerAgrees ==
  Quiet =>
    /\ refused \/ (alive = server.producers /\ muted = server.muted)
    /\ refused \/ overlapped \/ muted = shownMuted \cap alive
    /\ paused = server.paused \cap Opened

\* webcamInProgress and restartIceInProgress end, or the process does.
ProgressEnds ==
  \A flag \in {"webcam", "restartIce"} :
    (flag \in progress) ~> (flag \notin progress \/ crashed)

=============================================================================
