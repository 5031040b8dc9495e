--------------------------- MODULE ClientProducing ---------------------------
(***************************************************************************)
(* The web client as a producer (app/src/RoomClient.js): microphone,       *)
(* webcam and screen sharing, each in a slot (_micProducer,                *)
(* _webcamProducer, _shareProducer) that a function reads, then awaits     *)
(* devices and the server, and then writes; the buttons of Me.jsx and      *)
(* Room.jsx that call these functions; the store; and the server's Peer    *)
(* that gets the requests and notifications.                               *)
(*                                                                         *)
(* A session is a WebSocket connection whose 'join' was answered, see      *)
(* ClientSession.  Cameras, codecs and encodings are left out: a step that *)
(* may fail because of them has a failure.                                 *)
(***************************************************************************)
EXTENDS Naturals, Sequences, SequencesExt, BagsExt, ProducingStore

CONSTANTS
  MaxCalls,     \* bound: calls of async functions at the same time
  MaxProducers, \* bound: Producers that the server creates
  MaxSessions,  \* bound: how often the client joins
  MaxWire       \* bound: notifications under way when a button is pressed

ASSUME BoundsAssumption ==
  /\ MaxCalls \in Nat /\ MaxProducers \in Nat
  /\ MaxSessions \in Nat /\ MaxWire \in Nat

VARIABLES
  progress,  \* the store's webcamInProgress and shareInProgress
  audioOnly, \* the store's audioOnly
  cookie,    \* webcamEnabled of the cookie, or none
  ended,     \* the Producers of the store whose track ended by itself
  cancelled, \* history: a share was cancelled without an error
  sessions   \* bounded counter

store == <<shown, muted, progress, audioOnly>>
peer == <<made, served, paused>>
history == <<overlapped, cancelled>>
vars == <<open, slot, calls, store, cookie, peer, notices, ended, history, sessions>>

Source == {"mic", "webcam", "share"}
Producer == 1 .. MaxProducers

\* What awaits: the list of devices, a device or the user's consent, the
\* server's answer to 'produce' (which the server may have sent), replaceTrack().
Stage == {"list", "device", "produce", "answer", "replace"}
Call == [run: Source \cup {"change"}, at: Stage, id: Producer \cup {0}]

TypeOK ==
  /\ open \in BOOLEAN /\ audioOnly \in BOOLEAN
  /\ slot \in [Source -> Producer \cup {0}]
  /\ calls \in [DOMAIN calls -> Nat \ {0}] /\ DOMAIN calls \subseteq Call
  /\ shown \in Seq(Producer) /\ \A i, j \in DOMAIN shown : shown[i] = shown[j] => i = j
  /\ muted \subseteq ToSet(shown)
  /\ progress \subseteq {"webcam", "share"}
  /\ cookie \in {"none", "on", "off"}
  /\ made \in Seq(Source) /\ Len(made) <= MaxProducers
  /\ served \subseteq DOMAIN made /\ paused \subseteq served
  /\ notices \in Seq([type: {"close", "pause", "resume"}, id: Producer])
  /\ ended \subseteq DOMAIN made
  /\ overlapped \in BOOLEAN /\ cancelled \in BOOLEAN
  /\ sessions \in 0 .. MaxSessions

Init ==
  /\ open = FALSE /\ slot = [s \in Source |-> 0]
  /\ calls = <<>>
  /\ shown = <<>> /\ muted = {} /\ progress = {} /\ audioOnly = FALSE
  /\ cookie = "none"
  /\ made = <<>> /\ served = {} /\ paused = {} /\ notices = <<>> /\ ended = {}
  /\ overlapped = FALSE /\ cancelled = FALSE /\ sessions = 0

-----------------------------------------------------------------------------
(* Calls.                                                                  *)

Started(f, stage) == [run |-> f, at |-> stage, id |-> 0]
Without(k) == BagRemove(calls, k)

Free == BagCardinality(calls) < MaxCalls
Running(f) == \E k \in DOMAIN calls : k.run = f

At(k, f, stage) == k \in DOMAIN calls /\ k.run = f /\ k.at = stage

Goes(k, stage) == calls' = BagAdd(Without(k), [k EXCEPT !.at = stage])
Ends(k) == calls' = Without(k)

\* With a track, transport.produce(); without a transport, a TypeError.
Produces(k) == IF open THEN Goes(k, "produce") ELSE Ends(k)

Notify(type, id) == notices' = Append(notices, [type |-> type, id |-> id])

-----------------------------------------------------------------------------
(* The store.                                                              *)

AddProducer(p) == shown' = Append(shown, p)
RemoveProducer(p) == shown' = RemoveFirst(shown, p) /\ muted' = muted \ {p}
SetProducerPaused(p) == muted' = muted \cup {p}
SetProducerResumed(p) == muted' = muted \ {p}

\* SET_WEBCAM_IN_PROGRESS, SET_SHARE_IN_PROGRESS.
SetInProgress(f, flag) == progress' = IF flag THEN progress \cup {f} ELSE progress \ {f}

-----------------------------------------------------------------------------
(* What the functions do to a slot.                                        *)

\* Mutant: the slot is emptied, nobody is told.
ForgetsProducer(s) ==
  /\ slot' = [slot EXCEPT ![s] = 0]
  /\ UNCHANGED <<shown, muted, notices>>

\* disableMic(), disableWebcam(), disableShare() with a Producer in the slot.
Closes(s) ==
  /\ slot' = [slot EXCEPT ![s] = 0]
  /\ RemoveProducer(slot[s])
  /\ Notify("close", slot[s])

Disables(s) == IF slot[s] = 0 THEN UNCHANGED <<slot, shown, muted, notices>> ELSE Closes(s)

\* Mutant: the answer is forgotten if a Producer came first.
FirstOneStays(k, s) ==
  /\ slot' = IF slot[s] = 0 THEN [slot EXCEPT ![s] = k.id] ELSE slot
  /\ shown' = IF slot[s] = 0 THEN Append(shown, k.id) ELSE shown

\* produce() resolved: the slot is overwritten.
Fills(k, s) ==
  /\ slot' = [slot EXCEPT ![s] = k.id]
  /\ AddProducer(k.id)

-----------------------------------------------------------------------------
(* The microphone.                                                         *)

\* enableMic() up to getUserMedia(); the slot is empty when _joinRoom() calls it.
EnableMic == Started("mic", "device")

MicCaptured(k) ==
  /\ At(k, "mic", "device") /\ Produces(k)
  /\ UNCHANGED <<open, slot, store, cookie, peer, notices, ended, history, sessions>>

MicProduced(k) ==
  /\ At(k, "mic", "answer") /\ Fills(k, "mic") /\ Ends(k)
  /\ UNCHANGED <<open, muted, progress, audioOnly, cookie, peer, notices, ended,
                 history, sessions>>

\* A rejection, or the lack of a codec: the track is stopped.
EnableMicFailed(k) ==
  /\ At(k, "mic", "device") \/ At(k, "mic", "produce")
  /\ Ends(k)
  /\ UNCHANGED <<open, slot, store, cookie, peer, notices, ended, history, sessions>>

\* The button shows the first audio Producer of the store, the functions act on
\* the slot, and throw if it is empty.
MicButton == SelectSeq(shown, LAMBDA p : made[p] = "mic")

MuteMic ==
  /\ open /\ Len(notices) < MaxWire
  /\ MicButton # <<>> /\ Head(MicButton) \notin muted /\ slot["mic"] # 0
  /\ SetProducerPaused(slot["mic"])
  /\ Notify("pause", slot["mic"])
  /\ UNCHANGED <<open, slot, calls, shown, progress, audioOnly, cookie, peer, ended,
                 history, sessions>>

UnmuteMic ==
  /\ open /\ Len(notices) < MaxWire
  /\ MicButton # <<>> /\ Head(MicButton) \in muted /\ slot["mic"] # 0
  /\ SetProducerResumed(slot["mic"])
  /\ Notify("resume", slot["mic"])
  /\ UNCHANGED <<open, slot, calls, shown, progress, audioOnly, cookie, peer, ended,
                 history, sessions>>

-----------------------------------------------------------------------------
(* The webcam.                                                             *)

\* The first video Producer of the store decides what the buttons do, which are
\* disabled while a webcam or a share is in progress.
VideoButton == SelectSeq(shown, LAMBDA p : made[p] # "mic")
VideoShown == IF VideoButton = <<>> THEN "none" ELSE made[Head(VideoButton)]
Enabled == open /\ progress = {} /\ Free /\ Len(notices) < MaxWire

\* enableWebcam() up to enumerateDevices().
EnableWebcam ==
  IF slot["webcam"] # 0
  THEN UNCHANGED <<slot, calls, shown, muted, notices, progress, overlapped>>
  ELSE /\ Disables("share")
       /\ SetInProgress("webcam", TRUE)
       /\ calls' = BagAdd(calls, Started("webcam", "list"))
       /\ overlapped' = (overlapped \/ Running("webcam"))

WebcamsListed(k) ==
  /\ At(k, "webcam", "list") /\ Goes(k, "device")
  /\ UNCHANGED <<open, slot, store, cookie, peer, notices, ended, history, sessions>>

\* getUserMedia() resolved; without a transport the call ends, and so its progress.
WebcamCaptured(k) ==
  /\ At(k, "webcam", "device") /\ Produces(k)
  /\ IF open THEN UNCHANGED progress ELSE SetInProgress("webcam", FALSE)
  /\ UNCHANGED <<open, slot, shown, muted, audioOnly, cookie, peer, notices, ended,
                 history, sessions>>

WebcamProduced(k) ==
  /\ At(k, "webcam", "answer") /\ Fills(k, "webcam") /\ Ends(k)
  /\ SetInProgress("webcam", FALSE)
  /\ UNCHANGED <<open, muted, audioOnly, cookie, peer, notices, ended, history, sessions>>

\* Mutant: the progress ends only with a Producer.
WebcamFailsInProgress(k) ==
  /\ k \in DOMAIN calls /\ k.run = "webcam" /\ k.at # "answer" /\ Ends(k)
  /\ UNCHANGED <<open, slot, store, cookie, peer, notices, ended, history, sessions>>

EnableWebcamFailed(k) ==
  /\ k \in DOMAIN calls /\ k.run = "webcam" /\ k.at # "answer" /\ Ends(k)
  /\ SetInProgress("webcam", FALSE)
  /\ UNCHANGED <<open, slot, shown, muted, audioOnly, cookie, peer, notices, ended,
                 history, sessions>>

\* The button, which also writes the cookie.
ClickWebcam ==
  /\ Enabled
  /\ \/ /\ VideoShown = "webcam" /\ cookie' = "off" /\ Disables("webcam")
        /\ UNCHANGED <<calls, progress, overlapped>>
     \/ VideoShown # "webcam" /\ cookie' = "on" /\ EnableWebcam
  /\ UNCHANGED <<open, audioOnly, peer, ended, cancelled, sessions>>

-----------------------------------------------------------------------------
(* Another webcam.                                                         *)

ChangeWebcam ==
  /\ Enabled /\ VideoShown = "webcam"
  /\ SetInProgress("webcam", TRUE)
  /\ calls' = BagAdd(calls, Started("change", "list"))
  /\ UNCHANGED <<open, slot, shown, muted, audioOnly, cookie, peer, notices, ended,
                 history, sessions>>

\* The current track is stopped before the next camera is opened.
OtherWebcamPicked(k) ==
  /\ At(k, "change", "list") /\ slot["webcam"] # 0 /\ Goes(k, "device")
  /\ UNCHANGED <<open, slot, store, cookie, peer, notices, ended, history, sessions>>

\* If the slot was emptied meanwhile, replaceTrack() is a TypeError, and the
\* catch does not stop the track.
OtherWebcamCaptured(k) ==
  /\ At(k, "change", "device")
  /\ \/ /\ slot["webcam"] # 0
        /\ Goes(k, "replace") /\ UNCHANGED progress
     \/ /\ slot["webcam"] = 0
        /\ Ends(k) /\ SetInProgress("webcam", FALSE)
  /\ UNCHANGED <<open, slot, shown, muted, audioOnly, cookie, peer, notices, ended,
                 history, sessions>>

\* replaceTrack() settled; whatever it did, the progress is over.
TrackReplaced(k) ==
  /\ At(k, "change", "replace") /\ Ends(k)
  /\ SetInProgress("webcam", FALSE)
  /\ UNCHANGED <<open, slot, shown, muted, audioOnly, cookie, peer, notices, ended,
                 history, sessions>>

\* No device, no consent, or the slot was emptied before the track was stopped.
ChangeWebcamFailed(k) ==
  /\ At(k, "change", "list") \/ At(k, "change", "device")
  /\ Ends(k) /\ SetInProgress("webcam", FALSE)
  /\ UNCHANGED <<open, slot, shown, muted, audioOnly, cookie, peer, notices, ended,
                 history, sessions>>

-----------------------------------------------------------------------------
(* Screen sharing.                                                         *)

EnableShare ==
  IF slot["share"] # 0
  THEN UNCHANGED <<slot, calls, shown, muted, notices, progress, overlapped>>
  ELSE /\ Disables("webcam")
       /\ SetInProgress("share", TRUE)
       /\ calls' = BagAdd(calls, Started("share", "device"))
       /\ overlapped' = (overlapped \/ Running("share"))

\* "May mean cancelled": the flag is set again, and the function returns.
ShareCancelled(k) ==
  /\ At(k, "share", "device") /\ Ends(k)
  /\ SetInProgress("share", TRUE) /\ cancelled' = TRUE
  /\ UNCHANGED <<open, slot, shown, muted, audioOnly, cookie, peer, notices, ended,
                 overlapped, sessions>>

ShareCaptured(k) ==
  /\ At(k, "share", "device") /\ Produces(k)
  /\ IF open THEN UNCHANGED progress ELSE SetInProgress("share", FALSE)
  /\ UNCHANGED <<open, slot, shown, muted, audioOnly, cookie, peer, notices, ended,
                 history, sessions>>

ShareProduced(k) ==
  /\ At(k, "share", "answer") /\ Fills(k, "share") /\ Ends(k)
  /\ SetInProgress("share", FALSE)
  /\ UNCHANGED <<open, muted, audioOnly, cookie, peer, notices, ended, history, sessions>>

EnableShareFailed(k) ==
  /\ k \in DOMAIN calls /\ k.run = "share" /\ k.at # "answer" /\ Ends(k)
  /\ SetInProgress("share", FALSE)
  /\ UNCHANGED <<open, slot, shown, muted, audioOnly, cookie, peer, notices, ended,
                 history, sessions>>

ClickShare ==
  /\ Enabled
  /\ \/ /\ VideoShown = "share" /\ Disables("share")
        /\ UNCHANGED <<calls, progress, overlapped>>
     \/ VideoShown # "share" /\ EnableShare
  /\ UNCHANGED <<open, audioOnly, cookie, peer, ended, cancelled, sessions>>

-----------------------------------------------------------------------------
(* Audio only, a button that is not disabled while a webcam is in progress. *)

EnableAudioOnly ==
  /\ open /\ ~audioOnly /\ Len(notices) < MaxWire
  /\ audioOnly' = TRUE /\ Disables("webcam")
  /\ UNCHANGED <<open, calls, progress, cookie, peer, ended, history, sessions>>

DisableAudioOnly ==
  /\ open /\ audioOnly /\ Free /\ Len(notices) < MaxWire
  /\ audioOnly' = FALSE
  /\ IF slot["webcam"] = 0 /\ cookie = "on" THEN EnableWebcam
     ELSE UNCHANGED <<slot, calls, shown, muted, notices, progress, overlapped>>
  /\ UNCHANGED <<open, cookie, peer, ended, cancelled, sessions>>

-----------------------------------------------------------------------------
(* Events.                                                                 *)

\* The device of Producer p is gone: 'trackended' disables the slot of its
\* source, whichever Producer is in it.
TrackEnded(p) ==
  /\ p \in ToSet(shown) \ ended /\ Len(notices) < MaxWire
  /\ Disables(made[p])
  /\ ended' = (ended \cup {p}) \cap ToSet(shown')
  /\ UNCHANGED <<open, calls, progress, audioOnly, cookie, peer, history, sessions>>

\* The tail of _joinRoom(): enableMic() and, unless the cookie is against it,
\* enableWebcam().
JoinRoom ==
  /\ ~open /\ sessions < MaxSessions /\ open' = TRUE /\ sessions' = sessions + 1
  /\ BagCardinality(calls) + 2 <= MaxCalls
  /\ calls' = IF cookie = "off" THEN BagAdd(calls, EnableMic)
              ELSE BagAdd(BagAdd(calls, EnableMic), Started("webcam", "list"))
  /\ progress' = IF cookie = "off" THEN progress ELSE progress \cup {"webcam"}
  /\ overlapped' = (overlapped \/ Running("mic") \/ (cookie # "off" /\ Running("webcam")))
  /\ UNCHANGED <<slot, shown, muted, audioOnly, cookie, peer, notices, ended, cancelled>>

\* The store is cleared.
RoomClosed == shown' = <<>> /\ muted' = {} /\ progress' = {} /\ audioOnly' = FALSE

\* 'disconnected': the transport closes, which empties the slots and rejects what
\* awaits it; the server closes the Peer with its Producers.
Disconnected ==
  /\ open /\ open' = FALSE
  /\ slot' = [s \in Source |-> 0]
  /\ calls' = [k \in {c \in DOMAIN calls : c.at \notin {"produce", "answer"}} |->
                calls[k]]
  /\ RoomClosed
  /\ served' = {} /\ paused' = {} /\ notices' = <<>> /\ ended' = {}
  /\ UNCHANGED <<cookie, made, history, sessions>>

-----------------------------------------------------------------------------
(* The server's Peer.                                                      *)

\* 'produce': the transport of the client sends one request at a time.
Produce(k) ==
  /\ k \in DOMAIN calls /\ k.at = "produce" /\ Len(made) < MaxProducers
  /\ \A j \in DOMAIN calls : j.at # "answer"
  /\ made' = Append(made, k.run)
  /\ served' = served \cup {Len(made) + 1}
  /\ calls' = BagAdd(Without(k), [k EXCEPT !.at = "answer", !.id = Len(made) + 1])
  /\ UNCHANGED <<open, slot, store, cookie, paused, notices, ended, history, sessions>>

\* closeProducer, pauseProducer, resumeProducer; an unknown Producer is an error
\* that is logged.
Notified ==
  /\ notices # <<>> /\ notices' = Tail(notices)
  /\ LET m == Head(notices) IN
     /\ served' = IF m.type = "close" THEN served \ {m.id} ELSE served
     /\ paused' = CASE m.type = "pause" -> paused \cup ({m.id} \cap served)
                    [] OTHER -> paused \ {m.id}
  /\ UNCHANGED <<open, slot, calls, store, cookie, made, ended, history, sessions>>

-----------------------------------------------------------------------------

Settles(k) ==
  \/ MicCaptured(k) \/ MicProduced(k) \/ EnableMicFailed(k)
  \/ WebcamsListed(k) \/ WebcamCaptured(k) \/ WebcamProduced(k)
  \/ EnableWebcamFailed(k)
  \/ OtherWebcamPicked(k) \/ OtherWebcamCaptured(k) \/ TrackReplaced(k)
  \/ ChangeWebcamFailed(k)
  \/ ShareCancelled(k) \/ ShareCaptured(k) \/ ShareProduced(k)
  \/ EnableShareFailed(k)

Next ==
  \/ MuteMic \/ UnmuteMic \/ ClickWebcam \/ ChangeWebcam \/ ClickShare
  \/ EnableAudioOnly \/ DisableAudioOnly
  \/ \E p \in Producer : TrackEnded(p)
  \/ JoinRoom \/ Disconnected
  \/ \E k \in DOMAIN calls : Settles(k) \/ Produce(k)
  \/ Notified

Spec == Init /\ [][Next]_vars

\* Devices are found or not, the user answers a prompt, and requests settle: as
\* long as a function is under way, one of its calls proceeds.
Proceeds(f) == \E k \in DOMAIN calls : k.run = f /\ (Settles(k) \/ Produce(k))

FairSpec == Spec /\ \A f \in Source \cup {"change"} : WF_vars(Proceeds(f))

-----------------------------------------------------------------------------
(* Properties.                                                             *)

\* webcamInProgress, which disables three buttons, ends; and the flag of a share
\* is left behind only by a stream that is not there.
ProgressEnds ==
  /\ ("webcam" \in progress) ~> ("webcam" \notin progress)
  /\ ("share" \in progress) ~> ("share" \notin progress \/ cancelled)

=============================================================================
