----------------------------- MODULE Broadcaster -----------------------------
(***************************************************************************)
(* The Node program of broadcaster/: run() of index.ts, which creates a     *)
(* Broadcaster, sends a media file with ffmpeg or gstreamer (a call that    *)
(* index.ts has for testing) and asks what it could consume, its signals,   *)
(* close() of Broadcaster.ts and of the media clients.                      *)
(*                                                                          *)
(* The server is any server: a request succeeds or fails.  BroadcasterApi   *)
(* has the one of the repository, which refuses its fourth request.         *)
(***************************************************************************)
EXTENDS Naturals, Sequences, SequencesExt, BroadcasterEnd

CONSTANT MaxSignals \* bound: the SIGINTs and SIGTERMs of a run

ASSUME SignalsAssumption == MaxSignals \in Nat

VARIABLES
  sends,    \* the run sends a media file before it consumes
  done,     \* how many of its requests succeeded
  at,       \* run(): asking, waiting for an answer, sending media, over
  started,  \* processTerminationStarted
  forced,   \* exitWithError() will call process.exit(1)
  deleting, \* the DELETE of close() waits for its answer
  client,   \* the media client: none, listed in #mediaClients, closed
  signals   \* how many signals there were

run == <<sends, done, at>>
vars == <<run, started, missed, forced, deleting, closed, client, media, exited, present,
          lost, signals>>

Creating == <<"getRouterRtpCapabilities", "createBroadcasterPeer", "join">>
Producing == <<"audioTransport", "videoTransport", "audioProducer", "videoProducer">>
Consuming == <<"audioTransport", "videoTransport", "getPeerProducersInfos">>

Requests == Creating \o (IF sends THEN Producing ELSE <<>>) \o Consuming
Asked == Requests[done + 1]

\* index.ts: the variable broadcaster is set once create() has returned.
Created == done >= Len(Creating)

TypeOK ==
  /\ sends \in BOOLEAN /\ done \in 0 .. Len(Requests)
  /\ at \in {"asking", "waiting", "sending", "over"}
  /\ started \in BOOLEAN /\ missed \in BOOLEAN /\ forced \in BOOLEAN /\ deleting \in BOOLEAN
  /\ closed \in BOOLEAN /\ exited \in BOOLEAN /\ present \in BOOLEAN /\ lost \in BOOLEAN
  /\ client \in {"none", "listed", "closed"}
  /\ media \in {"none", "running", "orphan", "aborted", "closed"}
  /\ signals \in 0 .. MaxSignals

Init ==
  /\ sends \in BOOLEAN /\ done = 0 /\ at = "asking"
  /\ started = FALSE /\ missed = FALSE /\ forced = FALSE /\ deleting = FALSE /\ closed = FALSE
  /\ client = "none" /\ media = "none" /\ exited = FALSE
  /\ present = FALSE /\ lost = FALSE /\ signals = 0

-----------------------------------------------------------------------------
(* Termination.                                                            *)

\* Mutant: close() leaves the media clients alone.
CloseOnly == closed' = TRUE /\ deleting' = TRUE /\ UNCHANGED <<client, media>>

\* Broadcaster.close(): the DELETE, and the subprocess of a listed media client.
Close ==
  /\ closed' = TRUE /\ deleting' = TRUE
  /\ client' = IF client = "listed" THEN "closed" ELSE client
  /\ media' = IF client = "listed" /\ media = "running" THEN "aborted" ELSE media

\* terminateProcess(): broadcaster?.close()
Terminate ==
  /\ started' = TRUE /\ missed' = ~Created
  /\ IF Created THEN Close ELSE UNCHANGED <<closed, deleting, client, media>>

\* exitGracefully() and exitWithError(), unless one of them was called before.
ExitGracefully ==
  /\ IF started THEN UNCHANGED <<started, missed, closed, deleting, client, media>>
     ELSE Terminate
  /\ UNCHANGED forced

ExitWithError ==
  /\ IF started THEN UNCHANGED <<started, missed, closed, deleting, client, media>>
     ELSE Terminate
  /\ forced' = (forced \/ ~started)

Signal ==
  /\ ~exited /\ signals < MaxSignals
  /\ signals' = signals + 1
  /\ ExitGracefully
  /\ UNCHANGED <<run, exited, present, lost>>

\* The answer of the DELETE, or none; a server that answers has no such peer.
Disconnected ==
  /\ ~exited /\ deleting /\ deleting' = FALSE
  /\ \/ present' = FALSE /\ UNCHANGED lost
     \/ lost' = TRUE /\ UNCHANGED present
  /\ UNCHANGED <<run, started, missed, forced, closed, client, media, exited, signals>>

\* The 'close' event of a subprocess that was aborted.
MediaAborted ==
  /\ ~exited /\ media = "aborted" /\ media' = "closed"
  /\ UNCHANGED <<run, started, missed, forced, deleting, closed, client, exited, present, lost,
                 signals>>

\* close() has settled: its DELETE and the subprocesses that it aborted.
Settled == ~deleting /\ media # "aborted"

\* Mutant: process.exit(1) does not wait for close().
ExitAtOnce ==
  /\ ~exited /\ at = "over" /\ exited' = TRUE
  /\ forced \/ media \notin {"running", "orphan", "aborted"}
  /\ UNCHANGED <<run, started, missed, forced, deleting, closed, client, media, present, lost,
                 signals>>

\* process.exit(1) when close() has settled, or nothing keeps Node running.
Exit ==
  /\ ~exited /\ at = "over" /\ Settled
  /\ forced \/ media \notin {"running", "orphan"}
  /\ exited' = TRUE
  /\ UNCHANGED <<run, started, missed, forced, deleting, closed, client, media, present, lost,
                 signals>>

-----------------------------------------------------------------------------
(* run().                                                                  *)

\* ApiClient.request()
Ask ==
  /\ ~exited /\ at = "asking" /\ at' = "waiting"
  /\ UNCHANGED <<sends, done, started, missed, forced, deleting, closed, client, media, exited,
                 present, lost, signals>>

\* The run catches an error and ends.
Fails ==
  /\ at' = "over" /\ ExitWithError
  /\ UNCHANGED <<sends, done, exited, lost, signals>>

\* A request fails: the server may have done what it asks for.
RequestFails ==
  /\ ~exited /\ at = "waiting" /\ Fails
  /\ present' \in {present, present \/ Asked = "createBroadcasterPeer"}

\* sendMediaFile(): the media client is listed and its subprocess spawned, whether
\* or not close() was called while the requests were awaited.
SendsMediaFile ==
  /\ at' = "sending" /\ client' = "listed"
  /\ media' = IF started THEN "orphan" ELSE "running"
  /\ UNCHANGED <<started, missed, forced, closed, deleting>>

RequestSucceeds ==
  /\ ~exited /\ at = "waiting" /\ done' = done + 1
  /\ present' = (present \/ Asked = "createBroadcasterPeer")
  /\ \/ /\ sends /\ done' = Len(Creating \o Producing) /\ SendsMediaFile
     \/ /\ done' = Len(Requests) /\ at' = "over" /\ ExitGracefully
     \/ /\ done' < Len(Requests) /\ ~(sends /\ done' = Len(Creating \o Producing))
        /\ at' = "asking"
        /\ UNCHANGED <<started, missed, forced, closed, deleting, client, media>>
  /\ UNCHANGED <<sends, exited, lost, signals>>

\* produceMediaFile() returns: consume() is called, which throws after close(), when
\* exitWithError() has nothing left to do.
Consumes ==
  /\ at' = IF closed THEN "over" ELSE "asking"
  /\ UNCHANGED <<started, missed, forced, closed, deleting, client>>

\* The subprocess ends by itself: with code 0, or with an error, which
\* sendMediaFile() throws unless its client was closed.
MediaEnds ==
  /\ ~exited /\ at = "sending" /\ media \in {"running", "orphan"}
  /\ \/ Consumes /\ media' = "closed"
     \/ /\ at' = "over" /\ forced' = (forced \/ ~started)
        /\ started' = TRUE /\ media' = "closed" /\ UNCHANGED missed
        /\ IF started THEN UNCHANGED <<closed, deleting, client>>
           ELSE closed' = TRUE /\ deleting' = TRUE /\ client' = "closed"
  /\ UNCHANGED <<sends, done, exited, present, lost, signals>>

\* sendMediaFile() takes the AbortError of close() for its end.
SendingAborted ==
  /\ ~exited /\ at = "sending" /\ media \in {"aborted", "closed"}
  /\ Consumes /\ UNCHANGED <<sends, done, media, exited, present, lost, signals>>

-----------------------------------------------------------------------------
(* Specification.                                                          *)

Answered == RequestSucceeds \/ RequestFails

Next ==
  \/ Signal \/ Disconnected \/ MediaAborted \/ Exit
  \/ Ask \/ Answered \/ MediaEnds \/ SendingAborted

Spec == Init /\ [][Next]_vars

\* Requests end, by an answer or an error; a subprocess that is told to does too.
FairSpec ==
  /\ Spec
  /\ WF_vars(Ask) /\ WF_vars(Answered) /\ WF_vars(SendingAborted)
  /\ WF_vars(Disconnected) /\ WF_vars(MediaAborted) /\ WF_vars(Exit)

-----------------------------------------------------------------------------
(* Properties.                                                             *)

\* A termination ends the program, except the one that a subprocess spawned after it
\* outlives: close() has not seen its media client, and a further signal is ignored.
TerminationEnds == started ~> exited \/ media = "orphan"

=============================================================================
