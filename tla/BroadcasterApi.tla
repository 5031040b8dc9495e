--------------------------- MODULE BroadcasterApi ---------------------------
(***************************************************************************)
(* The HTTP API of the server (ApiServer.ts, the API handlers of Room.ts   *)
(* and BroadcasterPeer.ts) with the programs of the repository that call   *)
(* it: the shell scripts that send a file (ffmpeg.sh, gstreamer.sh) or     *)
(* receive one (ffmpeg-receiver.sh), and the Node program of broadcaster/. *)
(*                                                                         *)
(* A program sends its requests one after the other.  A script that gets an *)
(* error answer, or a signal, exits (set -e), and its EXIT trap, once it is *)
(* set, sends the DELETE; the request it was waiting for is still handled   *)
(* by the server.  Each request has a connection of its own: the DELETE may *)
(* overtake what was sent before it.                                       *)
(***************************************************************************)
EXTENDS Naturals, Sequences, FiniteSets, SequencesExt

CONSTANTS
  Sender,      \* runs of ffmpeg.sh or gstreamer.sh
  Receiver,    \* runs of ffmpeg-receiver.sh
  NodeProgram, \* runs of broadcaster/src/index.ts
  Source       \* the Sender whose Producers' ids the Receivers were given

ASSUME ProgramsAssumption ==
  /\ Source \in Sender
  /\ Sender \cap Receiver = {} /\ (Sender \cup Receiver) \cap NodeProgram = {}

VARIABLES
  open,      \* the Room exists
  done,      \* done[p]: how many requests of the plan of p succeeded
  mode,      \* the run of p: next, waiting, ended
  early,     \* Node programs that got a signal before Broadcaster.create() ended
  closing,   \* Node programs whose close() was called
  requests,  \* the requests under way, and the answers that were not read
  player,    \* Receivers whose ffplay runs
  peer,      \* the BroadcasterPeer of p: none, joining, joined, closed
  held,      \* its #transports, by the kind of media they are for
  alive,     \* the PlainTransports of p that are not closed
  observed,  \* its Producers in the #observedProducers of the Room
  consumers, \* its Consumers
  forgotten  \* history: programs whose DELETE the server has answered

programs == <<done, mode, early, closing, player>>
server == <<peer, held, alive, observed, consumers>>
vars == <<open, programs, requests, server, forgotten>>

Kind == {"audio", "video"}
Script == Sender \cup Receiver
Program == Script \cup NodeProgram

R(name, kind) == [name |-> name, kind |-> kind]
About(name) == R(name, "none")

Greeting == <<About("getRouterRtpCapabilities"), About("createBroadcasterPeer")>>

\* What a Sender asks for before it runs ffmpeg.
SenderPlan ==
  Greeting \o <<R("createPlainTransport", "audio"), R("createPlainTransport", "video"),
                About("join"), R("produce", "audio"), R("produce", "video")>>

\* What a Receiver asks for; it runs ffplay before its last request.
ReceiverPlan ==
  Greeting \o <<R("createPlainTransport", "audio"), R("connectPlainTransport", "audio"),
                R("createPlainTransport", "video"), R("connectPlainTransport", "video"),
                About("join"), R("consume", "audio"), R("consume", "video"),
                R("resumeConsumer", "video")>>

\* What the Node program asks for until the first answer that is an error.
NodePlan == Greeting \o <<About("join"), R("createPlainTransport", "audio")>>

Plan(p) == IF p \in Sender THEN SenderPlan
           ELSE IF p \in Receiver THEN ReceiverPlan ELSE NodePlan

Over(p) == done[p] = Len(Plan(p))
Delete == About("disconnect")
Request == [from: Program, what: ToSet(SenderPlan \o ReceiverPlan) \cup {Delete},
            at: {"sent", "worker", "ok", "failed"}]

TypeOK ==
  /\ open \in BOOLEAN
  /\ done \in [Program -> 0 .. Len(ReceiverPlan)]
  /\ mode \in [Program -> {"next", "waiting", "ended"}]
  /\ early \subseteq NodeProgram /\ closing \subseteq NodeProgram
  /\ player \subseteq Receiver
  /\ requests \subseteq Request
  /\ peer \in [Program -> {"none", "joining", "joined", "closed"}]
  /\ held \in [Program -> SUBSET Kind] /\ alive \in [Program -> SUBSET Kind]
  /\ observed \in [Program -> SUBSET Kind] /\ consumers \in [Program -> SUBSET Kind]
  /\ forgotten \subseteq Program

Init ==
  /\ open = TRUE
  /\ done = [p \in Program |-> 0] /\ mode = [p \in Program |-> "next"]
  /\ early = {} /\ closing = {} /\ player = {} /\ requests = {}
  /\ peer = [p \in Program |-> "none"]
  /\ held = [p \in Program |-> {}] /\ alive = [p \in Program |-> {}]
  /\ observed = [p \in Program |-> {}] /\ consumers = [p \in Program |-> {}]
  /\ forgotten = {}

-----------------------------------------------------------------------------
(* The programs.                                                           *)

Message(p, what) == [from |-> p, what |-> what, at |-> "sent"]
Waits(p, r) == r.from = p /\ mode[p] = "waiting" /\ r.what = Plan(p)[done[p] + 1]

Ask(p) ==
  /\ mode[p] = "next" /\ ~Over(p)
  /\ requests' = requests \cup {Message(p, Plan(p)[done[p] + 1])}
  /\ mode' = [mode EXCEPT ![p] = "waiting"]
  /\ UNCHANGED <<open, done, early, closing, player, server, forgotten>>

\* A Receiver runs ffplay once it has its Consumers.
Succeed(p) ==
  /\ \E r \in requests : Waits(p, r) /\ r.at = "ok" /\ requests' = requests \ {r}
  /\ done' = [done EXCEPT ![p] = @ + 1]
  /\ mode' = [mode EXCEPT ![p] = "next"]
  /\ player' = IF p \in Receiver /\ done'[p] = Len(ReceiverPlan) - 1
               THEN player \cup {p} ELSE player
  /\ UNCHANGED <<open, early, closing, server, forgotten>>

\* Mutant: the trap is set before the POST that creates the BroadcasterPeer.
TrapFirst(p) == done[p] >= 1

\* The EXIT trap is set after the POST that creates the BroadcasterPeer.
Trap(p) == done[p] >= 2

\* set -e: an error is the end of a script, and so is a signal.
Exit(p, rest) ==
  /\ requests' = rest \cup IF Trap(p) THEN {Message(p, Delete)} ELSE {}
  /\ mode' = [mode EXCEPT ![p] = "ended"]
  /\ UNCHANGED done

\* Mutant: a script without set -e goes on after an error.
ScriptCarriesOn(p) ==
  /\ \E r \in requests : Waits(p, r) /\ r.at = "failed" /\ requests' = requests \ {r}
  /\ done' = [done EXCEPT ![p] = @ + 1]
  /\ mode' = [mode EXCEPT ![p] = "next"]
  /\ UNCHANGED <<open, early, closing, player, server, forgotten>>

ScriptFails(p) ==
  /\ \E r \in requests : Waits(p, r) /\ r.at = "failed" /\ Exit(p, requests \ {r})
  /\ UNCHANGED <<open, early, closing, player, server, forgotten>>

\* A signal, a timeout of http, or the end of ffmpeg or ffplay.
ScriptInterrupted(p) ==
  /\ mode[p] # "ended"
  /\ Exit(p, {r \in requests : Waits(p, r) => r.at \in {"sent", "worker"}})
  /\ UNCHANGED <<open, early, closing, player, server, forgotten>>

\* Broadcaster.create() makes three requests; what exitWithError() and
\* exitGracefully() close exists only when it has returned.
Created(p) == done[p] >= 3

\* exitWithError(), unless the termination has started already.
NodeFails(p) ==
  /\ \E r \in requests :
       /\ Waits(p, r) /\ r.at = "failed"
       /\ requests' = (requests \ {r}) \cup
            IF Created(p) /\ p \notin early \cup closing THEN {Message(p, Delete)} ELSE {}
  /\ mode' = [mode EXCEPT ![p] = "ended"]
  /\ UNCHANGED <<open, done, early, closing, player, server, forgotten>>

\* SIGINT or SIGTERM: exitGracefully(); run() goes on.
NodeSignalled(p) ==
  /\ mode[p] # "ended" /\ p \notin early \cup closing
  /\ \/ ~Created(p) /\ early' = early \cup {p} /\ UNCHANGED <<closing, requests>>
     \/ /\ Created(p) /\ closing' = closing \cup {p} /\ UNCHANGED early
        /\ requests' = requests \cup {Message(p, Delete)}
  /\ UNCHANGED <<open, done, mode, player, server, forgotten>>

\* Mutant: the trap kills ffplay only after an error.
DisconnectedLate(r) ==
  /\ r.what = Delete /\ r.at \in {"ok", "failed"}
  /\ requests' = requests \ {r}
  /\ player' = IF r.at = "failed" THEN player \ {r.from} ELSE player
  /\ UNCHANGED <<open, done, mode, early, closing, server, forgotten>>

\* The answer of the DELETE: the trap of a Receiver kills ffplay, which set -e
\* keeps it from after an error.
Disconnected(r) ==
  /\ r.what = Delete /\ r.at \in {"ok", "failed"}
  /\ requests' = requests \ {r}
  /\ player' = IF r.at = "ok" THEN player \ {r.from} ELSE player
  /\ UNCHANGED <<open, done, mode, early, closing, server, forgotten>>

-----------------------------------------------------------------------------
(* The server.                                                             *)

\* An answer to somebody who has gone is lost.
Answer(r, result) ==
  requests' = (requests \ {r}) \cup
    IF r.what = Delete \/ Waits(r.from, r) THEN {[r EXCEPT !.at = result]} ELSE {}

\* The middlewares of 'roomId' and 'peerId'.
Found(r) ==
  open /\ (r.what \in ToSet(Greeting) \/ peer[r.from] \in {"joining", "joined"})

\* The connection fails, or a middleware answers 404.
Refuse(r) ==
  /\ r.at = "sent"
  /\ Answer(r, "failed")
  /\ forgotten' = IF ~Found(r) /\ r.what = Delete
                  THEN forgotten \cup {r.from} ELSE forgotten
  /\ UNCHANGED <<open, programs, server>>

Received(r, name) == r.at = "sent" /\ r.what.name = name /\ Found(r)
Joined(r) == peer[r.from] = "joined"

GetRouterRtpCapabilities(r) ==
  /\ Received(r, "getRouterRtpCapabilities")
  /\ Answer(r, "ok")
  /\ UNCHANGED <<open, programs, server, forgotten>>

CreateBroadcasterPeer(r) ==
  /\ Received(r, "createBroadcasterPeer")
  /\ peer' = [peer EXCEPT ![r.from] = "joining"]
  /\ Answer(r, "ok")
  /\ UNCHANGED <<open, programs, held, alive, observed, consumers, forgotten>>

Join(r) ==
  /\ Received(r, "join")
  /\ peer' = [peer EXCEPT ![r.from] = "joined"]
  /\ Answer(r, "ok")
  /\ UNCHANGED <<open, programs, held, alive, observed, consumers, forgotten>>

\* The body of the Node program has its direction in appData, where the
\* ApiServer does not look.
Direction(p) == IF p \in Script THEN "given" ELSE "undefined"

\* 'create-plain-transport' switches on the direction, and throws without one.
RouterPicked(r) == Direction(r.from) = "given"

\* assertAndGetPlainTransport(): the id that the program gives is that of its own.
HasTransport(r) == r.what.kind \in held[r.from]

\* 'get-can-consume' and 'get-producer': the Room observes the Producer.
CanConsume(r) == r.what.kind \in observed[Source]

\* The checks made before the Worker is asked.
Accepts(r) ==
  CASE r.what.name = "createPlainTransport" -> RouterPicked(r)
    [] r.what.name = "connectPlainTransport" -> HasTransport(r)
    [] r.what.name = "produce" -> Joined(r) /\ HasTransport(r)
    [] r.what.name = "consume" -> Joined(r) /\ HasTransport(r) /\ CanConsume(r)
    [] r.what.name = "resumeConsumer" -> Joined(r) /\ r.what.kind \in consumers[r.from]
    [] OTHER -> FALSE

ForWorker == {"createPlainTransport", "connectPlainTransport", "produce", "consume",
              "resumeConsumer"}

AskWorker(r) ==
  /\ \E name \in ForWorker : Received(r, name)
  /\ IF Accepts(r) THEN requests' = (requests \ {r}) \cup {[r EXCEPT !.at = "worker"]}
     ELSE Answer(r, "failed")
  /\ UNCHANGED <<open, programs, server, forgotten>>

\* The closures of the transports in kinds, in the Worker and in the Maps.
Closed(p, kinds) ==
  /\ alive' = [alive EXCEPT ![p] = @ \ kinds]
  /\ held' = [held EXCEPT ![p] = @ \ kinds]
  /\ observed' = [observed EXCEPT ![p] = @ \ kinds]
  /\ consumers' = [q \in Program |->
       IF q = p \/ p = Source THEN consumers[q] \ kinds ELSE consumers[q]]

\* Mutant: the transports of a BroadcasterPeer that did not join are not closed.
CloseIfJoined(p) ==
  /\ peer' = [peer EXCEPT ![p] = "closed"]
  /\ Closed(p, IF peer[p] = "joined" THEN held[p] ELSE {})

\* BroadcasterPeer.close()
CloseBroadcasterPeer(p) ==
  /\ peer' = [peer EXCEPT ![p] = "closed"]
  /\ Closed(p, held[p])

Disconnect(r) ==
  /\ Received(r, "disconnect")
  /\ CloseBroadcasterPeer(r.from)
  /\ Answer(r, "ok")
  /\ forgotten' = forgotten \cup {r.from}
  /\ UNCHANGED <<open, programs>>

\* The Worker's answer is no, or comes after what it was asked of had closed.
WorkerRefuses(r) ==
  /\ r.at = "worker" /\ Answer(r, "failed")
  /\ UNCHANGED <<open, programs, server, forgotten>>

Asked(r, name) == r.at = "worker" /\ r.what.name = name /\ Answer(r, "ok")

\* Nothing asks whether the BroadcasterPeer closed meanwhile.
TransportCreated(r) ==
  /\ open /\ Asked(r, "createPlainTransport")
  /\ held' = [held EXCEPT ![r.from] = @ \cup {r.what.kind}]
  /\ alive' = [alive EXCEPT ![r.from] = @ \cup {r.what.kind}]
  /\ UNCHANGED <<open, programs, peer, observed, consumers, forgotten>>

\* connectPlainTransport, resumeConsumer
WorkerDid(r) ==
  /\ Asked(r, "connectPlainTransport") \/ Asked(r, "resumeConsumer")
  /\ UNCHANGED <<open, programs, server, forgotten>>

\* mediasoup hands over a Producer whose transport closed after the Worker had
\* answered: it is observed, and nothing will close it.
ProducerCreated(r) ==
  /\ Asked(r, "produce")
  /\ observed' = [observed EXCEPT ![r.from] = @ \cup {r.what.kind}]
  /\ UNCHANGED <<open, programs, peer, held, alive, consumers, forgotten>>

ConsumerCreated(r) ==
  /\ Asked(r, "consume") /\ r.what.kind \in alive[r.from] \cap alive[Source]
  /\ consumers' = [consumers EXCEPT ![r.from] = @ \cup {r.what.kind}]
  /\ UNCHANGED <<open, programs, peer, held, alive, observed, forgotten>>

\* Room.close() and the closure of its Routers.
CloseRoom ==
  /\ open /\ open' = FALSE
  /\ peer' = [p \in Program |-> IF peer[p] = "none" THEN "none" ELSE "closed"]
  /\ held' = [p \in Program |-> {}] /\ alive' = [p \in Program |-> {}]
  /\ consumers' = [p \in Program |-> {}]
  /\ observed' = [p \in Program |-> observed[p] \ alive[p]]
  /\ UNCHANGED <<programs, requests, forgotten>>

-----------------------------------------------------------------------------
(* Specification.                                                          *)

Next ==
  \/ \E p \in Program : Ask(p) \/ Succeed(p)
  \/ \E p \in Script : ScriptFails(p) \/ ScriptInterrupted(p)
  \/ \E p \in NodeProgram : NodeFails(p) \/ NodeSignalled(p)
  \/ \E r \in requests :
       \/ Disconnected(r) \/ Refuse(r) \/ GetRouterRtpCapabilities(r)
       \/ CreateBroadcasterPeer(r) \/ Join(r) \/ AskWorker(r) \/ Disconnect(r)
       \/ WorkerRefuses(r) \/ TransportCreated(r) \/ WorkerDid(r)
       \/ ProducerCreated(r) \/ ConsumerCreated(r)
  \/ CloseRoom

Spec == Init /\ [][Next]_vars

-----------------------------------------------------------------------------
(* Properties.                                                             *)

\* A DELETE that the server has answered is the last word of its program: no
\* request of it that was overtaken brings the BroadcasterPeer back.  The trap is
\* set, and close() is possible, only once the POST has been answered.
ForgottenForGood == \A p \in forgotten : peer[p] \in {"closed", "none"}

\* A PlainTransport outlives its BroadcasterPeer only when it was being created
\* while the BroadcasterPeer closed, and that is one of them at most: close() finds
\* every other one in #transports, joined or not.
LeaksAtMostOne ==
  \A p \in Program :
    /\ peer[p] = "closed" => Cardinality(alive[p]) <= 1
    /\ peer[p] # "closed" => alive[p] = held[p]

\* While ffmpeg or ffplay of a script runs and its BroadcasterPeer is in the Room,
\* the Room has its two Producers, or it has a Consumer of each Producer that is
\* left: a script whose step failed does not get that far.
MediaIsServed ==
  /\ \A p \in Sender :
       Over(p) /\ mode[p] = "next" /\ peer[p] = "joined" => observed[p] = Kind
  /\ \A p \in Receiver :
       p \in player /\ mode[p] # "ended" /\ peer[p] = "joined"
         => observed[Source] \cap alive[Source] \subseteq consumers[p]

\* ffplay outlives its script only when the DELETE got no answer (it failed, or is
\* still under way), or the server was closed.
PlayerIsKilled ==
  \A p \in player : mode[p] = "ended" =>
    p \notin forgotten \/ (\E r \in requests : r.from = p /\ r.what = Delete) \/ ~open

\* signaling/apiMessages.ts gives createPlainTransport a body with its direction in
\* appData: such a request of a BroadcasterPeer in the Room is not refused at once.
TransportsAreAccepted ==
  [][\A r \in requests :
       /\ AskWorker(r) /\ r.what.name = "createPlainTransport"
       => r.at = "sent" /\ [r EXCEPT !.at = "worker"] \in requests']_vars

=============================================================================
