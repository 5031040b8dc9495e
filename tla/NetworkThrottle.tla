--------------------------- MODULE NetworkThrottle ---------------------------
(***************************************************************************)
(* The network throttle of server/src/Server.ts: the requests of Rooms to  *)
(* apply and stop it, the AwaitQueue that serialises them, the flags that  *)
(* remember it, and what the closure of Rooms and of the Server does about *)
(* it.  The secret is checked before anything else happens and a request   *)
(* that fails the check changes nothing: only accepted ones are modelled.  *)
(*                                                                         *)
(* An action is one turn of the event loop, except that the microtasks a   *)
(* turn leaves behind (Start, Recorded) are actions of their own, which no *)
(* other turn overtakes.                                                   *)
(***************************************************************************)
EXTENDS Naturals, Sequences, ThrottleFlags

CONSTANTS
  Room,       \* the roomIds
  NoRoom,     \* undefined
  MaxApply,   \* bound: the 'applyNetworkThrottle' requests made
  MaxStop,    \* bound: the 'stopNetworkThrottle' requests made
  Fails,      \* the throttle commands that may fail, of {"start", "stop"}
  MayDie      \* a mediasoup Worker may die

ASSUME NoRoomAssumption == NoRoom \notin Room
ASSUME BoundsAssumption ==
  MaxApply \in Nat /\ MaxStop \in Nat /\ Fails \subseteq {"start", "stop"}
  /\ MayDie \in BOOLEAN

VARIABLES
  open,        \* the roomIds with an open Room
  server,      \* "open", "closed", or "exited" with the whole process
  byRoom,      \* #networkThrottleEnabledByRoomId
  resolved,    \* the Rooms whose request resolved and whose .then() is to run
  owner,       \* history: the Room whose options are in force
  atClose,     \* history: what Server.close() found, of {"recorded", "idle"},
               \* with "failed" once a stop failed after it
  applies, stops  \* bounded counters of requests

vars == <<open, server, enabled, byRoom, tasks, resolved, active, owner, atClose,
          leftover, applies, stops>>
flags == <<enabled, byRoom>>
history == <<owner, atClose, leftover>>

\* A task to apply, of Room room; it saves no flags.
ApplyTask == [kind: {"apply"}, room: Room,
              phase: {"queued", "starting", "awaitingStop"},
              savedEnabled: {FALSE}, savedByRoom: {NoRoom}]

\* A task to stop; its saved flags are the locals of stopNetworkThrottleInternal().
StopTask == [kind: {"stop"}, room: {NoRoom}, phase: {"queued", "stopping"},
             savedEnabled: BOOLEAN, savedByRoom: Room \cup {NoRoom}]

Task == ApplyTask \cup StopTask

TypeOK ==
  /\ open \subseteq Room
  /\ server \in {"open", "closed", "exited"}
  /\ enabled \in BOOLEAN /\ byRoom \in Room \cup {NoRoom}
  /\ tasks \in Seq(Task)
  /\ resolved \subseteq Room
  /\ active \in BOOLEAN
  /\ owner \in Room \cup {NoRoom} /\ atClose \subseteq {"recorded", "idle", "failed"}
  /\ leftover \in BOOLEAN
  /\ applies \in 0 .. MaxApply /\ stops \in 0 .. MaxStop

Init ==
  /\ open = {} /\ server = "open"
  /\ enabled = FALSE /\ byRoom = NoRoom
  /\ tasks = <<>> /\ resolved = {}
  /\ active = FALSE
  /\ owner = NoRoom /\ atClose = {} /\ leftover = FALSE
  /\ applies = 0 /\ stops = 0

-----------------------------------------------------------------------------

NewTask(kind, r) ==
  [kind |-> kind, room |-> r, phase |-> "queued",
   savedEnabled |-> FALSE, savedByRoom |-> NoRoom]

\* Microtasks are waiting: no other turn begins.
Microtasks ==
  resolved # {} \/ (tasks # <<>> /\ Head(tasks).phase = "queued")

Turn == ~Microtasks /\ server # "exited"

\* The running task, changed.
Running(t) == <<t>> \o Tail(tasks)

\* The first part of stopNetworkThrottleInternal(): "let's be optimistic".
Stopping(t, by) == [t EXCEPT !.phase = "stopping",
                             !.savedEnabled = enabled, !.savedByRoom = by]

\* n pushes of stopNetworkThrottleInternal() in one turn; a push on an empty
\* queue runs the task up to its first await at once, with by in #...ByRoomId.
PushStops(n, by) ==
  LET new == [k \in 1 .. n |-> NewTask("stop", NoRoom)] IN
  IF tasks = <<>> /\ n > 0
  THEN /\ tasks' = [new EXCEPT ![1] = Stopping(@, by)]
       /\ enabled' = FALSE
  ELSE /\ tasks' = tasks \o new
       /\ UNCHANGED enabled

-----------------------------------------------------------------------------
(* Requests of Rooms.                                                      *)

\* A Room is created, possibly with the roomId of one that closed.
OpenRoom(r) ==
  /\ Turn /\ server = "open" /\ r \notin open
  /\ open' = open \cup {r}
  /\ UNCHANGED <<server, flags, tasks, resolved, active, history, applies, stops>>

\* A Peer of r asks for the throttle: applyNetworkThrottleInternal() is pushed.
Apply(r) ==
  /\ Turn /\ r \in open /\ applies < MaxApply
  /\ applies' = applies + 1
  /\ tasks' = Append(tasks, NewTask("apply", r))
  /\ UNCHANGED <<open, server, flags, resolved, active, history, stops>>

\* A Peer of r asks to stop it, whoever applied it.
Stop(r) ==
  /\ Turn /\ r \in open /\ stops < MaxStop
  /\ stops' = stops + 1
  /\ PushStops(1, byRoom)
  /\ byRoom' = IF tasks = <<>> THEN NoRoom ELSE byRoom
  /\ UNCHANGED <<open, server, resolved, active, history, applies>>

-----------------------------------------------------------------------------
(* The queue.                                                              *)

\* The task at the head begins.  An apply that finds the throttle enabled
\* pushes a stop on the queue it is running in, and awaits it.
Start ==
  /\ tasks # <<>> /\ server # "exited"
  /\ LET t == Head(tasks) IN
     /\ t.phase = "queued"
     /\ \/ /\ t.kind = "apply" /\ enabled
           /\ tasks' = Append(Running([t EXCEPT !.phase = "awaitingStop"]),
                              NewTask("stop", NoRoom))
           /\ UNCHANGED flags
        \/ /\ t.kind = "apply" /\ ~enabled
           /\ tasks' = Running([t EXCEPT !.phase = "starting"])
           /\ UNCHANGED flags
        \/ /\ t.kind = "stop"
           /\ tasks' = Running(Stopping(t, byRoom))
           /\ enabled' = FALSE /\ byRoom' = NoRoom
  /\ UNCHANGED <<open, server, resolved, active, history, applies, stops>>

\* Mutant: a start that failed is cleaned up with a stop, awaited in the queue.
StartedOrCleaned ==
  /\ Turn /\ tasks # <<>> /\ Head(tasks).phase = "starting"
  /\ \/ /\ tasks' = Tail(tasks)
        /\ active' = TRUE /\ enabled' = TRUE
        /\ owner' = Head(tasks).room
        /\ resolved' = resolved \cup {Head(tasks).room}
        /\ leftover' = FALSE
     \/ /\ "start" \in Fails
        /\ tasks' = Append(Running([Head(tasks) EXCEPT !.phase = "awaitingStop"]),
                           NewTask("stop", NoRoom))
        /\ active' \in BOOLEAN /\ leftover' = active'
        /\ UNCHANGED <<enabled, owner, resolved>>
  /\ UNCHANGED <<open, server, byRoom, atClose, applies, stops>>

\* throttle.start() settles.  It is several commands: a failure leaves the network
\* throttled or not, and nothing is cleaned up.
Started ==
  /\ Turn /\ tasks # <<>> /\ Head(tasks).phase = "starting"
  /\ tasks' = Tail(tasks)
  /\ \/ /\ active' = TRUE /\ enabled' = TRUE
        /\ owner' = Head(tasks).room
        /\ resolved' = resolved \cup {Head(tasks).room}
        /\ leftover' = FALSE
     \/ /\ "start" \in Fails
        /\ active' \in BOOLEAN /\ leftover' = active'
        /\ UNCHANGED <<enabled, owner, resolved>>
  /\ UNCHANGED <<open, server, byRoom, atClose, applies, stops>>

\* The .then() of handleRoom(): the request of r resolved.
Recorded(r) ==
  /\ r \in resolved /\ server # "exited"
  /\ resolved' = resolved \ {r}
  /\ byRoom' = r
  /\ UNCHANGED <<open, server, enabled, tasks, active, history, applies, stops>>

\* Mutant: the flags stay optimistic when a command failed.
KeepFlags(t) == UNCHANGED flags

\* What the task does about the flags when a command failed.
RestoreFlags(t) == enabled' = t.savedEnabled /\ byRoom' = t.savedByRoom

\* Both throttle.stop() settle; either may fail, so a failure leaves the network
\* throttled or not.
Stopped ==
  /\ Turn /\ tasks # <<>> /\ Head(tasks).phase = "stopping"
  /\ tasks' = Tail(tasks)
  /\ \/ /\ active' = FALSE /\ owner' = NoRoom
        /\ UNCHANGED <<flags, atClose>>
     \/ /\ "stop" \in Fails
        /\ RestoreFlags(Head(tasks))
        /\ active' \in {active, FALSE}
        /\ atClose' = IF server = "closed" THEN atClose \cup {"failed"} ELSE atClose
        /\ UNCHANGED owner
  /\ leftover' = (leftover /\ active')
  /\ UNCHANGED <<open, server, resolved, applies, stops>>

-----------------------------------------------------------------------------
(* Closures.                                                               *)

\* The 'closed' listener of handleRoom(): only the Room that is remembered
\* stops the throttle, but every Room that closes wipes the memory.
CloseRoom(r) ==
  /\ Turn /\ r \in open
  /\ open' = open \ {r}
  /\ PushStops(IF r = byRoom THEN 1 ELSE 0, byRoom)
  /\ byRoom' = NoRoom
  /\ UNCHANGED <<server, resolved, active, history, applies, stops>>

\* Mutant: Server.close() leaves the throttle to the Rooms.
ClosingStops(byItsRoom) == IF byItsRoom THEN 1 ELSE 0

\* The stops a Server.close() pushes: that of the remembered Room, when it is
\* the first to close, and one more if the flag is still set.
StopsOnClose(byItsRoom) ==
  (IF byItsRoom THEN 1 ELSE 0)
  + (IF enabled /\ ~(byItsRoom /\ tasks = <<>>) THEN 1 ELSE 0)

\* Server.close() of an open Server: it closes the Rooms one after the other,
\* then looks at the flag.  The queue is not stopped.
CloseServer ==
  /\ Turn /\ server = "open"
  /\ open' = {}
  /\ \E first \in IF open = {} THEN {NoRoom} ELSE open :
       LET byItsRoom == first = byRoom /\ open # {}
           n == StopsOnClose(byItsRoom)
       IN  /\ PushStops(n, IF byItsRoom \/ open = {} THEN byRoom ELSE NoRoom)
           /\ byRoom' = IF open # {} \/ (tasks = <<>> /\ n > 0) THEN NoRoom
                        ELSE byRoom
  /\ atClose' = {h \in {"recorded", "idle"} :
                   IF h = "recorded" THEN enabled ELSE tasks = <<>>}
  /\ UNCHANGED <<resolved, owner, applies, stops>>

\* A signal: index.ts closes the Server and lets the process run until nothing
\* is left to do.
Terminate ==
  /\ CloseServer
  /\ server' = "closed"
  /\ UNCHANGED <<active, leftover>>

\* A Worker dies: the Server closes, index.ts forgets it on 'closed', so that
\* on 'died' it does not wait for the throttle and calls process.exit().  A
\* stop under way is cut short, before or after it took effect.
WorkerDied ==
  /\ MayDie
  /\ CloseServer
  /\ server' = "exited"
  /\ \/ UNCHANGED active
     \/ tasks' # <<>> /\ Head(tasks').phase = "stopping" /\ active' = FALSE
  /\ leftover' = (leftover /\ active')

-----------------------------------------------------------------------------

Next ==
  \/ \E r \in Room : OpenRoom(r) \/ Apply(r) \/ Stop(r) \/ Recorded(r) \/ CloseRoom(r)
  \/ Start \/ Started \/ Stopped \/ Terminate \/ WorkerDied

Spec == Init /\ [][Next]_vars

\* The process runs its microtasks, and a throttle command ends.
FairSpec ==
  Spec /\ WF_vars(Start) /\ WF_vars(Started) /\ WF_vars(Stopped)
       /\ \A r \in Room : WF_vars(Recorded(r))

-----------------------------------------------------------------------------
(* Properties.                                                             *)

\* Every request to apply or stop the throttle settles, whatever is asked
\* meanwhile (Server.ts: enqueued to avoid races when called multiple times).
EveryRequestSettles == (tasks # <<>>) ~> (tasks = <<>> \/ server = "exited")

\* The closure of a Server that knows the throttle to be enabled, and is doing
\* nothing about it, stops it, unless the command fails or the process exits.
ClosureStopsIdleThrottle ==
  (atClose = {"recorded", "idle"})
    ~> (~active \/ "failed" \in atClose \/ server = "exited")

\* index.ts: the Server is always closed, so its closure will stop the throttle.
\* Here: also when a Worker died while nothing was asked of the throttle.
DeathStopsIdleThrottle ==
  (atClose = {"recorded", "idle"} /\ server = "exited") ~> ~active

\* index.ts: the Server is always closed, so its closure will stop the throttle.
ClosureStopsThrottle == (server # "open") ~> ~active

\* Server.ts: when the Room that applied the throttle closes, it is stopped.
\* Here: a stop is in the queue after the closure.
OwnerClosureStops ==
  [][\A r \in open \ open' :
       r = owner /\ enabled => \E k \in DOMAIN tasks' : tasks'[k].kind = "stop"]_vars

=============================================================================
