---------------------------- MODULE RoomRegistry ----------------------------
(***************************************************************************)
(* How the Server hands out Rooms: getOrCreateRoom() with its table of     *)
(* roomDatas, one AwaitQueue per roomData, the round robin over mediasoup  *)
(* Workers, the creation of a Room in several awaits that may fail, and    *)
(* the closure of Rooms and of the Server. (server/src/Server.ts)          *)
(*                                                                         *)
(* A roomData and a Room are named after the request that made them.  The  *)
(* start of a task is a microtask (Run): no other turn overtakes it.       *)
(***************************************************************************)
EXTENDS Naturals, Sequences

CONSTANTS
  Request,    \* the WebSocket connection requests
  RoomId,
  NumWorkers, \* config.mediasoup.numWorkers
  None

ASSUME WorkersAssumption == NumWorkers \in Nat \ {0}

Worker == 0 .. NumWorkers - 1

ASSUME NoneAssumption ==
  /\ {None, "pending", "rejected"} \cap Request = {}
  /\ None \notin [roomId: RoomId, pipe: BOOLEAN] \cup (Worker \X Worker)

VARIABLES
  asked,      \* asked[q]: [roomId, pipe] of the request, or None
  answer,     \* answer[q]: a Room, "pending", "rejected", or None
  roomQueues, \* Server.#roomQueues, by roomId
  queue,      \* queue[d]: the tasks of roomData d, the running one first
  stage,      \* stage[d]: the await the running task is in, or "queued"
  room,       \* room[d]: the Room of roomData d
  workers,    \* workers[R]: the Workers of the Routers of R, or None
  status,     \* status[R]: "none", "open" or "closed"
  nextWorkerIdx,
  picks,      \* history: how often each Worker was handed out
  closed      \* Server.#closed

vars == <<asked, answer, roomQueues, queue, stage, room, workers, status,
          nextWorkerIdx, picks, closed>>

Stages == {"queued", "producerRouter", "consumerRouter", "room"}

TypeOK ==
  /\ asked \in [Request -> [roomId: RoomId, pipe: BOOLEAN] \cup {None}]
  /\ answer \in [Request -> Request \cup {"pending", "rejected", None}]
  /\ roomQueues \in [RoomId -> Request \cup {None}]
  /\ queue \in [Request -> Seq(Request)]
  /\ stage \in [Request -> Stages]
  /\ room \in [Request -> Request \cup {None}]
  /\ workers \in [Request -> (Worker \X Worker) \cup {None}]
  /\ status \in [Request -> {"none", "open", "closed"}]
  /\ nextWorkerIdx \in Worker
  /\ picks \in [Worker -> Nat]
  /\ closed \in BOOLEAN

Init ==
  /\ asked = [q \in Request |-> None]
  /\ answer = [q \in Request |-> None]
  /\ roomQueues = [r \in RoomId |-> None]
  /\ queue = [d \in Request |-> <<>>]
  /\ stage = [d \in Request |-> "queued"]
  /\ room = [d \in Request |-> None]
  /\ workers = [R \in Request |-> None]
  /\ status = [R \in Request |-> "none"]
  /\ nextWorkerIdx = 0
  /\ picks = [w \in Worker |-> 0]
  /\ closed = FALSE

-----------------------------------------------------------------------------

IdOf(q) == asked[q].roomId

\* The turn of a task has come: the queue runs it before any other turn.
Microtask(d) == queue[d] # <<>> /\ stage[d] = "queued"

Turn == \A d \in Request : ~Microtask(d)

\* The running task of d settles with answer a, and leaves the queue.
Settle(d, a) ==
  /\ answer' = [answer EXCEPT ![Head(queue[d])] = a]
  /\ queue' = [queue EXCEPT ![d] = Tail(@)]
  /\ stage' = [stage EXCEPT ![d] = "queued"]

-----------------------------------------------------------------------------
(* Requests.                                                               *)

\* Mutant: every request makes a roomData of its own.
FreshRoomData(q, r) == q

\* The roomData getOrCreateRoom() uses: the one in the table, or a new one.
RoomDataFor(q, r) == IF roomQueues[r] # None THEN roomQueues[r] ELSE q

\* getOrCreateRoom() up to the push on the queue.
GetOrCreateRoom(q, r, pipe) ==
  /\ Turn /\ ~closed /\ asked[q] = None
  /\ asked' = [asked EXCEPT ![q] = [roomId |-> r, pipe |-> pipe]]
  /\ LET d == RoomDataFor(q, r)
         refused == pipe /\ NumWorkers < 2
     IN  /\ answer' = [answer EXCEPT ![q] = IF refused THEN "rejected" ELSE "pending"]
         /\ roomQueues' = [roomQueues EXCEPT ![r] = IF refused THEN @ ELSE d]
         /\ queue' = [queue EXCEPT ![d] = IF refused THEN @ ELSE Append(@, q)]
  /\ UNCHANGED <<stage, room, workers, status, nextWorkerIdx, picks, closed>>

\* Mutant: the index wraps one Worker too late, and stays on the last one.
LateWrap(i) == IF i + 1 > NumWorkers - 1 THEN i ELSE i + 1

\* ++#nextWorkerIdx, back to 0 at the number of Workers.
NextIdx(i) == IF i + 1 = NumWorkers THEN 0 ELSE i + 1

\* The Workers a new Room gets: two calls of getNextWorkerAndWebRtcServer()
\* with pipe transports, else one.
PickedWorkers(pipe) ==
  <<nextWorkerIdx, IF pipe THEN NextIdx(nextWorkerIdx) ELSE nextWorkerIdx>>

\* The task begins: it fails if the roomId left the table, returns the Room if
\* there is one, and else asks for the producer Router.
Run(d) ==
  /\ Microtask(d)
  /\ LET q == Head(queue[d])
         gone == roomQueues[IdOf(q)] = None IN
     \/ /\ gone \/ room[d] # None
        /\ Settle(d, IF gone THEN "rejected" ELSE room[d])
        /\ UNCHANGED <<workers, nextWorkerIdx, picks>>
     \/ /\ ~gone /\ room[d] = None
        /\ stage' = [stage EXCEPT ![d] = "producerRouter"]
        /\ LET w == PickedWorkers(asked[q].pipe) IN
           /\ workers' = [workers EXCEPT ![q] = w]
           /\ nextWorkerIdx' = NextIdx(w[2])
           /\ picks' = [v \in Worker |->
                picks[v] + (IF v = w[1] THEN 1 ELSE 0)
                         + (IF v = w[2] /\ asked[q].pipe THEN 1 ELSE 0)]
        /\ UNCHANGED <<answer, queue>>
  /\ UNCHANGED <<asked, roomQueues, room, status, closed>>

\* createRouter() resolves.
RouterCreated(d) ==
  /\ Turn /\ queue[d] # <<>>
  /\ \/ /\ stage[d] = "producerRouter"
        /\ stage' = [stage EXCEPT
             ![d] = IF asked[Head(queue[d])].pipe THEN "consumerRouter" ELSE "room"]
     \/ /\ stage[d] = "consumerRouter"
        /\ stage' = [stage EXCEPT ![d] = "room"]
  /\ UNCHANGED <<asked, answer, roomQueues, queue, room, workers, status,
                 nextWorkerIdx, picks, closed>>

\* An await of the creation rejects: the roomData stays in the table, without
\* a Room, and Routers that were created stay behind.
CreationFailed(d) ==
  /\ Turn /\ queue[d] # <<>>
  /\ Settle(d, "rejected")
  /\ UNCHANGED <<asked, roomQueues, room, workers, status, nextWorkerIdx, picks,
                 closed>>

\* Room.create() resolves: the Room is recorded and its 'closed' listened to.
RoomCreated(d) ==
  /\ Turn /\ queue[d] # <<>> /\ stage[d] = "room"
  /\ LET q == Head(queue[d]) IN
     /\ status' = [status EXCEPT ![q] = "open"]
     /\ room' = [room EXCEPT ![d] = q]
     /\ Settle(d, q)
  /\ UNCHANGED <<asked, roomQueues, workers, nextWorkerIdx, picks, closed>>

-----------------------------------------------------------------------------
(* Closures.                                                               *)

\* Mutant: nobody listens to the closure of the Room.
KeepRoom(R) == UNCHANGED <<room, roomQueues>>

\* The 'closed' listener of handleRoom().
Forget(R) ==
  /\ room' = [d \in Request |-> IF d = roomQueues[IdOf(R)] THEN None ELSE room[d]]
  /\ roomQueues' = [roomQueues EXCEPT ![IdOf(R)] = None]

\* A Room closes: its last Peer left, or one of its Routers closed.
CloseRoom(R) ==
  /\ Turn /\ status[R] = "open"
  /\ status' = [status EXCEPT ![R] = "closed"]
  /\ Forget(R)
  /\ UNCHANGED <<asked, answer, queue, stage, workers, nextWorkerIdx, picks, closed>>

\* Mutant: the roomDatas with a creation under way are skipped.
KnownIdle == {roomQueues[r] : r \in RoomId} \cap {d \in Request : queue[d] = <<>>}

\* The roomDatas Server.close() walks through.
Known == {roomQueues[r] : r \in RoomId} \ {None}

\* Mutant: the queues are forgotten instead of stopped.
AnswersAsTheyWere == answer

\* Stopping a queue rejects the tasks that are pending in it.
AnswersAfterStop ==
  [q \in Request |->
     IF \E d \in Known : \E k \in DOMAIN queue[d] : queue[d][k] = q
     THEN "rejected" ELSE answer[q]]

\* Server.close(): the queues stop, which rejects what is pending in them, the
\* Rooms close, and so do the Workers: an await of a creation under way rejects.
CloseServer ==
  /\ Turn /\ ~closed
  /\ closed' = TRUE
  /\ answer' = AnswersAfterStop
  /\ queue' = [d \in Request |-> IF d \in Known THEN <<>> ELSE queue[d]]
  /\ stage' = [d \in Request |-> IF d \in Known THEN "queued" ELSE stage[d]]
  /\ status' = [R \in Request |->
       IF \E d \in Known : room[d] = R THEN "closed" ELSE status[R]]
  /\ roomQueues' = [r \in RoomId |->
       IF roomQueues[r] # None /\ room[roomQueues[r]] # None THEN None
       ELSE roomQueues[r]]
  /\ room' = [d \in Request |-> IF d \in Known THEN None ELSE room[d]]
  /\ UNCHANGED <<asked, workers, nextWorkerIdx, picks>>

-----------------------------------------------------------------------------

Next ==
  \/ \E q \in Request, r \in RoomId, pipe \in BOOLEAN : GetOrCreateRoom(q, r, pipe)
  \/ \E d \in Request :
       \/ Run(d) \/ RouterCreated(d) \/ CreationFailed(d) \/ RoomCreated(d)
       \/ CloseRoom(d)
  \/ CloseServer

Spec == Init /\ [][Next]_vars

\* A request to a mediasoup Worker is answered, and the queues run their tasks.
FairSpec ==
  Spec /\ \A d \in Request :
    /\ WF_vars(Run(d))
    /\ WF_vars(RouterCreated(d) \/ CreationFailed(d) \/ RoomCreated(d))

-----------------------------------------------------------------------------
(* Properties.                                                             *)

\* However the creations, failures and closures of Rooms interleave, a roomId
\* has at most one open Room.
OneOpenRoomPerId ==
  \A R, S \in Request :
    status[R] = "open" /\ status[S] = "open" /\ IdOf(R) = IdOf(S) => R = S

\* The table and the Rooms agree: an open Room is found under its roomId (by the
\* next connection, by the API and by Server.close()), and nothing else is.
TableHoldsOpenRooms ==
  /\ \A R \in Request : status[R] = "open" =>
       roomQueues[IdOf(R)] # None /\ room[roomQueues[IdOf(R)]] = R
  /\ \A r \in RoomId : roomQueues[r] # None =>
       LET R == room[roomQueues[r]] IN
         R # None => status[R] = "open" /\ IdOf(R) = r

\* The verification that begins a task never fails: a roomData with tasks is
\* still the one in the table for the roomId they ask for.
TasksHaveTheirEntry ==
  ~closed => \A d \in Request : \A k \in DOMAIN queue[d] :
               roomQueues[IdOf(queue[d][k])] = d

\* A connection is never handed a Room that is closed when it gets it.
HandedRoomsAreOpen ==
  [][\A q \in Request : answer[q] = "pending" /\ answer'[q] \in Request
       => status'[answer'[q]] = "open" /\ IdOf(answer'[q]) = IdOf(q)]_vars

\* A closed Server has no open Room and gets none.
NoRoomAfterClose == closed => \A R \in Request : status[R] # "open"

\* The two Routers of a Room with pipe transports are on different Workers.
PipesJoinWorkers ==
  \A R \in Request : status[R] = "open" /\ asked[R].pipe => workers[R][1] # workers[R][2]

\* Round robin: no Worker is handed out two times more often than another,
\* however the creations of Rooms with one and two Routers interleave.
PicksAreBalanced == \A v, w \in Worker : picks[v] <= picks[w] + 1

\* Every connection request is answered with a Room or a rejection.
EveryRequestAnswered == \A q \in Request : (answer[q] = "pending") ~> (answer[q] # "pending")

=============================================================================
