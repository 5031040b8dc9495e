------------------------- MODULE RoomRegistry_proofs -------------------------
(***************************************************************************)
(* Proofs about the Server: RoomRegistry, and NetworkThrottle at the end.  *)
(* Consistent says how the table, the queues, the running creations and    *)
(* the Rooms hang together; everything about Rooms follows from it.        *)
(* Rotated gives the round robin its closed form.  ThrottleInv is the      *)
(* invariant of the throttle.                                              *)
(***************************************************************************)
EXTENDS RoomRegistry, ThrottleFlags, TLAPS

\* A roomData in the table is named after a request for the roomId it is under.
TableInv ==
  \A r \in RoomId : roomQueues[r] # None =>
    asked[roomQueues[r]] # None /\ IdOf(roomQueues[r]) = r

\* Tasks ask for the roomId their roomData is under; with pipes only if there
\* are two Workers.
TaskInv ==
  \A d \in Request : \A k \in 1 .. Len(queue[d]) :
    LET q == queue[d][k] IN
      /\ asked[q] # None /\ roomQueues[IdOf(q)] = d
      /\ asked[q].pipe => NumWorkers >= 2

\* A creation is under way only where there is no Room, and has its Workers.
StageInv ==
  \A d \in Request :
    /\ room[d] # None => stage[d] = "queued"
    /\ stage[d] # "queued" => queue[d] # <<>> /\ workers[Head(queue[d])] # None

\* Rooms, roomDatas and table point to each other.
RoomInv ==
  /\ \A d \in Request : room[d] # None =>
       status[room[d]] = "open" /\ roomQueues[IdOf(room[d])] = d
  /\ \A R \in Request : status[R] = "open" =>
       /\ asked[R] # None /\ workers[R] # None
       /\ roomQueues[IdOf(R)] # None /\ room[roomQueues[IdOf(R)]] = R

\* Workers are only given to requests, and two different ones for pipes.
WorkerInv ==
  \A q \in Request : workers[q] # None =>
    asked[q] # None /\ (asked[q].pipe => workers[q][1] # workers[q][2])

\* A closed Server has no Rooms and runs nothing.
ClosedInv ==
  closed => \A d \in Request : room[d] = None /\ queue[d] = <<>>

Consistent ==
  TypeOK /\ TableInv /\ TaskInv /\ StageInv /\ RoomInv /\ WorkerInv /\ ClosedInv

-----------------------------------------------------------------------------
(* Operators.                                                              *)

\* A Worker has a successor, another one if there are two.
LEMMA NextIdxInWorker ==
  ASSUME NEW i \in Worker
  PROVE  NextIdx(i) \in Worker /\ (NumWorkers >= 2 => NextIdx(i) # i)
BY WorkersAssumption DEF NextIdx, Worker

\* The first task of a queue is a request, and the others are those of the tail.
LEMMA QueueHead ==
  ASSUME NEW s \in Seq(Request), s # <<>>
  PROVE  /\ Len(s) \in Nat \ {0} /\ Head(s) \in Request /\ Head(s) = s[1]
         /\ Tail(s) \in Seq(Request) /\ Len(Tail(s)) = Len(s) - 1
         /\ \A k \in 1 .. Len(Tail(s)) : Tail(s)[k] = s[k + 1]
OBVIOUS

\* What is in the queue after a push.
LEMMA QueuePush ==
  ASSUME NEW s \in Seq(Request), NEW q \in Request
  PROVE  /\ Append(s, q) \in Seq(Request) /\ Len(Append(s, q)) = Len(s) + 1
         /\ Append(s, q) # <<>> /\ Append(s, q)[Len(s) + 1] = q
         /\ \A k \in 1 .. Len(s) : Append(s, q)[k] = s[k]
         /\ s # <<>> => Head(Append(s, q)) = Head(s)
<1>1. /\ Append(s, q) \in Seq(Request) /\ Len(Append(s, q)) = Len(s) + 1
      /\ Append(s, q)[Len(s) + 1] = q
      /\ \A k \in 1 .. Len(s) : Append(s, q)[k] = s[k]
  OBVIOUS
<1>2. Append(s, q) # <<>>
  BY <1>1
<1>3. s # <<>> => Head(Append(s, q)) = Head(s)
  BY <1>1, <1>2, QueueHead
<1> QED BY <1>1, <1>2, <1>3

LEMMA NoneOfThese ==
  /\ None \notin Request /\ "pending" \notin Request /\ "rejected" \notin Request
  /\ None \notin [roomId: RoomId, pipe: BOOLEAN] /\ None \notin Worker \X Worker
BY NoneAssumption

-----------------------------------------------------------------------------
(* Consistent is inductive.                                                *)

LEMMA InitConsistent == Init => Consistent
<1> SUFFICES ASSUME Init PROVE Consistent
  OBVIOUS
<1>1. TypeOK
  <2>1. 0 \in Worker
    BY WorkersAssumption DEF Worker
  <2>2. queue \in [Request -> Seq(Request)]
    BY DEF Init
  <2> QED BY <2>1, <2>2 DEF Init, TypeOK, Stages
<1>2. TableInv /\ TaskInv /\ StageInv /\ RoomInv /\ WorkerInv /\ ClosedInv
  BY DEF Init, TableInv, TaskInv, StageInv, RoomInv, WorkerInv, ClosedInv
<1> QED BY <1>1, <1>2 DEF Consistent

\* A request is recorded, and pushed if it is not refused at once.
LEMMA StepRequest ==
  ASSUME Consistent, NEW q \in Request, NEW r \in RoomId, NEW pipe \in BOOLEAN,
         GetOrCreateRoom(q, r, pipe)
  PROVE  Consistent'
<1> DEFINE d == RoomDataFor(q, r)
           refused == pipe /\ NumWorkers < 2
<1> USE NoneOfThese DEF Consistent, IdOf
<1>1. d \in Request
  BY DEF TypeOK, RoomDataFor
<1>2. TypeOK'
  <2>1. Append(queue[d], q) \in Seq(Request)
    BY <1>1, QueuePush DEF TypeOK
  <2> QED BY <1>1, <2>1 DEF TypeOK, GetOrCreateRoom
<1>3. /\ asked' = [asked EXCEPT ![q] = [roomId |-> r, pipe |-> pipe]]
      /\ asked[q] = None
      /\ roomQueues' = [roomQueues EXCEPT ![r] = IF refused THEN @ ELSE d]
      /\ queue' = [queue EXCEPT ![d] = IF refused THEN @ ELSE Append(@, q)]
      /\ ~closed
      /\ UNCHANGED <<stage, room, workers, status, nextWorkerIdx, picks, closed>>
  BY DEF GetOrCreateRoom
<1>4. \A e \in Request : asked[e] # None => asked'[e] = asked[e]
  BY <1>3 DEF TypeOK
<1>5. asked'[q] # None /\ asked'[q].roomId = r /\ asked'[q].pipe = pipe
  <2>1. asked'[q] = [roomId |-> r, pipe |-> pipe]
    BY <1>3 DEF TypeOK
  <2> QED BY <2>1
<1>6. TableInv'
  BY <1>1, <1>3, <1>4, <1>5 DEF TypeOK, TableInv, RoomDataFor
<1>7. TaskInv'
  <2> SUFFICES ASSUME NEW e \in Request, NEW k \in 1 .. Len(queue'[e])
               PROVE  /\ asked'[queue'[e][k]] # None
                      /\ roomQueues'[asked'[queue'[e][k]].roomId] = e
                      /\ asked'[queue'[e][k]].pipe => NumWorkers >= 2
    BY DEF TaskInv
  <2>1. CASE e = d /\ ~refused /\ k = Len(queue[d]) + 1
    BY <1>1, <1>2, <1>3, <1>5, <2>1, QueuePush, WorkersAssumption DEF TypeOK
  <2>2. CASE ~(e = d /\ ~refused /\ k = Len(queue[d]) + 1)
    <3>1. k \in 1 .. Len(queue[e]) /\ queue'[e][k] = queue[e][k]
      BY <1>1, <1>3, <2>2, QueuePush DEF TypeOK
    <3>2. /\ asked[queue[e][k]] # None /\ roomQueues[asked[queue[e][k]].roomId] = e
          /\ asked[queue[e][k]].pipe => NumWorkers >= 2
          /\ queue[e][k] \in Request
      BY <3>1 DEF TaskInv, TypeOK
    <3>3. roomQueues'[asked[queue[e][k]].roomId] = e
      BY <3>2, <1>3 DEF TypeOK, RoomDataFor
    <3> QED BY <3>1, <3>2, <3>3, <1>4
  <2> QED BY <2>1, <2>2
<1>8. StageInv'
  <2>1. \A e \in Request : queue[e] # <<>> => Head(queue'[e]) = Head(queue[e])
    BY <1>1, <1>3, QueuePush DEF TypeOK
  <2>2. ASSUME NEW e \in Request, queue[e] # <<>> PROVE queue'[e] # <<>>
    <3>1. CASE e = d /\ ~refused
      <4>1. queue'[e] = Append(queue[d], q)
        BY <1>1, <1>3, <3>1 DEF TypeOK
      <4> QED BY <4>1, <1>1, QueuePush DEF TypeOK
    <3> QED BY <3>1, <1>1, <1>3, <2>2 DEF TypeOK
  <2> QED BY <2>1, <2>2, <1>3 DEF StageInv
<1>9. RoomInv' /\ WorkerInv' /\ ClosedInv'
  BY <1>3, <1>4 DEF TypeOK, RoomInv, WorkerInv, ClosedInv, TableInv, RoomDataFor
<1> QED BY <1>2, <1>6, <1>7, <1>8, <1>9

\* Facts of an action that settles the first task of d, whatever its answer.
LEMMA StepSettle ==
  ASSUME Consistent, NEW d \in Request, queue[d] # <<>>, NEW a, Settle(d, a)
  PROVE  /\ Head(queue[d]) \in Request
         /\ queue' \in [Request -> Seq(Request)] /\ stage' \in [Request -> Stages]
         /\ stage'[d] = "queued"
         /\ \A e \in Request \ {d} : queue'[e] = queue[e] /\ stage'[e] = stage[e]
         /\ \A e \in Request : \A k \in 1 .. Len(queue'[e]) :
              \E j \in 1 .. Len(queue[e]) : queue'[e][k] = queue[e][j]
         /\ \A q \in Request : answer'[q] = IF q = Head(queue[d]) THEN a ELSE answer[q]
<1>1. queue \in [Request -> Seq(Request)] /\ stage \in [Request -> Stages]
      /\ DOMAIN answer = Request
  BY DEF Consistent, TypeOK
<1>2. /\ answer' = [answer EXCEPT ![Head(queue[d])] = a]
      /\ queue' = [queue EXCEPT ![d] = Tail(@)]
      /\ stage' = [stage EXCEPT ![d] = "queued"]
  BY DEF Settle
<1>3. /\ Head(queue[d]) \in Request /\ Tail(queue[d]) \in Seq(Request)
      /\ Len(queue[d]) \in Nat \ {0} /\ Len(Tail(queue[d])) = Len(queue[d]) - 1
      /\ \A k \in 1 .. Len(Tail(queue[d])) : Tail(queue[d])[k] = queue[d][k + 1]
  BY <1>1, QueueHead
<1>4. /\ queue' \in [Request -> Seq(Request)] /\ stage' \in [Request -> Stages]
      /\ stage'[d] = "queued" /\ queue'[d] = Tail(queue[d])
      /\ \A e \in Request \ {d} : queue'[e] = queue[e] /\ stage'[e] = stage[e]
  BY <1>1, <1>2, <1>3 DEF Stages
<1>5. ASSUME NEW e \in Request, NEW k \in 1 .. Len(queue'[e])
      PROVE  \E j \in 1 .. Len(queue[e]) : queue'[e][k] = queue[e][j]
  <2>1. CASE e = d
    <3>1. k \in 1 .. Len(Tail(queue[d])) /\ k + 1 \in 1 .. Len(queue[d])
      BY <2>1, <1>3, <1>4
    <3> QED BY <2>1, <3>1, <1>3, <1>4
  <2>2. CASE e # d
    BY <2>2, <1>4
  <2> QED BY <2>1, <2>2
<1>6. \A q \in Request : answer'[q] = IF q = Head(queue[d]) THEN a ELSE answer[q]
  BY <1>1, <1>2
<1> QED BY <1>3, <1>4, <1>5, <1>6

\* A task answers without a creation: nothing but queues and answers change.
LEMMA StepAnswer ==
  ASSUME Consistent, NEW d \in Request, queue[d] # <<>>,
         NEW a \in Request \cup {"pending", "rejected", None}, Settle(d, a),
         UNCHANGED <<asked, roomQueues, room, workers, status, nextWorkerIdx,
                     picks, closed>>
  PROVE  Consistent'
<1> USE DEF Consistent, IdOf
<1>0. /\ Head(queue[d]) \in Request
      /\ queue' \in [Request -> Seq(Request)] /\ stage' \in [Request -> Stages]
      /\ stage'[d] = "queued"
      /\ \A e \in Request \ {d} : queue'[e] = queue[e] /\ stage'[e] = stage[e]
      /\ \A e \in Request : \A k \in 1 .. Len(queue'[e]) :
           \E j \in 1 .. Len(queue[e]) : queue'[e][k] = queue[e][j]
  BY StepSettle
<1>1. TypeOK'
  BY <1>0 DEF TypeOK, Settle
<1>2. TaskInv'
  <2> SUFFICES ASSUME NEW e \in Request, NEW k \in 1 .. Len(queue'[e])
               PROVE  /\ asked[queue'[e][k]] # None
                      /\ roomQueues[asked[queue'[e][k]].roomId] = e
                      /\ asked[queue'[e][k]].pipe => NumWorkers >= 2
    BY DEF TaskInv
  <2>1. PICK j \in 1 .. Len(queue[e]) : queue'[e][k] = queue[e][j]
    BY <1>0
  <2> QED BY <2>1 DEF TaskInv
<1>3. StageInv'
  BY <1>0 DEF StageInv
<1>4. TableInv' /\ RoomInv' /\ WorkerInv'
  BY <1>0 DEF TableInv, RoomInv, WorkerInv
<1>5. ClosedInv'
  BY <1>0 DEF ClosedInv
<1> QED BY <1>1, <1>2, <1>3, <1>4, <1>5

\* A task begins.
LEMMA StepRun ==
  ASSUME Consistent, NEW d \in Request, Run(d)
  PROVE  Consistent'
<1> DEFINE q == Head(queue[d])
           w == PickedWorkers(asked[q].pipe)
<1> USE NoneOfThese DEF Consistent, IdOf
<1>1. /\ queue[d] # <<>> /\ queue[d] \in Seq(Request) /\ stage[d] = "queued"
      /\ q \in Request /\ Len(queue[d]) \in Nat \ {0} /\ q = queue[d][1]
  BY QueueHead DEF Run, Microtask, TypeOK
<1>2. CASE roomQueues[IdOf(q)] = None \/ room[d] # None
  <2>1. PICK a \in Request \cup {"pending", "rejected", None} : Settle(d, a)
    BY <1>2 DEF Run, TypeOK
  <2>2. UNCHANGED <<asked, roomQueues, room, workers, status, nextWorkerIdx,
                    picks, closed>>
    BY <1>2 DEF Run
  <2> QED BY <1>1, <2>1, <2>2, StepAnswer
<1>3. CASE roomQueues[IdOf(q)] # None /\ room[d] = None
  <2>1. /\ stage' = [stage EXCEPT ![d] = "producerRouter"]
        /\ workers' = [workers EXCEPT ![q] = w]
        /\ nextWorkerIdx' = NextIdx(w[2])
        /\ picks' = [v \in Worker |->
             picks[v] + (IF v = w[1] THEN 1 ELSE 0)
                      + (IF v = w[2] /\ asked[q].pipe THEN 1 ELSE 0)]
        /\ UNCHANGED <<answer, queue, asked, roomQueues, room, status, closed>>
    BY <1>3 DEF Run
  <2>2. /\ asked[q] # None /\ asked[q].pipe \in BOOLEAN
        /\ asked[q].pipe => NumWorkers >= 2
    BY <1>1 DEF TaskInv, TypeOK
  <2>3. /\ w \in Worker \X Worker /\ w # None
        /\ asked[q].pipe => w[1] # w[2]
        /\ NextIdx(w[2]) \in Worker
    BY <2>2, NextIdxInWorker DEF PickedWorkers, TypeOK
  <2>4. TypeOK'
    <3>1. picks' \in [Worker -> Nat]
      BY <2>1 DEF TypeOK
    <3> QED BY <1>1, <2>1, <2>3, <3>1 DEF TypeOK, Stages
  <2>5. TableInv' /\ TaskInv' /\ ClosedInv'
    BY <2>1 DEF TableInv, TaskInv, ClosedInv
  <2>6. StageInv'
    BY <1>1, <1>3, <2>1, <2>3 DEF StageInv, TypeOK
  <2>7. WorkerInv'
    BY <1>1, <2>1, <2>2, <2>3 DEF WorkerInv, TypeOK
  <2>8. RoomInv'
    BY <1>1, <2>1, <2>3 DEF RoomInv, TypeOK
  <2> QED BY <2>4, <2>5, <2>6, <2>7, <2>8
<1> QED BY <1>2, <1>3

\* A Router is there: the creation goes on.
LEMMA StepRouter ==
  ASSUME Consistent, NEW d \in Request, RouterCreated(d)
  PROVE  Consistent'
<1> USE DEF Consistent, IdOf
<1>1. /\ queue[d] # <<>> /\ stage[d] # "queued"
      /\ stage' \in [Request -> Stages]
      /\ \A e \in Request : (stage'[e] = "queued") = (stage[e] = "queued")
      /\ UNCHANGED <<asked, answer, roomQueues, queue, room, workers, status,
                     nextWorkerIdx, picks, closed>>
  BY DEF RouterCreated, TypeOK, Stages
<1>2. TypeOK'
  BY <1>1 DEF TypeOK
<1>3. TableInv' /\ TaskInv' /\ RoomInv' /\ WorkerInv' /\ ClosedInv'
  BY <1>1 DEF TableInv, TaskInv, RoomInv, WorkerInv, ClosedInv
<1>4. StageInv'
  BY <1>1 DEF StageInv
<1> QED BY <1>2, <1>3, <1>4

LEMMA StepFailed ==
  ASSUME Consistent, NEW d \in Request, CreationFailed(d)
  PROVE  Consistent'
BY StepAnswer DEF CreationFailed

\* The Room of the first task of d is there.
LEMMA StepRoom ==
  ASSUME Consistent, NEW d \in Request, RoomCreated(d)
  PROVE  Consistent'
<1> DEFINE q == Head(queue[d])
<1> USE NoneOfThese DEF Consistent, IdOf
<1>1. /\ queue[d] # <<>> /\ stage[d] = "room" /\ Settle(d, q)
      /\ status' = [status EXCEPT ![q] = "open"]
      /\ room' = [room EXCEPT ![d] = q]
      /\ UNCHANGED <<asked, roomQueues, workers, nextWorkerIdx, picks, closed>>
  BY DEF RoomCreated
<1>2. /\ q \in Request
      /\ queue' \in [Request -> Seq(Request)] /\ stage' \in [Request -> Stages]
      /\ stage'[d] = "queued"
      /\ \A e \in Request \ {d} : queue'[e] = queue[e] /\ stage'[e] = stage[e]
      /\ \A e \in Request : \A k \in 1 .. Len(queue'[e]) :
           \E j \in 1 .. Len(queue[e]) : queue'[e][k] = queue[e][j]
  BY <1>1, StepSettle
<1>3. queue[d] \in Seq(Request) /\ Len(queue[d]) \in Nat \ {0} /\ q = queue[d][1]
  BY <1>1, QueueHead DEF TypeOK
<1>4. /\ asked[q] # None /\ roomQueues[asked[q].roomId] = d
      /\ workers[q] # None /\ room[d] = None /\ ~closed
  BY <1>1, <1>3 DEF TaskInv, StageInv, ClosedInv
<1>5. TypeOK'
  BY <1>1, <1>2 DEF TypeOK, Settle
<1>6. TableInv' /\ WorkerInv' /\ ClosedInv'
  BY <1>1, <1>4 DEF TableInv, WorkerInv, ClosedInv
<1>7. TaskInv'
  <2> SUFFICES ASSUME NEW e \in Request, NEW k \in 1 .. Len(queue'[e])
               PROVE  /\ asked[queue'[e][k]] # None
                      /\ roomQueues[asked[queue'[e][k]].roomId] = e
                      /\ asked[queue'[e][k]].pipe => NumWorkers >= 2
    BY <1>1 DEF TaskInv
  <2>1. PICK j \in 1 .. Len(queue[e]) : queue'[e][k] = queue[e][j]
    BY <1>2
  <2> QED BY <2>1 DEF TaskInv
<1>8. StageInv'
  BY <1>1, <1>2 DEF StageInv, TypeOK
<1>9. RoomInv'
  <2>1. \A e \in Request : room'[e] = IF e = d THEN q ELSE room[e]
    BY <1>1 DEF TypeOK
  <2>2. \A R \in Request : status'[R] = IF R = q THEN "open" ELSE status[R]
    BY <1>1, <1>2 DEF TypeOK
  <2> QED BY <1>1, <1>2, <1>4, <2>1, <2>2 DEF RoomInv, TypeOK
<1> QED BY <1>5, <1>6, <1>7, <1>8, <1>9

\* A Room closes: its roomData leaves the table, with nothing in its queue.
LEMMA StepCloseRoom ==
  ASSUME Consistent, NEW R \in Request, CloseRoom(R)
  PROVE  Consistent'
<1> DEFINE r == asked[R].roomId
           d == roomQueues[r]
<1> USE NoneOfThese DEF Consistent, IdOf
<1>1. /\ Turn /\ status[R] = "open"
      /\ status' = [status EXCEPT ![R] = "closed"]
      /\ room' = [e \in Request |-> IF e = d THEN None ELSE room[e]]
      /\ roomQueues' = [roomQueues EXCEPT ![r] = None]
      /\ UNCHANGED <<asked, answer, queue, stage, workers, nextWorkerIdx, picks,
                     closed>>
  BY DEF CloseRoom, Forget
<1>2. /\ r \in RoomId /\ d \in Request /\ room[d] = R /\ stage[d] = "queued"
      /\ queue[d] = <<>> /\ Len(queue[d]) = 0
  BY <1>1 DEF TypeOK, RoomInv, StageInv, Turn, Microtask
<1>3. TypeOK'
  BY <1>1 DEF TypeOK
<1>4. TableInv' /\ StageInv' /\ WorkerInv' /\ ClosedInv'
  BY <1>1, <1>2 DEF TypeOK, TableInv, StageInv, WorkerInv, ClosedInv
<1>5. TaskInv'
  <2> SUFFICES ASSUME NEW e \in Request, NEW k \in 1 .. Len(queue[e])
               PROVE  /\ asked[queue[e][k]] # None
                      /\ roomQueues'[asked[queue[e][k]].roomId] = e
                      /\ asked[queue[e][k]].pipe => NumWorkers >= 2
    BY <1>1 DEF TaskInv
  <2>1. e # d
    BY <1>2
  <2>2. queue[e][k] \in Request
    BY DEF TypeOK
  <2> QED BY <1>1, <1>2, <2>1, <2>2 DEF TaskInv, TypeOK
<1>6. RoomInv'
  BY <1>1, <1>2 DEF RoomInv, TypeOK
<1> QED BY <1>3, <1>4, <1>5, <1>6

\* The Server closes: whatever has a task or a Room is in the table.
LEMMA StepCloseServer ==
  ASSUME Consistent, CloseServer
  PROVE  Consistent'
<1> USE NoneOfThese DEF Consistent, IdOf
<1>1. /\ closed'
      /\ answer' = [q \in Request |->
           IF \E d \in Known : \E k \in DOMAIN queue[d] : queue[d][k] = q
           THEN "rejected" ELSE answer[q]]
      /\ queue' = [d \in Request |-> IF d \in Known THEN <<>> ELSE queue[d]]
      /\ stage' = [d \in Request |-> IF d \in Known THEN "queued" ELSE stage[d]]
      /\ status' = [R \in Request |->
           IF \E d \in Known : room[d] = R THEN "closed" ELSE status[R]]
      /\ roomQueues' = [r \in RoomId |->
           IF roomQueues[r] # None /\ room[roomQueues[r]] # None THEN None
           ELSE roomQueues[r]]
      /\ room' = [d \in Request |-> IF d \in Known THEN None ELSE room[d]]
      /\ UNCHANGED <<asked, workers, nextWorkerIdx, picks>>
  BY DEF CloseServer, AnswersAfterStop
<1>2. ASSUME NEW d \in Request, d \notin Known
      PROVE  room[d] = None /\ queue[d] = <<>> /\ stage[d] = "queued"
  <2>1. \A r \in RoomId : roomQueues[r] # d
    BY <1>2 DEF Known
  <2>2. room[d] = None
    BY <2>1 DEF RoomInv, TypeOK
  <2>3. queue[d] = <<>>
    <3> SUFFICES ASSUME queue[d] # <<>> PROVE FALSE
      OBVIOUS
    <3>1. 1 \in 1 .. Len(queue[d]) /\ queue[d][1] \in Request
      BY QueueHead DEF TypeOK
    <3> QED BY <2>1, <3>1 DEF TaskInv, TypeOK
  <2> QED BY <2>2, <2>3 DEF StageInv
<1>3. \A d \in Request : room'[d] = None /\ queue'[d] = <<>> /\ stage'[d] = "queued"
  BY <1>1, <1>2
<1>4. \A R \in Request : status'[R] # "open"
  <2> SUFFICES ASSUME NEW R \in Request, status[R] = "open"
               PROVE  \E d \in Known : room[d] = R
    BY <1>1
  <2> QED BY DEF RoomInv, Known, TypeOK
<1>5. TypeOK'
  <2>1. queue' \in [Request -> Seq(Request)]
    BY <1>1 DEF TypeOK
  <2>2. answer' \in [Request -> Request \cup {"pending", "rejected", None}]
    BY <1>1 DEF TypeOK
  <2>3. room' \in [Request -> Request \cup {None}] /\ stage' \in [Request -> Stages]
        /\ status' \in [Request -> {"none", "open", "closed"}]
    BY <1>1 DEF TypeOK, Stages
  <2>4. roomQueues' \in [RoomId -> Request \cup {None}]
    BY <1>1 DEF TypeOK
  <2> QED BY <1>1, <2>1, <2>2, <2>3, <2>4 DEF TypeOK
<1>6. TableInv'
  BY <1>1 DEF TableInv
<1>7. TaskInv' /\ StageInv' /\ ClosedInv'
  BY <1>3 DEF TaskInv, StageInv, ClosedInv
<1>8. RoomInv' /\ WorkerInv'
  BY <1>1, <1>3, <1>4 DEF RoomInv, WorkerInv
<1> QED BY <1>5, <1>6, <1>7, <1>8

LEMMA StutterConsistent ==
  ASSUME Consistent, UNCHANGED vars
  PROVE  Consistent'
BY DEF vars, Consistent, TypeOK, TableInv, TaskInv, StageInv, RoomInv, WorkerInv,
       ClosedInv, IdOf

LEMMA NextConsistent == Consistent /\ [Next]_vars => Consistent'
<1> SUFFICES ASSUME Consistent, [Next]_vars PROVE Consistent'
  OBVIOUS
<1>1. ASSUME NEW q \in Request, NEW r \in RoomId, NEW pipe \in BOOLEAN,
             GetOrCreateRoom(q, r, pipe)
      PROVE  Consistent'
  BY <1>1, StepRequest
<1>2. ASSUME NEW d \in Request, Run(d) PROVE Consistent'
  BY <1>2, StepRun
<1>3. ASSUME NEW d \in Request, RouterCreated(d) PROVE Consistent'
  BY <1>3, StepRouter
<1>4. ASSUME NEW d \in Request, CreationFailed(d) PROVE Consistent'
  BY <1>4, StepFailed
<1>5. ASSUME NEW d \in Request, RoomCreated(d) PROVE Consistent'
  BY <1>5, StepRoom
<1>6. ASSUME NEW R \in Request, CloseRoom(R) PROVE Consistent'
  BY <1>6, StepCloseRoom
<1>7. CASE CloseServer
  BY <1>7, StepCloseServer
<1>8. CASE UNCHANGED vars
  BY <1>8, StutterConsistent
<1> QED BY <1>1, <1>2, <1>3, <1>4, <1>5, <1>6, <1>7, <1>8 DEF Next

\* Table, queues, creations and Rooms hang together in every reachable state.
THEOREM ConsistencyHolds == Spec => []Consistent
BY InitConsistent, NextConsistent, PTL DEF Spec

\* Every state is well typed.
THEOREM TypeCorrect == Spec => []TypeOK
BY ConsistencyHolds, PTL DEF Consistent

\* One open Room per roomId, however creations, failures and closures interleave.
THEOREM OneRoomPerId == Spec => []OneOpenRoomPerId
<1>1. Consistent => OneOpenRoomPerId
  BY DEF Consistent, RoomInv, OneOpenRoomPerId
<1> QED BY <1>1, ConsistencyHolds, PTL

\* The next connection, the API and Server.close() find all open Rooms, and no
\* closed one.
THEOREM TableIsExact == Spec => []TableHoldsOpenRooms
<1>1. Consistent => TableHoldsOpenRooms
  BY NoneOfThese DEF Consistent, TypeOK, TableInv, RoomInv, TableHoldsOpenRooms, IdOf
<1> QED BY <1>1, ConsistencyHolds, PTL

\* The check that begins a task of getOrCreateRoom() never fails.
THEOREM TheCheckIsVacuous == Spec => []TasksHaveTheirEntry
<1>1. Consistent => TasksHaveTheirEntry
  BY DEF Consistent, TypeOK, TaskInv, TasksHaveTheirEntry, IdOf
<1> QED BY <1>1, ConsistencyHolds, PTL

\* A closed Server has no open Room.
THEOREM ClosedForGood == Spec => []NoRoomAfterClose
<1>1. ASSUME Consistent, closed, NEW R \in Request, status[R] = "open"
      PROVE  FALSE
  <2>1. asked[R].roomId \in RoomId /\ roomQueues[asked[R].roomId] \in Request
    BY <1>1 DEF Consistent, TypeOK, RoomInv, IdOf
  <2> QED BY <1>1, <2>1, NoneOfThese DEF Consistent, RoomInv, ClosedInv, IdOf
<1>2. Consistent => NoRoomAfterClose
  BY <1>1 DEF NoRoomAfterClose
<1> QED BY <1>2, ConsistencyHolds, PTL

\* Pipe transports always join two Workers.
THEOREM PipesHaveTwoEnds == Spec => []PipesJoinWorkers
<1>1. Consistent => PipesJoinWorkers
  BY DEF Consistent, RoomInv, WorkerInv, PipesJoinWorkers
<1> QED BY <1>1, ConsistencyHolds, PTL

\* Nobody is given a closed Room, or one of another roomId.
THEOREM OnlyOpenRooms == Spec => HandedRoomsAreOpen
<1> DEFINE Handed(q) ==
      answer[q] = "pending" /\ answer'[q] \in Request
        => status'[answer'[q]] = "open" /\ IdOf(answer'[q]) = IdOf(q)
<1>1. ASSUME Consistent, [Next]_vars, NEW q \in Request PROVE Handed(q)
  <2> USE <1>1, NoneOfThese DEF Consistent, IdOf
  <2>1. ASSUME NEW e \in Request, NEW r \in RoomId, NEW pipe \in BOOLEAN,
               GetOrCreateRoom(e, r, pipe)
        PROVE  Handed(q)
    BY <2>1 DEF GetOrCreateRoom, TypeOK
  <2>2. ASSUME NEW d \in Request, Run(d) PROVE Handed(q)
    <3> DEFINE h == Head(queue[d])
    <3>1. /\ queue[d] # <<>> /\ queue[d] \in Seq(Request)
          /\ h \in Request /\ Len(queue[d]) \in Nat \ {0} /\ h = queue[d][1]
      BY <2>2, QueueHead DEF Run, Microtask, TypeOK
    <3>2. roomQueues[asked[h].roomId] = d /\ asked[h] # None
      BY <3>1 DEF TaskInv
    <3>3. CASE room[d] # None
      <4>1. Settle(d, room[d]) /\ UNCHANGED <<status, asked>>
        BY <2>2, <3>2, <3>3 DEF Run, TypeOK
      <4>2. answer'[q] = IF q = h THEN room[d] ELSE answer[q]
        BY <3>1, <4>1, StepSettle
      <4>3. /\ status[room[d]] = "open" /\ roomQueues[asked[room[d]].roomId] = d
            /\ room[d] \in Request /\ asked[room[d]] # None
        BY <3>3 DEF RoomInv, TypeOK
      <4>4. /\ asked[room[d]].roomId \in RoomId /\ asked[h].roomId \in RoomId
            /\ d # None
        BY <3>1, <3>2, <4>3 DEF TypeOK
      <4>5. asked[d].roomId = asked[room[d]].roomId /\ asked[d].roomId = asked[h].roomId
        BY <3>2, <4>3, <4>4 DEF TableInv
      <4> QED BY <4>1, <4>2, <4>3, <4>5 DEF TypeOK
    <3>4. CASE room[d] = None
      BY <2>2, <3>2, <3>4 DEF Run, TypeOK
    <3> QED BY <3>3, <3>4
  <2>3. ASSUME NEW d \in Request, RouterCreated(d) PROVE Handed(q)
    BY <2>3 DEF RouterCreated, TypeOK
  <2>4. ASSUME NEW d \in Request, CreationFailed(d) PROVE Handed(q)
    <3>1. answer'[q] = IF q = Head(queue[d]) THEN "rejected" ELSE answer[q]
      BY <2>4, StepSettle DEF CreationFailed
    <3> QED BY <3>1
  <2>5. ASSUME NEW d \in Request, RoomCreated(d) PROVE Handed(q)
    <3> DEFINE h == Head(queue[d])
    <3>1. answer'[q] = IF q = h THEN h ELSE answer[q]
      BY <2>5, StepSettle DEF RoomCreated
    <3>2. status'[h] = "open" \/ h \notin Request
      BY <2>5 DEF RoomCreated, TypeOK
    <3> QED BY <2>5, <3>1, <3>2 DEF RoomCreated
  <2>6. ASSUME NEW R \in Request, CloseRoom(R) PROVE Handed(q)
    BY <2>6 DEF CloseRoom, TypeOK
  <2>7. CASE CloseServer
    <3>1. answer'[q] \in {"rejected", answer[q]}
      BY <2>7 DEF CloseServer, AnswersAfterStop
    <3> QED BY <3>1
  <2>8. CASE UNCHANGED vars
    BY <2>8 DEF vars
  <2> QED BY <1>1, <2>1, <2>2, <2>3, <2>4, <2>5, <2>6, <2>7, <2>8 DEF Next
<1>2. Consistent /\ [Next]_vars => [\A q \in Request :
        answer[q] = "pending" /\ answer'[q] \in Request
          => status'[answer'[q]] = "open" /\ IdOf(answer'[q]) = IdOf(q)]_vars
  BY <1>1
<1> QED BY <1>2, ConsistencyHolds, PTL DEF Spec, HandedRoomsAreOpen

-----------------------------------------------------------------------------
(* The round robin.                                                        *)

\* What one pick does to the counts.
Picked(p, i) == [v \in Worker |-> p[v] + (IF v = i THEN 1 ELSE 0)]

\* Every Worker was handed out n times, those before i once more.
Rotated(p, i) ==
  \E n \in Nat : \A v \in Worker : p[v] = IF v < i THEN n + 1 ELSE n

LEMMA PickRotates ==
  ASSUME NEW p, NEW i \in Worker, Rotated(p, i)
  PROVE  Rotated(Picked(p, i), NextIdx(i))
<1>1. PICK n \in Nat : \A v \in Worker : p[v] = IF v < i THEN n + 1 ELSE n
  BY DEF Rotated
<1>2. CASE i + 1 = NumWorkers
  <2>1. NextIdx(i) = 0 /\ n + 1 \in Nat
    BY <1>2 DEF NextIdx
  <2>2. \A v \in Worker : Picked(p, i)[v] = IF v < 0 THEN n + 2 ELSE n + 1
    BY <1>1, <1>2, WorkersAssumption DEF Picked, Worker
  <2> QED BY <2>1, <2>2 DEF Rotated
<1>3. CASE i + 1 # NumWorkers
  <2>1. NextIdx(i) = i + 1
    BY <1>3 DEF NextIdx
  <2>2. \A v \in Worker : Picked(p, i)[v] = IF v < i + 1 THEN n + 1 ELSE n
    BY <1>1, <1>3, WorkersAssumption DEF Picked, Worker
  <2> QED BY <2>1, <2>2 DEF Rotated
<1> QED BY <1>2, <1>3

\* The creation of a Room is one or two picks in a row.
LEMMA RunRotates ==
  ASSUME Consistent, Rotated(picks, nextWorkerIdx), NEW d \in Request, Run(d)
  PROVE  Rotated(picks, nextWorkerIdx)'
<1> DEFINE pipe == asked[Head(queue[d])].pipe
           w == PickedWorkers(pipe)
           once == Picked(picks, nextWorkerIdx)
<1>1. CASE UNCHANGED <<picks, nextWorkerIdx>>
  BY <1>1 DEF Rotated
<1>2. CASE /\ nextWorkerIdx' = NextIdx(w[2])
           /\ picks' = [v \in Worker |->
                picks[v] + (IF v = w[1] THEN 1 ELSE 0)
                         + (IF v = w[2] /\ pipe THEN 1 ELSE 0)]
  <2>1. nextWorkerIdx \in Worker /\ picks \in [Worker -> Nat]
    BY DEF Consistent, TypeOK
  <2>2. Rotated(once, NextIdx(nextWorkerIdx))
    BY <2>1, PickRotates
  <2>3. CASE pipe
    <3>1. w[1] = nextWorkerIdx /\ w[2] = NextIdx(nextWorkerIdx)
      BY <2>3 DEF PickedWorkers
    <3>2. picks' = Picked(once, NextIdx(nextWorkerIdx))
      BY <1>2, <2>3, <3>1 DEF Picked
    <3>3. Rotated(picks', NextIdx(NextIdx(nextWorkerIdx)))
      BY <2>1, <2>2, <3>2, NextIdxInWorker, PickRotates
    <3> QED BY <1>2, <3>1, <3>3 DEF Rotated
  <2>4. CASE ~pipe
    <3>1. w[1] = nextWorkerIdx /\ w[2] = nextWorkerIdx
      BY <2>4 DEF PickedWorkers
    <3>2. picks' = once
      BY <1>2, <2>1, <2>4, <3>1 DEF Picked
    <3> QED BY <1>2, <2>2, <3>1, <3>2 DEF Rotated
  <2> QED BY <2>3, <2>4
<1> QED BY <1>1, <1>2 DEF Run

\* No Worker is handed out two times more often than another.
THEOREM Balanced == Spec => []PicksAreBalanced
<1>1. Init => Rotated(picks, nextWorkerIdx)
  <2> SUFFICES ASSUME Init PROVE Rotated(picks, nextWorkerIdx)
    OBVIOUS
  <2>1. \A v \in Worker : picks[v] = IF v < nextWorkerIdx THEN 0 + 1 ELSE 0
    BY DEF Init, Worker
  <2> QED BY <2>1 DEF Rotated
<1>2. Consistent /\ Rotated(picks, nextWorkerIdx) /\ [Next]_vars
        => Rotated(picks, nextWorkerIdx)'
  <2> SUFFICES ASSUME Consistent, Rotated(picks, nextWorkerIdx), [Next]_vars
               PROVE  Rotated(picks, nextWorkerIdx)'
    OBVIOUS
  <2>1. CASE \E d \in Request : Run(d)
    BY <2>1, RunRotates
  <2>2. CASE UNCHANGED <<picks, nextWorkerIdx>>
    BY <2>2 DEF Rotated
  <2> QED BY <2>1, <2>2 DEF Next, vars, GetOrCreateRoom, RouterCreated,
             CreationFailed, RoomCreated, CloseRoom, CloseServer
<1>3. Consistent /\ Rotated(picks, nextWorkerIdx) => PicksAreBalanced
  BY DEF Consistent, TypeOK, Rotated, PicksAreBalanced, Worker
<1> QED BY <1>1, <1>2, <1>3, ConsistencyHolds, PTL DEF Spec

-----------------------------------------------------------------------------
(***************************************************************************)
(* The network throttle of the same Server (NetworkThrottle), with its own *)
(* variables, those of ThrottleFlags and these: for any number of Rooms    *)
(* and requests, any failing commands and with or without a dying Worker,  *)
(* the Server forgets a network that it throttles only when the command    *)
(* that starts the throttle fails half way.                                *)
(***************************************************************************)
CONSTANTS MaxApply, MaxStop, Fails, MayDie

VARIABLES open, server, byRoom, resolved, owner, atClose, applies, stops

Net == INSTANCE NetworkThrottle WITH Room <- RoomId, NoRoom <- None

\* Only the task at the head of the queue has begun.
OthersWait == \A k \in DOMAIN tasks : k # 1 => tasks[k].phase = "queued"

\* While a stop runs the flag is down: only the task at the head could raise it.
StoppingIsOptimistic ==
  tasks # <<>> /\ tasks[1].phase = "stopping" => ~enabled

ThrottleInv == Net!TypeOK /\ OthersWait /\ StoppingIsOptimistic /\ ActiveIsRecorded

\* The network is throttled, and not because of a start that failed.
Kept == active /\ ~leftover

\* What the invariant says of the variables that the queue and the flag share.
QueueInv(q, e, a) ==
  /\ q \in Seq(Net!Task) /\ e \in BOOLEAN
  /\ \A k \in DOMAIN q : k # 1 => q[k].phase = "queued"
  /\ q # <<>> /\ q[1].phase = "stopping" => ~e
  /\ a => e \/ (q # <<>> /\ q[1].phase = "stopping" /\ q[1].savedEnabled)

\* The variables that it leaves out.
RestOK ==
  /\ open \subseteq RoomId /\ server \in {"open", "closed", "exited"}
  /\ byRoom \in RoomId \cup {None}
  /\ active \in BOOLEAN /\ leftover \in BOOLEAN
  /\ resolved \subseteq RoomId
  /\ owner \in RoomId \cup {None} /\ atClose \subseteq {"recorded", "idle", "failed"}
  /\ applies \in 0 .. MaxApply /\ stops \in 0 .. MaxStop

LEMMA ThrottleParts == ThrottleInv <=> QueueInv(tasks, enabled, Kept) /\ RestOK
<1>1. tasks \in Seq(Net!Task) /\ tasks # <<>> => Head(tasks) = tasks[1]
  OBVIOUS
<1> QED BY <1>1 DEF ThrottleInv, Net!TypeOK, OthersWait, StoppingIsOptimistic,
                    ActiveIsRecorded, QueueInv, RestOK, Kept

LEMMA ThrottlePartsPrime == ThrottleInv' <=> QueueInv(tasks', enabled', Kept') /\ RestOK'
<1>1. tasks' \in Seq(Net!Task) /\ tasks' # <<>> => Head(tasks') = tasks'[1]
  OBVIOUS
<1> QED BY <1>1 DEF ThrottleInv, Net!TypeOK, OthersWait, StoppingIsOptimistic,
                    ActiveIsRecorded, QueueInv, RestOK, Kept

-----------------------------------------------------------------------------
(* What the operators on the queue do to it.                               *)

LEMMA NewTaskType ==
  /\ Net!NewTask("stop", None) \in Net!StopTask /\ Net!NewTask("stop", None).phase = "queued"
  /\ \A r \in RoomId :
       Net!NewTask("apply", r) \in Net!ApplyTask /\ Net!NewTask("apply", r).phase = "queued"
BY DEF Net!NewTask, Net!StopTask, Net!ApplyTask

LEMMA StoppingType ==
  ASSUME enabled \in BOOLEAN, NEW t \in Net!StopTask, NEW by \in RoomId \cup {None}
  PROVE  /\ Net!Stopping(t, by) \in Net!Task /\ Net!Stopping(t, by).phase = "stopping"
         /\ Net!Stopping(t, by).savedEnabled = enabled
BY DEF Net!Stopping, Net!Task, Net!StopTask

\* A task more at the end is not seen by the invariant.
LEMMA AppendKeeps ==
  ASSUME NEW q \in Seq(Net!Task), q # <<>>, NEW t \in Net!Task, t.phase = "queued"
  PROVE  /\ Append(q, t) \in Seq(Net!Task) /\ Append(q, t) # <<>>
         /\ Append(q, t)[1] = q[1]
         /\ \A k \in DOMAIN Append(q, t) :
              Append(q, t)[k] = t \/ (k \in DOMAIN q /\ Append(q, t)[k] = q[k])
OBVIOUS

\* The running task changed: the others are where they were.
LEMMA RunningKeeps ==
  ASSUME tasks \in Seq(Net!Task), tasks # <<>>, NEW t \in Net!Task
  PROVE  /\ Net!Running(t) \in Seq(Net!Task) /\ Net!Running(t) # <<>> /\ Net!Running(t)[1] = t
         /\ DOMAIN Net!Running(t) = DOMAIN tasks
         /\ \A k \in DOMAIN tasks : k # 1 => Net!Running(t)[k] = tasks[k]
<1>1. Tail(tasks) \in Seq(Net!Task) /\ Len(Tail(tasks)) = Len(tasks) - 1
      /\ \A k \in 1 .. Len(tasks) - 1 : Tail(tasks)[k] = tasks[k + 1]
  OBVIOUS
<1>2. <<t>> \in Seq(Net!Task) /\ Len(<<t>>) = 1
  OBVIOUS
<1> QED BY <1>1, <1>2 DEF Net!Running

\* The head gone: whoever is next has not begun.
LEMMA TailWaits ==
  ASSUME QueueInv(tasks, enabled, Kept), tasks # <<>>
  PROVE  /\ Tail(tasks) \in Seq(Net!Task)
         /\ \A k \in DOMAIN Tail(tasks) : Tail(tasks)[k].phase = "queued"
<1>1. /\ Tail(tasks) \in Seq(Net!Task) /\ DOMAIN Tail(tasks) = 1 .. Len(tasks) - 1
      /\ \A k \in 1 .. Len(tasks) - 1 : Tail(tasks)[k] = tasks[k + 1]
  BY DEF QueueInv
<1> QED BY <1>1 DEF QueueInv

\* Pushing stops keeps the invariant: on an empty queue the first one takes the
\* flag down and remembers it.
LEMMA PushKeeps ==
  ASSUME QueueInv(tasks, enabled, Kept), NEW n \in Nat, NEW by \in RoomId \cup {None},
         Net!PushStops(n, by)
  PROVE  QueueInv(tasks', enabled', Kept)
<1> DEFINE new == [k \in 1 .. n |-> Net!NewTask("stop", None)]
<1>1. new \in Seq(Net!Task) /\ Len(new) = n
      /\ \A k \in 1 .. n : new[k] \in Net!StopTask /\ new[k].phase = "queued"
  BY NewTaskType DEF Net!Task
<1>2. CASE tasks = <<>> /\ n > 0
  <2>1. tasks' = [new EXCEPT ![1] = Net!Stopping(new[1], by)] /\ enabled' = FALSE
    BY <1>2 DEF Net!PushStops
  <2>2. /\ Net!Stopping(new[1], by) \in Net!Task /\ Net!Stopping(new[1], by).phase = "stopping"
        /\ Net!Stopping(new[1], by).savedEnabled = enabled
    BY <1>1, <1>2, StoppingType DEF QueueInv
  <2>3. tasks' \in Seq(Net!Task) /\ DOMAIN tasks' = 1 .. n /\ tasks'[1] = Net!Stopping(new[1], by)
    BY <1>1, <1>2, <2>1, <2>2
  <2>4. \A k \in 1 .. n : k # 1 => tasks'[k].phase = "queued"
    BY <1>1, <2>1
  <2>5. tasks' # <<>>
    BY <1>2, <2>3
  <2> QED BY <1>2, <2>1, <2>2, <2>3, <2>4, <2>5 DEF QueueInv
<1>3. CASE ~(tasks = <<>> /\ n > 0)
  <2>1. tasks' = tasks \o new /\ enabled' = enabled
    BY <1>3 DEF Net!PushStops
  <2>2. CASE tasks = <<>>
    <3>1. tasks' = <<>>
      BY <1>1, <1>3, <2>1, <2>2
    <3> QED BY <2>1, <2>2, <3>1 DEF QueueInv
  <2>3. CASE tasks # <<>>
    <3>1. /\ tasks' \in Seq(Net!Task) /\ tasks' # <<>> /\ tasks'[1] = tasks[1]
          /\ \A k \in DOMAIN tasks' :
               tasks'[k] = Net!NewTask("stop", None)
               \/ (k \in DOMAIN tasks /\ tasks'[k] = tasks[k])
      BY <1>1, <2>1, <2>3 DEF QueueInv
    <3>2. Net!NewTask("stop", None).phase = "queued"
      BY NewTaskType
    <3> QED BY <2>1, <2>3, <3>1, <3>2 DEF QueueInv
  <2> QED BY <2>2, <2>3
<1> QED BY <1>2, <1>3

-----------------------------------------------------------------------------
(* The steps of the throttle.                                              *)

LEMMA ThrottleStarts ==
  ASSUME Net!BoundsAssumption, Net!Init
  PROVE  ThrottleInv
<1>1. QueueInv(tasks, enabled, Kept)
  <2>1. tasks = <<>> /\ enabled = FALSE /\ Kept = FALSE
    BY DEF Net!Init, Kept
  <2>2. tasks \in Seq(Net!Task) /\ \A k \in DOMAIN tasks : k # 1 => tasks[k].phase = "queued"
    BY <2>1
  <2>3. enabled \in BOOLEAN /\ ~Kept /\ ~(tasks # <<>>)
    BY <2>1
  <2> QED BY ONLY <2>2, <2>3, Zenon DEF QueueInv
<1>2. RestOK
  <2>1. active \in BOOLEAN /\ leftover \in BOOLEAN
    BY Zenon DEF Net!Init
  <2> QED BY <2>1 DEF Net!Init, RestOK, Net!BoundsAssumption
<1> QED BY <1>1, <1>2, ThrottleParts

\* A request more in the queue.
LEMMA ApplyInStep ==
  ASSUME Net!BoundsAssumption, ThrottleInv, NEW r \in RoomId, Net!Apply(r)
  PROVE  ThrottleInv'
<1> USE ThrottleParts
<1>1. Net!NewTask("apply", r) \in Net!Task /\ Net!NewTask("apply", r).phase = "queued"
  BY NewTaskType DEF Net!Task
<1>2. tasks' = Append(tasks, Net!NewTask("apply", r)) /\ enabled' = enabled /\ Kept' = Kept
  BY DEF Net!Apply, Net!flags, Net!history, Kept
<1>3. QueueInv(tasks', enabled', Kept')
  <2>1. CASE tasks = <<>>
    <3>1. tasks' = <<Net!NewTask("apply", r)>>
      BY <1>2, <2>1
    <3> QED BY <1>1, <1>2, <2>1, <3>1 DEF QueueInv
  <2>2. CASE tasks # <<>>
    BY <1>1, <1>2, <2>2, AppendKeeps DEF QueueInv
  <2> QED BY <2>1, <2>2
<1>4. RestOK'
  BY DEF RestOK, Net!Apply, Net!flags, Net!history,
         Net!BoundsAssumption
<1> QED BY <1>3, <1>4, ThrottlePartsPrime

\* The head of the queue begins.
LEMMA StartInStep ==
  ASSUME ThrottleInv, Net!Start
  PROVE  ThrottleInv'
<1> USE ThrottleParts
<1>1. tasks \in Seq(Net!Task) /\ tasks # <<>> /\ Head(tasks) = tasks[1] /\ tasks[1] \in Net!Task
      /\ tasks[1].phase = "queued" /\ byRoom \in RoomId \cup {None}
  BY DEF Net!Start, QueueInv, RestOK
<1>2. Kept' = Kept /\ (Kept => enabled)
  BY <1>1 DEF Net!Start, Net!history, QueueInv, Kept
<1>3. QueueInv(tasks', enabled', Kept')
  <2>1. CASE tasks[1].kind = "apply" /\ enabled' = enabled /\ \E ph \in {"starting", "awaitingStop"} :
               \/ tasks' = Net!Running([tasks[1] EXCEPT !.phase = ph])
               \/ tasks' = Append(Net!Running([tasks[1] EXCEPT !.phase = ph]),
                                  Net!NewTask("stop", None))
    <3>1. PICK ph \in {"starting", "awaitingStop"} :
               \/ tasks' = Net!Running([tasks[1] EXCEPT !.phase = ph])
               \/ tasks' = Append(Net!Running([tasks[1] EXCEPT !.phase = ph]),
                                  Net!NewTask("stop", None))
      BY <2>1
    <3> DEFINE t == [tasks[1] EXCEPT !.phase = ph]
    <3>2. t \in Net!Task /\ t.phase = ph
      BY <1>1, <2>1 DEF Net!Task, Net!ApplyTask, Net!StopTask
    <3> HIDE DEF t
    <3>3. /\ Net!Running(t) \in Seq(Net!Task) /\ Net!Running(t) # <<>> /\ Net!Running(t)[1] = t
          /\ DOMAIN Net!Running(t) = DOMAIN tasks
          /\ \A k \in DOMAIN tasks : k # 1 => Net!Running(t)[k].phase = "queued"
      BY <1>1, <3>2, RunningKeeps DEF QueueInv
    <3>4. Net!NewTask("stop", None) \in Net!Task /\ Net!NewTask("stop", None).phase = "queued"
      BY NewTaskType DEF Net!Task
    <3>5. CASE tasks' = Net!Running(t)
      BY <1>2, <2>1, <3>2, <3>3, <3>5 DEF QueueInv
    <3>6. CASE tasks' = Append(Net!Running(t), Net!NewTask("stop", None))
      BY <1>2, <2>1, <3>2, <3>3, <3>4, <3>6, AppendKeeps DEF QueueInv
    <3> QED BY <3>1, <3>5, <3>6 DEF t
  <2>2. CASE tasks[1].kind = "stop" /\ enabled' = FALSE
             /\ tasks' = Net!Running(Net!Stopping(tasks[1], byRoom))
    <3> DEFINE t == Net!Stopping(tasks[1], byRoom)
    <3>1. t \in Net!Task /\ t.phase = "stopping" /\ t.savedEnabled = enabled
      BY <1>1, <2>2, StoppingType DEF QueueInv, Net!Task, Net!ApplyTask
    <3> HIDE DEF t
    <3>2. /\ Net!Running(t) \in Seq(Net!Task) /\ Net!Running(t) # <<>> /\ Net!Running(t)[1] = t
          /\ DOMAIN Net!Running(t) = DOMAIN tasks
          /\ \A k \in DOMAIN tasks : k # 1 => Net!Running(t)[k].phase = "queued"
      BY <1>1, <3>1, RunningKeeps DEF QueueInv
    <3>3. tasks' = Net!Running(t)
      BY <2>2 DEF t
    <3> QED BY <1>2, <2>2, <3>1, <3>2, <3>3 DEF QueueInv
  <2> QED BY <1>1, <2>1, <2>2 DEF Net!Start, Net!flags
<1>4. RestOK'
  BY DEF RestOK, Net!Start, Net!flags, Net!history
<1> QED BY <1>3, <1>4, ThrottlePartsPrime

\* A command has ended and its task leaves: the flag says what it must.
LEMMA EndedInStep ==
  ASSUME ThrottleInv, Net!Started \/ Net!Stopped
  PROVE  ThrottleInv'
<1> USE ThrottleParts
<1>1. tasks \in Seq(Net!Task) /\ tasks # <<>>
  BY DEF Net!Started, Net!Stopped, QueueInv
<1>2. Head(tasks) = tasks[1] /\ tasks[1] \in Net!Task
  BY <1>1
<1>3. /\ tasks[1].savedEnabled \in BOOLEAN
      /\ tasks[1].savedByRoom \in RoomId \cup {None}
      /\ tasks[1].phase = "starting" => tasks[1].room \in RoomId
  BY <1>2 DEF Net!Task, Net!ApplyTask, Net!StopTask
<1>4. tasks' = Tail(tasks)
  BY DEF Net!Started, Net!Stopped
<1>5. enabled' \in BOOLEAN /\ (Kept' => enabled') /\ RestOK'
  <2>1. CASE Net!Started
    <3>1. \/ active' = TRUE /\ enabled' = TRUE /\ leftover' = FALSE
          \/ active' \in BOOLEAN /\ leftover' = active' /\ enabled' = enabled
      BY <2>1, Zenon DEF Net!Started
    <3>2. active' \in BOOLEAN /\ leftover' \in BOOLEAN
      BY ONLY <3>1, Zenon
    <3>3. enabled \in BOOLEAN
      BY DEF QueueInv
    <3>4. enabled' \in BOOLEAN /\ (Kept' => enabled')
      <4>1. CASE leftover' = active' /\ enabled' = enabled
        BY ONLY <4>1, <3>3, Zenon DEF Kept
      <4>2. CASE enabled' = TRUE
        BY ONLY <4>2, Zenon
      <4> QED BY <3>1, <4>1, <4>2
    <3>5. RestOK'
      BY <1>2, <1>3, <2>1, <3>2 DEF Net!Started, RestOK
    <3> QED BY <3>4, <3>5
  <2>2. CASE Net!Stopped
    <3>1. tasks[1].phase = "stopping" /\ enabled = FALSE /\ (Kept => tasks[1].savedEnabled)
      BY <1>1, <1>2, <2>2 DEF Net!Stopped, QueueInv
    <3>2. /\ leftover' = (leftover /\ active')
          /\ \/ active' = FALSE /\ enabled' = enabled
             \/ active' \in {active, FALSE} /\ enabled' = tasks[1].savedEnabled
      BY <1>2, <2>2, Zenon DEF Net!Stopped, Net!RestoreFlags, Net!flags
    <3>3. active \in BOOLEAN /\ leftover \in BOOLEAN
      BY DEF RestOK
    <3>4. active' \in BOOLEAN /\ leftover' \in BOOLEAN
      BY ONLY <3>2, <3>3, Zenon
    <3>5. enabled' \in BOOLEAN /\ (Kept' => enabled')
      <4>1. CASE active' = FALSE
        BY ONLY <4>1, <3>1, <3>2, <1>3, Zenon DEF Kept
      <4>2. CASE active' = active /\ enabled' = tasks[1].savedEnabled
        <5>1. Kept' => Kept
          BY ONLY <4>2, <3>2, Zenon DEF Kept
        <5> QED BY ONLY <4>2, <5>1, <3>1, <1>3, Zenon
      <4> QED BY ONLY <3>2, <4>1, <4>2, Zenon
    <3>6. RestOK'
      BY <1>2, <1>3, <2>2, <3>4 DEF Net!Stopped, Net!RestoreFlags, Net!flags, RestOK
    <3> QED BY <3>5, <3>6
  <2> QED BY <2>1, <2>2
<1>6. QueueInv(tasks', enabled', Kept')
  BY <1>1, <1>4, <1>5, TailWaits DEF QueueInv
<1> QED BY <1>5, <1>6, ThrottlePartsPrime

\* A Peer's request to stop.
LEMMA StopInStep ==
  ASSUME Net!BoundsAssumption, ThrottleInv, NEW r \in RoomId, Net!Stop(r)
  PROVE  ThrottleInv'
<1> USE ThrottleParts
<1>1. Net!PushStops(1, byRoom) /\ Kept' = Kept
  BY DEF Net!Stop, Net!history, Kept
<1>2. QueueInv(tasks', enabled', Kept')
  BY <1>1, PushKeeps DEF RestOK
<1>3. RestOK'
  BY DEF RestOK, Net!Stop, Net!history, Net!BoundsAssumption
<1> QED BY <1>2, <1>3, ThrottlePartsPrime

\* A Room closes, and stops the throttle if it is the one remembered.
LEMMA ClosedRoomInStep ==
  ASSUME ThrottleInv, NEW r \in RoomId, Net!CloseRoom(r)
  PROVE  ThrottleInv'
<1> USE ThrottleParts
<1> DEFINE n == IF r = byRoom THEN 1 ELSE 0
<1>1. Net!PushStops(n, byRoom) /\ Kept' = Kept /\ n \in Nat
  BY DEF Net!CloseRoom, Net!history, Kept
<1>2. QueueInv(tasks', enabled', Kept')
  BY <1>1, PushKeeps DEF RestOK
<1>3. RestOK'
  BY DEF RestOK, Net!CloseRoom, Net!history
<1> QED BY <1>2, <1>3, ThrottlePartsPrime

\* A Room opens, or the .then() of a request runs.
LEMMA RoomInStep ==
  ASSUME ThrottleInv, NEW r \in RoomId, Net!OpenRoom(r) \/ Net!Recorded(r)
  PROVE  ThrottleInv'
<1> USE ThrottleParts
<1>1. tasks' = tasks /\ enabled' = enabled /\ Kept' = Kept
  BY DEF Net!OpenRoom, Net!Recorded, Net!flags, Net!history, Kept
<1>2. QueueInv(tasks', enabled', Kept')
  BY <1>1
<1>3. RestOK'
  BY DEF RestOK, Net!OpenRoom, Net!Recorded, Net!flags, Net!history
<1> QED BY <1>2, <1>3, ThrottlePartsPrime

\* The Server closes, and the network stays throttled or a stop took effect.
LEMMA ClosureInStep ==
  ASSUME ThrottleInv, Net!CloseServer, server' \in {"closed", "exited"},
         active' \in BOOLEAN, leftover' \in BOOLEAN, Kept' => Kept
  PROVE  ThrottleInv'
<1> USE ThrottleParts
<1>1. PICK first \in IF open = {} THEN {None} ELSE open :
        LET byItsRoom == first = byRoom /\ open # {}
            n == Net!StopsOnClose(byItsRoom)
        IN  /\ Net!PushStops(n, IF byItsRoom \/ open = {} THEN byRoom ELSE None)
            /\ byRoom' = IF open # {} \/ (tasks = <<>> /\ n > 0) THEN None
                         ELSE byRoom
  BY DEF Net!CloseServer
<1> DEFINE byItsRoom == first = byRoom /\ open # {}
           n == Net!StopsOnClose(byItsRoom)
           by == IF byItsRoom \/ open = {} THEN byRoom ELSE None
<1>2. n \in Nat
  BY DEF Net!StopsOnClose
<1>3. by \in RoomId \cup {None} /\ byRoom' \in RoomId \cup {None}
  BY <1>1 DEF RestOK
<1>4. Net!PushStops(n, by)
  BY <1>1
<1> HIDE DEF n, by
<1>5. QueueInv(tasks', enabled', Kept)
  BY <1>2, <1>3, <1>4, PushKeeps
<1>6. QueueInv(tasks', enabled', Kept')
  BY <1>5, Zenon DEF QueueInv
<1>7. RestOK'
  BY <1>3 DEF RestOK, Net!CloseServer
<1> QED BY <1>6, <1>7, ThrottlePartsPrime

LEMMA ThrottleStep ==
  ASSUME Net!BoundsAssumption, ThrottleInv, [Net!Next]_(Net!vars)
  PROVE  ThrottleInv'
<1>1. ASSUME NEW r \in RoomId, Net!OpenRoom(r) \/ Net!Recorded(r) PROVE ThrottleInv'
  BY <1>1, RoomInStep
<1>2. ASSUME NEW r \in RoomId, Net!Apply(r) PROVE ThrottleInv'
  BY <1>2, ApplyInStep
<1>3. ASSUME NEW r \in RoomId, Net!Stop(r) PROVE ThrottleInv'
  BY <1>3, StopInStep
<1>4. ASSUME NEW r \in RoomId, Net!CloseRoom(r) PROVE ThrottleInv'
  BY <1>4, ClosedRoomInStep
<1>5. CASE Net!Start
  BY <1>5, StartInStep
<1>6. CASE Net!Started \/ Net!Stopped
  BY <1>6, EndedInStep
<1>7. CASE Net!Terminate
  <2>1. active' = active /\ leftover' = leftover
    BY <1>7 DEF Net!Terminate
  <2>2. active' \in BOOLEAN /\ leftover' \in BOOLEAN /\ (Kept' => Kept)
    BY <2>1, ThrottleParts DEF RestOK, Kept
  <2> QED BY <1>7, <2>2, ClosureInStep DEF Net!Terminate
<1>8. CASE Net!WorkerDied
  <2>1. (active' = active \/ active' = FALSE) /\ leftover' = (leftover /\ active')
    BY <1>8, Zenon DEF Net!WorkerDied
  <2>2. active \in BOOLEAN /\ leftover \in BOOLEAN
    BY ThrottleParts DEF RestOK
  <2>3. active' \in BOOLEAN /\ leftover' \in BOOLEAN /\ (Kept' => Kept)
    <3>1. CASE active' = active
      BY ONLY <2>1, <2>2, <3>1, Zenon DEF Kept
    <3>2. CASE active' = FALSE
      <4>1. leftover' = FALSE
        BY ONLY <2>1, <3>2
      <4> QED BY ONLY <3>2, <4>1, Zenon DEF Kept
    <3> QED BY ONLY <2>1, <3>1, <3>2, Zenon
  <2> QED BY <1>8, <2>3, ClosureInStep DEF Net!WorkerDied
<1>9. CASE UNCHANGED Net!vars
  BY <1>9 DEF Net!vars, Net!flags, Net!history, ThrottleInv, Net!TypeOK,
              OthersWait, StoppingIsOptimistic, ActiveIsRecorded
<1> QED BY <1>1, <1>2, <1>3, <1>4, <1>5, <1>6, <1>7, <1>8, <1>9 DEF Net!Next

-----------------------------------------------------------------------------
(* The theorems about the throttle.                                        *)

\* The invariant the other theorems are read off.
THEOREM ThrottleHolds == ASSUME Net!BoundsAssumption PROVE Net!Spec => []ThrottleInv
<1>1. Net!Init => ThrottleInv
  BY ThrottleStarts
<1>2. ThrottleInv /\ [Net!Next]_(Net!vars) => ThrottleInv'
  BY ThrottleStep
<1> QED BY <1>1, <1>2, PTL DEF Net!Spec

\* The flags of the Server and its queue have the types they are declared with.
THEOREM ThrottleTypes ==
  ASSUME Net!BoundsAssumption PROVE Net!Spec => []Net!TypeOK
<1>1. ThrottleInv => Net!TypeOK
  BY DEF ThrottleInv
<1> QED BY <1>1, ThrottleHolds, PTL

\* The network is throttled only while #networkThrottleEnabled says so, while
\* the running stop will put the flag back if its command fails, or because of a
\* throttle.start() that failed after some of its commands, which the code forgets.
THEOREM ThrottleIsRemembered ==
  ASSUME Net!BoundsAssumption PROVE Net!Spec => []ActiveIsRecorded
<1>1. ThrottleInv => ActiveIsRecorded
  BY DEF ThrottleInv
<1> QED BY <1>1, ThrottleHolds, PTL

=============================================================================
