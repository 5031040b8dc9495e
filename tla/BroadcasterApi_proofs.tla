------------------------ MODULE BroadcasterApi_proofs ------------------------
(***************************************************************************)
(* Proofs about BroadcasterApi, for every number of programs.  A program   *)
(* has one request of its plan under way at most, and the next one is made *)
(* from what it knows to be done; the rest of the invariant tells what the *)
(* server must have by then.                                               *)
(***************************************************************************)
EXTENDS BroadcasterApi, BroadcasterEnd, SequenceTheorems, FiniteSetTheorems, TLAPS

\* The requests of p that are under way: of its plan, and its DELETEs.
Own(p) == {r \in requests : r.from = p /\ r.what # Delete}
Deletes(p) == {r \in requests : r.from = p /\ r.what = Delete}

\* p has been told that it has done this, or is being told.
Told(p, what) == \E r \in Own(p) : r.what = what /\ r.at = "ok"

\* Where the plans ask for a Producer and for a Consumer of a kind.
ProduceAt == [audio |-> 6, video |-> 7]
ConsumeAt == [audio |-> 8, video |-> 9]

-----------------------------------------------------------------------------
(* The inductive invariant, for each program.                              *)

\* p waits for the next request of its plan, and for no other.
InOrder(p) ==
  /\ done[p] <= Len(Plan(p))
  /\ \A r \in Own(p) :
       mode[p] # "next" /\ ~Over(p) /\ r.what = Plan(p)[done[p] + 1]
  /\ \A r, q \in Own(p) : r = q
  /\ mode[p] = "waiting" => ~Over(p)
  /\ \A r \in Deletes(p) : r.at # "worker"
  /\ Deletes(p) # {} \/ p \in forgotten => done[p] >= 2

\* A BroadcasterPeer is made once.
PeerSound(p) ==
  /\ ~open \/ p \in forgotten => peer[p] \in {"none", "closed"}
  /\ peer[p] = "closed" => ~open \/ done[p] >= 2

\* What is alive of a closed BroadcasterPeer came while it closed, and is the last.
TransportsSound(p) ==
  /\ peer[p] # "closed" => alive[p] = held[p]
  /\ peer[p] = "closed" =>
       \/ alive[p] = {}
       \/ /\ \E kind \in Kind : alive[p] = {kind}
          /\ \A r \in Own(p) : r.at = "worker" => r.what.name # "createPlainTransport"

\* A Sender that is told of a Producer has it while it is in the Room.
SendsSound(p) ==
  p \in Sender /\ peer[p] = "joined" =>
    \A kind \in Kind :
      done[p] >= ProduceAt[kind] \/ Told(p, R("produce", kind)) => kind \in observed[p]

\* The Source asks for nothing of this kind any more.
Settled(kind) ==
  \/ done[Source] >= ProduceAt[kind]
  \/ /\ done[Source] = ProduceAt[kind] - 1 /\ mode[Source] # "next"
     /\ \A r \in Own(Source) : r.at \in {"ok", "failed"}

Offered(kind) == kind \in observed[Source] \cap alive[Source]

\* A Receiver asks for Consumers of a Producer that was made, and has those that it
\* is told of while their Producers are there.
ReceivesSound(p) ==
  p \in Receiver =>
    /\ p \in player => done[p] >= 9
    /\ \A kind \in Kind :
         /\ \A r \in Own(p) : r.what = R("consume", kind) /\ r.at = "worker" => Settled(kind)
         /\ /\ peer[p] = "joined"
            /\ done[p] >= ConsumeAt[kind] \/ Told(p, R("consume", kind))
            => Settled(kind) /\ (Offered(kind) => kind \in consumers[p])

\* A script sends one DELETE, when it ends, and finds its BroadcasterPeer.
ScriptSound(p) ==
  p \in Script =>
    /\ Deletes(p) # {} \/ p \in forgotten => mode[p] = "ended"
    /\ \A r, q \in Deletes(p) : r = q
    /\ open /\ \/ Told(p, About("createBroadcasterPeer"))
               \/ done[p] >= 2 /\ mode[p] # "ended"
               \/ \E r \in Deletes(p) : r.at = "sent"
       => peer[p] \in {"joining", "joined"}
    /\ open /\ p \in forgotten \cap player => \E r \in Deletes(p) : r.at = "ok"

Sound(p) ==
  /\ InOrder(p) /\ PeerSound(p) /\ TransportsSound(p)
  /\ SendsSound(p) /\ ReceivesSound(p) /\ ScriptSound(p)

Served ==
  /\ TypeOK
  /\ \A p \in Program : Sound(p)
  /\ \A kind \in observed[Source] : Settled(kind)

-----------------------------------------------------------------------------
(* The plans.                                                              *)

\* What the programs ask for.
What ==
  {About("getRouterRtpCapabilities"), About("createBroadcasterPeer"), About("join")} \cup
  [name: {"createPlainTransport", "connectPlainTransport", "produce", "consume",
          "resumeConsumer"}, kind: Kind]

LEMMA SenderSteps ==
  /\ SenderPlan \in Seq(What) /\ Len(SenderPlan) = 7
  /\ SenderPlan[1] = About("getRouterRtpCapabilities")
  /\ SenderPlan[2] = About("createBroadcasterPeer")
  /\ SenderPlan[3] = R("createPlainTransport", "audio")
  /\ SenderPlan[4] = R("createPlainTransport", "video")
  /\ SenderPlan[5] = About("join")
  /\ SenderPlan[6] = R("produce", "audio") /\ SenderPlan[7] = R("produce", "video")
BY DEF SenderPlan, Greeting, What, About, R, Kind

LEMMA ReceiverSteps ==
  /\ ReceiverPlan \in Seq(What) /\ Len(ReceiverPlan) = 10
  /\ ReceiverPlan[1] = About("getRouterRtpCapabilities")
  /\ ReceiverPlan[2] = About("createBroadcasterPeer")
  /\ ReceiverPlan[3] = R("createPlainTransport", "audio")
  /\ ReceiverPlan[4] = R("connectPlainTransport", "audio")
  /\ ReceiverPlan[5] = R("createPlainTransport", "video")
  /\ ReceiverPlan[6] = R("connectPlainTransport", "video")
  /\ ReceiverPlan[7] = About("join")
  /\ ReceiverPlan[8] = R("consume", "audio") /\ ReceiverPlan[9] = R("consume", "video")
  /\ ReceiverPlan[10] = R("resumeConsumer", "video")
BY DEF ReceiverPlan, Greeting, What, About, R, Kind

LEMMA NodeSteps ==
  /\ NodePlan \in Seq(What) /\ Len(NodePlan) = 4
  /\ NodePlan[1] = About("getRouterRtpCapabilities")
  /\ NodePlan[2] = About("createBroadcasterPeer")
  /\ NodePlan[3] = About("join")
  /\ NodePlan[4] = R("createPlainTransport", "audio")
BY DEF NodePlan, Greeting, What, About, R, Kind

\* The DELETE is in no plan, and every request of a plan is one that TypeOK knows.
LEMMA Requested ==
  /\ ToSet(SenderPlan \o ReceiverPlan) \subseteq What
  /\ \A i \in 1 .. 7 : SenderPlan[i] \in ToSet(SenderPlan \o ReceiverPlan)
  /\ \A i \in 1 .. 10 : ReceiverPlan[i] \in ToSet(SenderPlan \o ReceiverPlan)
  /\ \A i \in 1 .. 4 : NodePlan[i] \in ToSet(SenderPlan \o ReceiverPlan)
  /\ Delete \notin What
  /\ ToSet(Greeting) = {About("getRouterRtpCapabilities"), About("createBroadcasterPeer")}
<1>1. Delete \notin What
  BY DEF Delete, What, About, R
<1>2. ToSet(Greeting) = {About("getRouterRtpCapabilities"), About("createBroadcasterPeer")}
  BY DEF ToSet, Greeting
<1> DEFINE all == SenderPlan \o ReceiverPlan
<1>3. /\ Len(all) = 17 /\ all \in Seq(What)
      /\ \A i \in 1 .. 7 : all[i] = SenderPlan[i]
      /\ \A i \in 1 .. 10 : all[7 + i] = ReceiverPlan[i]
  <2>1. /\ all \in Seq(What) /\ Len(all) = Len(SenderPlan) + Len(ReceiverPlan)
        /\ \A i \in 1 .. Len(SenderPlan) + Len(ReceiverPlan) :
             all[i] = IF i <= Len(SenderPlan) THEN SenderPlan[i]
                                             ELSE ReceiverPlan[i - Len(SenderPlan)]
    BY SenderSteps, ReceiverSteps, ConcatProperties
  <2> HIDE DEF all
  <2> QED BY <2>1, SenderSteps, ReceiverSteps
<1> HIDE DEF all
<1>4. DOMAIN all = 1 .. 17
  BY <1>3, LenProperties
<1>5. \A i \in 1 .. 17 : all[i] \in What /\ all[i] \in ToSet(all)
  <2>1. \A i \in 1 .. Len(all) : all[i] \in What
    BY <1>3, ElementOfSeq
  <2>2. ASSUME NEW i \in 1 .. 17 PROVE all[i] \in ToSet(all)
    BY <1>4 DEF ToSet
  <2> QED BY <1>3, <2>1, <2>2
<1>6. ToSet(all) \subseteq What
  BY <1>4, <1>5 DEF ToSet
<1>7. \A i \in 1 .. 7 : SenderPlan[i] \in ToSet(all)
  BY <1>3, <1>5
<1>8. \A i \in 1 .. 10 : ReceiverPlan[i] \in ToSet(all)
  <2>1. \A i \in 1 .. 10 : 7 + i \in 1 .. 17
    OBVIOUS
  <2> QED BY <1>3, <1>5, <2>1
<1>9. \A i \in 1 .. 4 : NodePlan[i] \in ToSet(all)
  <2>1. /\ NodePlan[1] = SenderPlan[1] /\ NodePlan[2] = SenderPlan[2]
        /\ NodePlan[3] = SenderPlan[5] /\ NodePlan[4] = SenderPlan[3]
    BY SenderSteps, NodeSteps
  <2> QED BY <1>7, <2>1
<1> QED BY <1>1, <1>2, <1>6, <1>7, <1>8, <1>9 DEF all

\* Where the requests that the invariant tells of are in the plan of p.
LEMMA PlanOf ==
  ASSUME NEW p \in Program
  PROVE  /\ Len(Plan(p)) \in 4 .. 10
         /\ p \in Sender => Len(Plan(p)) = 7
         /\ p \in Receiver => Len(Plan(p)) = 10
         /\ \A i \in 1 .. Len(Plan(p)) :
              /\ Plan(p)[i] \in ToSet(SenderPlan \o ReceiverPlan)
              /\ Plan(p)[i] \in What /\ Plan(p)[i] # Delete
              /\ Plan(p)[i].name = "createBroadcasterPeer" <=> i = 2
              /\ p \in Sender => /\ Plan(p)[i].name = "join" => i = 5
                                 /\ Plan(p)[i].name = "createPlainTransport" => i < 6
                                 /\ Plan(p)[i].name = "produce" => i = ProduceAt[Plan(p)[i].kind]
                                 /\ Plan(p)[i].name # "consume"
              /\ p \in Receiver => /\ Plan(p)[i].name = "join" => i = 7
                                   /\ Plan(p)[i].name = "consume" => i = ConsumeAt[Plan(p)[i].kind]
                                   /\ Plan(p)[i].name # "produce"
         /\ Plan(p)[2] = About("createBroadcasterPeer")
         /\ \A kind \in Kind :
              /\ p \in Sender => Plan(p)[ProduceAt[kind]] = R("produce", kind)
              /\ p \in Receiver => Plan(p)[ConsumeAt[kind]] = R("consume", kind)
<1>1. CASE p \in Sender
  <2>1. Plan(p) = SenderPlan /\ p \notin Receiver
    BY <1>1, ProgramsAssumption DEF Plan
  <2> QED BY <1>1, <2>1, SenderSteps, Requested DEF About, R, Kind, ProduceAt
<1>2. CASE p \in Receiver
  <2>1. Plan(p) = ReceiverPlan /\ p \notin Sender
    BY <1>2, ProgramsAssumption DEF Plan
  <2> QED BY <1>2, <2>1, ReceiverSteps, Requested DEF About, R, Kind, ConsumeAt
<1>3. CASE p \in NodeProgram
  <2>1. Plan(p) = NodePlan /\ p \notin Sender /\ p \notin Receiver
    BY <1>3, ProgramsAssumption DEF Plan
  <2> QED BY <2>1, NodeSteps, Requested DEF About, R
<1> QED BY <1>1, <1>2, <1>3 DEF Program, Script

-----------------------------------------------------------------------------
(* Requests that come, go and are answered.                                *)

\* Requests of one program come and go.
LEMMA Effects ==
  ASSUME NEW i, NEW gone, NEW came, requests' = (requests \ gone) \cup came,
         \A r \in gone \cup came : r.from = i
  PROVE  /\ \A p : p # i => Own(p)' = Own(p) /\ Deletes(p)' = Deletes(p)
         /\ \A r : r \in Own(i)' <=>
                   (r \in Own(i) /\ r \notin gone) \/ (r \in came /\ r.what # Delete)
         /\ \A r : r \in Deletes(i)' <=>
                   (r \in Deletes(i) /\ r \notin gone) \/ (r \in came /\ r.what = Delete)
<1>1. ASSUME NEW p, p # i PROVE Own(p)' = Own(p) /\ Deletes(p)' = Deletes(p)
  BY <1>1 DEF Own, Deletes
<1>2. \A r : r \in Own(i)' <=>
             (r \in Own(i) /\ r \notin gone) \/ (r \in came /\ r.what # Delete)
  BY DEF Own
<1>3. \A r : r \in Deletes(i)' <=>
             (r \in Deletes(i) /\ r \notin gone) \/ (r \in came /\ r.what = Delete)
  BY DEF Deletes
<1> QED BY <1>1, <1>2, <1>3

\* An answer is read.
LEMMA OneRead ==
  ASSUME NEW i, NEW r, r.from = i, requests' = requests \ {r}
  PROVE  /\ \A p : p # i => Own(p)' = Own(p) /\ Deletes(p)' = Deletes(p)
         /\ Own(i)' = Own(i) \ {r} /\ Deletes(i)' = Deletes(i) \ {r}
<1>1. ASSUME NEW p, p # i PROVE Own(p)' = Own(p) /\ Deletes(p)' = Deletes(p)
  BY <1>1 DEF Own, Deletes
<1>2. Own(i)' = Own(i) \ {r} /\ Deletes(i)' = Deletes(i) \ {r}
  BY DEF Own, Deletes
<1> QED BY <1>1, <1>2

\* An answer of i is read, a DELETE of i comes, or both.
LEMMA DeleteComes ==
  ASSUME NEW i, NEW r, NEW m, r.from = i, m.from = i, m.what = Delete,
         \A q \in requests' : q \in requests \/ q = m,
         \A q \in requests : q \in requests' \/ q = r
  PROVE  /\ \A p : p # i => Own(p)' = Own(p) /\ Deletes(p)' = Deletes(p)
         /\ \A q \in Own(i)' : q \in Own(i)
         /\ \A q \in Deletes(i)' : q \in Deletes(i) \/ q = m
<1>1. ASSUME NEW p, p # i PROVE Own(p)' = Own(p) /\ Deletes(p)' = Deletes(p)
  BY <1>1 DEF Own, Deletes
<1>2. \A q \in Own(i)' : q \in Own(i)
  BY DEF Own
<1>3. \A q \in Deletes(i)' : q \in Deletes(i) \/ q = m
  BY DEF Deletes
<1> QED BY <1>1, <1>2, <1>3

\* What is under way of the plan of p is its next request.
LEMMA OwnRequest ==
  ASSUME Served, NEW p \in Program, NEW r \in Own(p)
  PROVE  /\ Own(p) = {r} /\ r \in requests /\ r.from = p
         /\ r.what \in What /\ r.what # Delete
         /\ mode[p] # "next" /\ done[p] + 1 \in 1 .. Len(Plan(p))
         /\ r.what = Plan(p)[done[p] + 1]
<1>1. InOrder(p) /\ done[p] \in Nat
  BY DEF Served, Sound, TypeOK
<1>2. Len(Plan(p)) \in 4 .. 10
  BY PlanOf
<1>3. /\ Own(p) = {r} /\ mode[p] # "next" /\ ~Over(p) /\ r.what = Plan(p)[done[p] + 1]
      /\ done[p] <= Len(Plan(p))
  BY <1>1 DEF InOrder
<1>4. r \in requests /\ r.from = p /\ r.what # Delete
  BY DEF Own
<1>5. done[p] + 1 \in 1 .. Len(Plan(p))
  BY <1>1, <1>2, <1>3 DEF Over
<1>6. r.what \in What
  BY <1>3, <1>5, PlanOf
<1> QED BY <1>3, <1>4, <1>5, <1>6

\* What an answer, or the Worker's being asked, does to a request of a plan: it stays
\* the only one, or is lost.
LEMMA OwnAnswered ==
  ASSUME Served, NEW p \in Program, NEW r \in Own(p),
         NEW x \in {"worker", "ok", "failed"},
         \/ Answer(r, x) \/ requests' = (requests \ {r}) \cup {[r EXCEPT !.at = x]}
  PROVE  /\ requests' \subseteq Request
         /\ \A q : q # p => Own(q)' = Own(q) /\ Deletes(q)' = Deletes(q)
         /\ Deletes(p)' = Deletes(p)
         /\ \A q \in Own(p)' : q = [r EXCEPT !.at = x]
         /\ \A q \in Own(p)' : q.what = r.what /\ q.at = x
<1> DEFINE e == [r EXCEPT !.at = x]
<1>1. r \in Request /\ Own(p) = {r} /\ r.from = p /\ r.what # Delete
  BY OwnRequest DEF Served, TypeOK
<1>2. e \in Request /\ e.from = p /\ e.what = r.what /\ e.at = x
  BY <1>1 DEF Request
<1>3. PICK came \in SUBSET {e} : requests' = (requests \ {r}) \cup came
  BY DEF Answer
<1> HIDE DEF e
<1>4. \A q \in {r} \cup came : q.from = p
  BY <1>1, <1>2
<1>5. /\ \A q : q # p => Own(q)' = Own(q) /\ Deletes(q)' = Deletes(q)
      /\ \A q : q \in Own(p)' <=>
                (q \in Own(p) /\ q \notin {r}) \/ (q \in came /\ q.what # Delete)
      /\ \A q : q \in Deletes(p)' <=>
                (q \in Deletes(p) /\ q \notin {r}) \/ (q \in came /\ q.what = Delete)
  BY <1>3, <1>4, Effects
<1>6. r \notin Deletes(p) /\ \A q \in came : q.what # Delete
  BY <1>1, <1>2 DEF Deletes
<1>7. \A q \in Own(p)' : q = e
  BY <1>1, <1>5
<1>8. requests' \subseteq Request
  BY <1>2, <1>3 DEF Served, TypeOK
<1> QED BY <1>2, <1>5, <1>6, <1>7, <1>8 DEF e

\* And to a DELETE: somebody reads its answer.
LEMMA DeleteAnswered ==
  ASSUME Served, NEW p \in Program, NEW r \in Deletes(p), NEW x \in {"ok", "failed"},
         Answer(r, x)
  PROVE  /\ requests' \subseteq Request
         /\ \A q : q # p => Own(q)' = Own(q) /\ Deletes(q)' = Deletes(q)
         /\ Own(p)' = Own(p)
         /\ Deletes(p)' = (Deletes(p) \ {r}) \cup {[r EXCEPT !.at = x]}
         /\ [r EXCEPT !.at = x].at = x
<1> DEFINE e == [r EXCEPT !.at = x]
<1>1. r \in Request /\ r.from = p /\ r.what = Delete
  BY DEF Served, TypeOK, Deletes
<1>2. e \in Request /\ e.from = p /\ e.what = Delete /\ e.at = x
  BY <1>1 DEF Request
<1>3. PICK came \in SUBSET {e} : e \in came /\ requests' = (requests \ {r}) \cup came
  BY <1>1 DEF Answer
<1> HIDE DEF e
<1>4. \A q \in {r} \cup came : q.from = p
  BY <1>1, <1>2, <1>3
<1>5. /\ \A q : q # p => Own(q)' = Own(q) /\ Deletes(q)' = Deletes(q)
      /\ \A q : q \in Own(p)' <=>
                (q \in Own(p) /\ q \notin {r}) \/ (q \in came /\ q.what # Delete)
      /\ \A q : q \in Deletes(p)' <=>
                (q \in Deletes(p) /\ q \notin {r}) \/ (q \in came /\ q.what = Delete)
  BY <1>3, <1>4, Effects
<1>6. r \notin Own(p)
  BY <1>1 DEF Own
<1>7. requests' \subseteq Request
  BY <1>2, <1>3 DEF Served, TypeOK
<1> QED BY <1>2, <1>3, <1>5, <1>6, <1>7 DEF e

-----------------------------------------------------------------------------
(* What the Source does for its Receivers.                                 *)

\* A Producer that the Source made does not become available again.
SourceKept ==
  \A kind \in Kind :
    Settled(kind) => Settled(kind)' /\ (Offered(kind)' => Offered(kind))

\* Server steps with a request under way of the Source's plan.
LEMMA SourceAnswered ==
  ASSUME Served, NEW r \in Own(Source), r.at \in {"sent", "worker"},
         UNCHANGED <<done, mode>>, NEW kind \in Kind, Settled(kind)
  PROVE  /\ Settled(kind)' /\ done[Source] >= ProduceAt[kind]
         /\ r.what.name # "createPlainTransport"
         /\ r.what # R("produce", kind)
<1>1. Source \in Sender /\ Source \in Program
  BY ProgramsAssumption DEF Program, Script
<1>2. done[Source] >= ProduceAt[kind]
  BY DEF Settled
<1>3. ProduceAt[kind] \in {6, 7}
  BY DEF ProduceAt, Kind
<1>4. done[Source] + 1 \in 1 .. Len(Plan(Source)) /\ r.what = Plan(Source)[done[Source] + 1]
      /\ done[Source] \in Nat
  BY <1>1, OwnRequest DEF Served, TypeOK
<1>5. r.what.name # "createPlainTransport"
  BY <1>1, <1>2, <1>3, <1>4, PlanOf
<1>6. r.what # R("produce", kind)
  BY <1>1, <1>2, <1>3, <1>4, PlanOf DEF R
<1> QED BY <1>2, <1>5, <1>6 DEF Settled

\* Nobody asks the Source's programs anything, and nothing becomes available.
LEMMA SourceAlone ==
  ASSUME Own(Source)' = Own(Source), done'[Source] = done[Source],
         mode'[Source] = mode[Source], observed'[Source] \subseteq observed[Source],
         alive'[Source] \subseteq alive[Source]
  PROVE  SourceKept
<1>1. ASSUME NEW kind PROVE Offered(kind)' => Offered(kind)
  BY DEF Offered
<1>2. ASSUME NEW kind, Settled(kind) PROVE Settled(kind)'
  BY <1>2 DEF Settled
<1> QED BY <1>1, <1>2 DEF SourceKept

\* An invariant of a program that a step does not concern.
LEMMA Bystander ==
  ASSUME Served, NEW p \in Program, Own(p)' = Own(p), Deletes(p)' = Deletes(p),
         done'[p] = done[p], mode'[p] = mode[p], open' = open,
         peer'[p] = peer[p], held'[p] = held[p], alive'[p] = alive[p],
         observed'[p] = observed[p],
         p \in forgotten' <=> p \in forgotten, p \in player' <=> p \in player,
         SourceKept,
         \A kind \in Kind : Offered(kind)' /\ kind \in consumers[p] => kind \in consumers'[p]
  PROVE  Sound(p)'
<1>1. /\ InOrder(p) /\ PeerSound(p) /\ TransportsSound(p) /\ SendsSound(p)
      /\ ReceivesSound(p) /\ ScriptSound(p)
  BY DEF Served, Sound
<1>2. InOrder(p)'
  BY <1>1 DEF InOrder, Over
<1>3. PeerSound(p)'
  BY <1>1 DEF PeerSound
<1>4. TransportsSound(p)'
  BY <1>1 DEF TransportsSound
<1>5. SendsSound(p)'
  BY <1>1 DEF SendsSound, Told
<1>6. ReceivesSound(p)'
  <2>1. \A kind \in Kind : Settled(kind) =>
          Settled(kind)' /\ (Offered(kind)' => Offered(kind))
    BY DEF SourceKept
  <2>2. \A what : Told(p, what)' <=> Told(p, what)
    BY DEF Told
  <2> QED BY <1>1, <2>1, <2>2 DEF ReceivesSound
<1>7. ScriptSound(p)'
  <2>1. \A what : Told(p, what)' <=> Told(p, what)
    BY DEF Told
  <2> QED BY <1>1, <2>1 DEF ScriptSound
<1> QED BY <1>2, <1>3, <1>4, <1>5, <1>6, <1>7 DEF Sound

\* The program whose request is answered, or passed on to the Worker.
LEMMA InOrderAnswered ==
  ASSUME Served, NEW p \in Program, NEW r \in Own(p),
         NEW x \in {"worker", "ok", "failed"},
         \A q \in Own(p)' : q = [r EXCEPT !.at = x],
         \A q \in Own(p)' : q.what = r.what /\ q.at = x,
         Deletes(p)' = Deletes(p), UNCHANGED <<done, mode, forgotten>>
  PROVE  /\ InOrder(p)'
         /\ \A what : Told(p, what)' => x = "ok" /\ what = r.what
<1>1. InOrder(p)
  BY DEF Served, Sound
<1>2. mode[p] # "next" /\ ~Over(p) /\ r.what = Plan(p)[done[p] + 1]
  BY <1>1 DEF InOrder
<1>3. InOrder(p)'
  BY <1>1, <1>2 DEF InOrder, Over
<1>4. \A what : Told(p, what)' => x = "ok" /\ what = r.what
  BY DEF Told
<1> QED BY <1>3, <1>4

\* It was answered with an error, or for nothing that the invariant is about.
LEMMA IdleAnswer ==
  ASSUME Served, NEW p \in Program, NEW r \in Own(p),
         NEW x \in {"worker", "ok", "failed"},
         \/ Answer(r, x) \/ requests' = (requests \ {r}) \cup {[r EXCEPT !.at = x]},
         x = "worker" => peer[p] # "closed" /\ (r.what.name = "consume" => Settled(r.what.kind)),
         x = "ok" => r.what.name \notin {"createBroadcasterPeer", "produce", "consume"},
         SourceKept, UNCHANGED <<open, done, mode, player, server, forgotten>>
  PROVE  Sound(p)'
<1>1. /\ InOrder(p) /\ PeerSound(p) /\ TransportsSound(p) /\ SendsSound(p)
      /\ ReceivesSound(p) /\ ScriptSound(p)
  BY DEF Served, Sound
<1>2. /\ Deletes(p)' = Deletes(p) /\ \A q \in Own(p)' : q = [r EXCEPT !.at = x]
      /\ \A q \in Own(p)' : q.what = r.what /\ q.at = x
  BY OwnAnswered
<1>3. InOrder(p)' /\ \A what : Told(p, what)' => x = "ok" /\ what = r.what
  BY <1>2, InOrderAnswered
<1>4. ~Told(p, About("createBroadcasterPeer"))'
  BY <1>3 DEF About, R
<1>5. \A kind : ~Told(p, R("produce", kind))' /\ ~Told(p, R("consume", kind))'
  BY <1>3 DEF R
<1>6. /\ open' = open /\ done' = done /\ mode' = mode /\ player' = player /\ peer' = peer
      /\ held' = held /\ alive' = alive /\ observed' = observed /\ consumers' = consumers
      /\ forgotten' = forgotten
  BY DEF server
<1>7. PeerSound(p)'
  BY <1>1, <1>6 DEF PeerSound
<1>8. TransportsSound(p)'
  BY <1>1, <1>2, <1>6 DEF TransportsSound
<1>9. SendsSound(p)'
  BY <1>1, <1>5, <1>6 DEF SendsSound
<1>10. ReceivesSound(p)'
  <2>1. \A kind \in Kind : Settled(kind) =>
          Settled(kind)' /\ (Offered(kind)' => Offered(kind))
    BY DEF SourceKept
  <2>2. \A kind \in Kind : r.what = R("consume", kind) /\ x = "worker" => Settled(kind)'
    BY <2>1 DEF R
  <2> QED BY <1>1, <1>2, <1>5, <1>6, <2>1, <2>2 DEF ReceivesSound
<1>11. ScriptSound(p)'
  BY <1>1, <1>2, <1>4, <1>6 DEF ScriptSound
<1> QED BY <1>3, <1>7, <1>8, <1>9, <1>10, <1>11 DEF Sound

-----------------------------------------------------------------------------
(* The steps of the server.                                                *)

\* Whose a request is.
LEMMA WhoseRequest ==
  ASSUME Served, NEW r \in requests
  PROVE  /\ r.from \in Program
         /\ r.what # Delete => r \in Own(r.from) /\ r.what.name # "disconnect"
         /\ r.what = Delete => r \in Deletes(r.from) /\ r.what.name = "disconnect"
         /\ r.what # Delete /\ r.what.name \notin {"getRouterRtpCapabilities",
              "createBroadcasterPeer", "join"} => r.what \notin ToSet(Greeting) /\ r.what.kind \in Kind
<1>1. r.from \in Program
  BY DEF Served, TypeOK, Request
<1>2. ASSUME r.what # Delete PROVE r \in Own(r.from) /\ r.what \in What
  <2>1. r \in Own(r.from)
    BY <1>2 DEF Own
  <2> QED BY <1>1, <2>1, OwnRequest
<1>3. r.what = Delete => r \in Deletes(r.from) /\ r.what.name = "disconnect"
  BY DEF Deletes, Delete, About, R
<1>4. \A w \in What : w.name # "disconnect" /\ (w.name \notin {"getRouterRtpCapabilities",
              "createBroadcasterPeer", "join"} => w \notin ToSet(Greeting) /\ w.kind \in Kind)
  BY Requested DEF What, About, R
<1> QED BY <1>1, <1>2, <1>3, <1>4

\* Requests that change nothing but themselves.
LEMMA RefuseSound ==
  ASSUME Served, SourceKept, NEW r \in requests, Refuse(r), NEW p \in Program
  PROVE  Sound(p)'
<1>1. /\ Answer(r, "failed") /\ r.at = "sent"
      /\ UNCHANGED <<open, done, mode, player, server>>
      /\ forgotten' = IF ~Found(r) /\ r.what = Delete THEN forgotten \cup {r.from} ELSE forgotten
  BY DEF Refuse, programs
<1>2. /\ open' = open /\ done' = done /\ mode' = mode /\ player' = player /\ peer' = peer
      /\ held' = held /\ alive' = alive /\ observed' = observed /\ consumers' = consumers
  BY <1>1 DEF server
<1>3. /\ r.from \in Program /\ (r.what # Delete => r \in Own(r.from))
      /\ (r.what = Delete => r \in Deletes(r.from))
  BY WhoseRequest
<1>4. CASE p # r.from
  <2>1. Own(p)' = Own(p) /\ Deletes(p)' = Deletes(p)
    <3>1. CASE r.what = Delete
      BY <1>1, <1>3, <1>4, <3>1, DeleteAnswered
    <3>2. CASE r.what # Delete
      BY <1>1, <1>3, <1>4, <3>2, OwnAnswered
    <3> QED BY <3>1, <3>2
  <2>2. p \in forgotten' <=> p \in forgotten
    BY <1>1, <1>4
  <2> QED BY <1>2, <2>1, <2>2, Bystander
<1>5. CASE p = r.from /\ r.what # Delete
  BY <1>1, <1>3, <1>5, IdleAnswer
<1>6. CASE p = r.from /\ r.what = Delete
  <2>1. /\ InOrder(p) /\ PeerSound(p) /\ TransportsSound(p) /\ SendsSound(p)
        /\ ReceivesSound(p) /\ ScriptSound(p)
    BY DEF Served, Sound
  <2>2. r \in Deletes(p) /\ p \in forgotten' => (p \in forgotten \/ ~Found(r))
    BY <1>1, <1>3, <1>6
  <2>3. /\ Own(p)' = Own(p) /\ \A what : Told(p, what)' <=> Told(p, what)
        /\ Deletes(p)' = (Deletes(p) \ {r}) \cup {[r EXCEPT !.at = "failed"]}
        /\ [r EXCEPT !.at = "failed"].at = "failed"
    BY <1>1, <1>3, <1>6, DeleteAnswered DEF Told
  <2>4. ~Found(r) => ~open \/ peer[p] \notin {"joining", "joined"}
    BY <1>6 DEF Found
  <2>5. InOrder(p)'
    BY <1>2, <1>3, <1>6, <2>1, <2>3 DEF InOrder, Over
  <2>6. PeerSound(p)'
    BY <1>2, <1>3, <1>6, <2>1, <2>2, <2>4 DEF PeerSound, Served, TypeOK
  <2>7. TransportsSound(p)' /\ SendsSound(p)'
    BY <1>2, <2>1, <2>3 DEF TransportsSound, SendsSound
  <2>8. ReceivesSound(p)'
    <3>1. \A kind \in Kind : Settled(kind) =>
            Settled(kind)' /\ (Offered(kind)' => Offered(kind))
      BY DEF SourceKept
    <3> QED BY <1>2, <2>1, <2>3, <3>1 DEF ReceivesSound
  <2>9. ScriptSound(p)'
    <3>1. SUFFICES ASSUME p \in Script PROVE ScriptSound(p)'
      BY DEF ScriptSound
    <3>2. mode[p] = "ended" /\ Deletes(p) = {r}
      BY <1>3, <1>6, <2>1, <3>1 DEF ScriptSound
    <3>3. Deletes(p)' = {[r EXCEPT !.at = "failed"]}
      BY <2>3, <3>2
    <3>4. open => peer[p] \in {"joining", "joined"} /\ (p \in forgotten => p \notin player)
      BY <1>1, <2>1, <3>1, <3>2 DEF ScriptSound
    <3>5. open /\ p \in forgotten' => p \notin player
      BY <1>1, <1>6, <2>4, <3>4
    <3> QED BY <1>2, <2>1, <2>3, <3>2, <3>3, <3>4, <3>5 DEF ScriptSound
  <2> QED BY <2>5, <2>6, <2>7, <2>8, <2>9 DEF Sound
<1> QED BY <1>4, <1>5, <1>6

\* The handlers that answer, or ask the Worker, and do no more.
LEMMA IdleSound ==
  ASSUME Served, SourceKept, NEW r \in requests,
         GetRouterRtpCapabilities(r) \/ AskWorker(r) \/ WorkerRefuses(r) \/ WorkerDid(r),
         NEW p \in Program
  PROVE  Sound(p)'
<1>1. UNCHANGED <<open, done, mode, player, server, forgotten>>
  BY DEF GetRouterRtpCapabilities, AskWorker, WorkerRefuses, WorkerDid, programs
<1>2. r.what # Delete /\ r.from \in Program /\ r \in Own(r.from)
  <2>1. r.what.name # "disconnect" \/ r.at = "worker"
    BY DEF GetRouterRtpCapabilities, AskWorker, WorkerDid, WorkerRefuses, Received, Asked,
           ForWorker
  <2>2. InOrder(r.from)
    BY WhoseRequest DEF Served, Sound
  <2> QED BY <2>1, <2>2, WhoseRequest DEF InOrder
<1>3. PICK x \in {"worker", "ok", "failed"} :
        /\ \/ Answer(r, x) \/ requests' = (requests \ {r}) \cup {[r EXCEPT !.at = x]}
        /\ x = "worker" => AskWorker(r) /\ Accepts(r)
        /\ x = "ok" => r.what.name \notin {"createBroadcasterPeer", "produce", "consume"}
  <2>1. CASE GetRouterRtpCapabilities(r)
    BY <2>1 DEF GetRouterRtpCapabilities, Received
  <2>2. CASE AskWorker(r)
    BY <2>2 DEF AskWorker
  <2>3. CASE WorkerRefuses(r)
    BY <2>3 DEF WorkerRefuses
  <2>4. CASE WorkerDid(r)
    BY <2>4 DEF WorkerDid, Asked
  <2> QED BY <2>1, <2>2, <2>3, <2>4
<1>4. CASE p # r.from
  <2>1. Own(p)' = Own(p) /\ Deletes(p)' = Deletes(p)
    BY <1>2, <1>3, <1>4, OwnAnswered
  <2> QED BY <1>1, <2>1, Bystander DEF server
<1>5. CASE p = r.from
  <2>1. x = "worker" => peer[p] # "closed"
    <3>1. SUFFICES ASSUME x = "worker" PROVE peer[p] # "closed"
      OBVIOUS
    <3>2. Found(r) /\ r.what.name \in ForWorker
      BY <1>3, <3>1 DEF AskWorker, Received
    <3>3. r.what \notin ToSet(Greeting)
      BY <1>2, <3>2, WhoseRequest DEF ForWorker
    <3> QED BY <1>5, <3>2, <3>3 DEF Found
  <2>2. x = "worker" /\ r.what.name = "consume" => Settled(r.what.kind)
    BY <1>3 DEF Accepts, CanConsume, Served
  <2> QED BY <1>1, <1>2, <1>3, <1>5, <2>1, <2>2, IdleAnswer
<1> QED BY <1>4, <1>5

\* A request of p itself that is answered: what any such step keeps.
LEMMA Asker ==
  ASSUME Served, SourceKept, NEW r \in requests, r.what # Delete, Answer(r, "ok"),
         UNCHANGED <<done, mode, forgotten>>
  PROVE  /\ r.from \in Program /\ r \in Own(r.from) /\ Own(r.from) = {r}
         /\ \A q : q # r.from => Own(q)' = Own(q) /\ Deletes(q)' = Deletes(q)
         /\ Deletes(r.from)' = Deletes(r.from) /\ InOrder(r.from)'
         /\ \A q \in Own(r.from)' : q.at = "ok"
         /\ \A what : Told(r.from, what)' => what = r.what
         /\ done[r.from] + 1 \in 1 .. Len(Plan(r.from)) /\ done[r.from] \in Nat
         /\ mode[r.from] # "next" /\ r.what = Plan(r.from)[done[r.from] + 1]
         /\ \A kind \in Kind : Settled(kind) =>
              Settled(kind)' /\ (Offered(kind)' => Offered(kind))
<1>1. r.from \in Program /\ r \in Own(r.from)
  BY WhoseRequest
<1>2. /\ Own(r.from) = {r} /\ done[r.from] + 1 \in 1 .. Len(Plan(r.from))
      /\ mode[r.from] # "next" /\ r.what = Plan(r.from)[done[r.from] + 1]
  BY <1>1, OwnRequest
<1>3. /\ \A q : q # r.from => Own(q)' = Own(q) /\ Deletes(q)' = Deletes(q)
      /\ Deletes(r.from)' = Deletes(r.from)
      /\ \A q \in Own(r.from)' : q = [r EXCEPT !.at = "ok"]
      /\ \A q \in Own(r.from)' : q.what = r.what /\ q.at = "ok"
  BY <1>1, OwnAnswered
<1>4. InOrder(r.from)' /\ \A what : Told(r.from, what)' => what = r.what
  BY <1>1, <1>3, InOrderAnswered
<1>5. done[r.from] \in Nat
  BY <1>1 DEF Served, TypeOK
<1> QED BY <1>1, <1>2, <1>3, <1>4, <1>5 DEF SourceKept

LEMMA CreateBroadcasterPeerSound ==
  ASSUME Served, SourceKept, NEW r \in requests, CreateBroadcasterPeer(r), NEW p \in Program
  PROVE  Sound(p)'
<1>1. /\ Answer(r, "ok") /\ r.what.name = "createBroadcasterPeer" /\ open
      /\ peer' = [peer EXCEPT ![r.from] = "joining"]
      /\ UNCHANGED <<open, done, mode, player, held, alive, observed, consumers, forgotten>>
  BY DEF CreateBroadcasterPeer, Received, Found, programs
<1>2. r.what # Delete
  BY <1>1, WhoseRequest
<1>3. CASE p # r.from
  <2>1. Own(p)' = Own(p) /\ Deletes(p)' = Deletes(p)
    BY <1>1, <1>2, <1>3, Asker
  <2>2. peer'[p] = peer[p]
    BY <1>1, <1>3 DEF Served, TypeOK
  <2> QED BY <1>1, <2>1, <2>2, Bystander
<1>4. CASE p = r.from
  <2>1. /\ InOrder(p) /\ PeerSound(p) /\ TransportsSound(p) /\ ReceivesSound(p)
        /\ ScriptSound(p)
    BY DEF Served, Sound
  <2>2. /\ InOrder(p)' /\ Deletes(p)' = Deletes(p) /\ \A q \in Own(p)' : q.at = "ok"
        /\ done[p] + 1 \in 1 .. Len(Plan(p)) /\ done[p] \in Nat
        /\ r.what = Plan(p)[done[p] + 1]
    BY <1>1, <1>2, <1>4, Asker
  <2>3. done[p] = 1
    BY <1>1, <2>2, PlanOf
  <2>4. peer'[p] = "joining"
    BY <1>1 , <1>4 DEF Served, TypeOK
  <2>5. p \notin forgotten /\ peer[p] # "closed" /\ Deletes(p) = {}
    BY <1>1, <2>1, <2>3 DEF InOrder, PeerSound
  <2>6. PeerSound(p)' /\ TransportsSound(p)' /\ SendsSound(p)'
    BY <1>1, <2>1, <2>4, <2>5 DEF PeerSound, TransportsSound, SendsSound
  <2>7. ReceivesSound(p)'
    BY <1>1, <2>1, <2>2, <2>4 DEF ReceivesSound
  <2>8. ScriptSound(p)'
    BY <1>1, <2>1, <2>2, <2>4, <2>5 DEF ScriptSound
  <2> QED BY <2>2, <2>6, <2>7, <2>8 DEF Sound
<1> QED BY <1>3, <1>4

LEMMA JoinSound ==
  ASSUME Served, SourceKept, NEW r \in requests, Join(r), NEW p \in Program
  PROVE  Sound(p)'
<1>1. /\ Answer(r, "ok") /\ r.what.name = "join" /\ open
      /\ peer' = [peer EXCEPT ![r.from] = "joined"]
      /\ UNCHANGED <<open, done, mode, player, held, alive, observed, consumers, forgotten>>
  BY DEF Join, Received, Found, programs
<1>2. r.what # Delete
  BY <1>1, WhoseRequest
<1>3. CASE p # r.from
  <2>1. Own(p)' = Own(p) /\ Deletes(p)' = Deletes(p)
    BY <1>1, <1>2, <1>3, Asker
  <2>2. peer'[p] = peer[p]
    BY <1>1, <1>3 DEF Served, TypeOK
  <2> QED BY <1>1, <2>1, <2>2, Bystander
<1>4. CASE p = r.from
  <2>1. /\ InOrder(p) /\ PeerSound(p) /\ TransportsSound(p) /\ ReceivesSound(p)
        /\ ScriptSound(p)
    BY DEF Served, Sound
  <2>2. /\ InOrder(p)' /\ Deletes(p)' = Deletes(p) /\ \A q \in Own(p)' : q.at = "ok"
        /\ done[p] + 1 \in 1 .. Len(Plan(p)) /\ done[p] \in Nat
        /\ r.what = Plan(p)[done[p] + 1]
        /\ \A what : Told(p, what)' => what = r.what
    BY <1>1, <1>2, <1>4, Asker
  <2>3. (p \in Sender => done[p] = 4) /\ (p \in Receiver => done[p] = 6)
    BY <1>1, <2>2, PlanOf
  <2>4. peer'[p] = "joined"
    BY <1>1, <1>4 DEF Served, TypeOK
  <2>5. peer[p] \in {"joining", "joined"}
    <3>1. r.what \notin ToSet(Greeting)
      BY <1>1, Requested DEF About, R
    <3> QED BY <1>4, <3>1 DEF Join, Received, Found
  <2>6. PeerSound(p)' /\ TransportsSound(p)'
    BY <1>1, <2>1, <2>4, <2>5 DEF PeerSound, TransportsSound
  <2>7. \A kind : ~Told(p, R("produce", kind))' /\ ~Told(p, R("consume", kind))'
    BY <1>1, <2>2 DEF R
  <2>8. ~Told(p, About("createBroadcasterPeer"))'
    BY <1>1, <2>2 DEF About, R
  <2>9. SendsSound(p)'
    BY <1>1, <2>3, <2>7 DEF SendsSound, ProduceAt, Kind
  <2>10. ReceivesSound(p)'
    BY <1>1, <2>1, <2>2, <2>3, <2>7 DEF ReceivesSound, ConsumeAt, Kind
  <2>11. ScriptSound(p)'
    BY <1>1, <2>1, <2>2, <2>4, <2>8 DEF ScriptSound
  <2> QED BY <2>2, <2>6, <2>9, <2>10, <2>11 DEF Sound
<1> QED BY <1>3, <1>4

LEMMA TransportCreatedSound ==
  ASSUME Served, SourceKept, NEW r \in requests, TransportCreated(r), NEW p \in Program
  PROVE  Sound(p)'
<1>1. /\ Answer(r, "ok") /\ r.at = "worker" /\ r.what.name = "createPlainTransport"
      /\ held' = [held EXCEPT ![r.from] = @ \cup {r.what.kind}]
      /\ alive' = [alive EXCEPT ![r.from] = @ \cup {r.what.kind}]
      /\ UNCHANGED <<open, done, mode, player, peer, observed, consumers, forgotten>>
  BY DEF TransportCreated, Asked, programs
<1>2. r.what # Delete /\ r.what.kind \in Kind
  BY <1>1, WhoseRequest
<1>3. CASE p # r.from
  <2>1. Own(p)' = Own(p) /\ Deletes(p)' = Deletes(p)
    BY <1>1, <1>2, <1>3, Asker
  <2>2. held'[p] = held[p] /\ alive'[p] = alive[p]
    BY <1>1, <1>3 DEF Served, TypeOK
  <2> QED BY <1>1, <2>1, <2>2, Bystander
<1>4. CASE p = r.from
  <2>1. /\ PeerSound(p) /\ TransportsSound(p) /\ SendsSound(p) /\ ReceivesSound(p)
        /\ ScriptSound(p)
    BY DEF Served, Sound
  <2>2. /\ InOrder(p)' /\ Deletes(p)' = Deletes(p) /\ \A q \in Own(p)' : q.at = "ok"
        /\ r \in Own(p) /\ \A what : Told(p, what)' => what = r.what
        /\ \A kind \in Kind : Settled(kind) =>
              Settled(kind)' /\ (Offered(kind)' => Offered(kind))
    BY <1>1, <1>2, <1>4, Asker
  <2>3. held'[p] = held[p] \cup {r.what.kind} /\ alive'[p] = alive[p] \cup {r.what.kind}
    BY <1>1, <1>4 DEF Served, TypeOK
  <2>4. PeerSound(p)'
    BY <1>1, <2>1 DEF PeerSound
  <2>5. TransportsSound(p)'
    BY <1>1, <1>2, <2>1, <2>2, <2>3 DEF TransportsSound
  <2>6. \A kind : ~Told(p, R("produce", kind))' /\ ~Told(p, R("consume", kind))'
    BY <1>1, <2>2 DEF R
  <2>7. ~Told(p, About("createBroadcasterPeer"))'
    BY <1>1, <2>2 DEF About, R
  <2>8. SendsSound(p)'
    BY <1>1, <2>1, <2>6 DEF SendsSound
  <2>9. ReceivesSound(p)'
    BY <1>1, <2>1, <2>2, <2>6 DEF ReceivesSound
  <2>10. ScriptSound(p)'
    BY <1>1, <2>1, <2>2, <2>7 DEF ScriptSound
  <2> QED BY <2>2, <2>4, <2>5, <2>8, <2>9, <2>10 DEF Sound
<1> QED BY <1>3, <1>4

LEMMA ProducerCreatedSound ==
  ASSUME Served, SourceKept, NEW r \in requests, ProducerCreated(r), NEW p \in Program
  PROVE  Sound(p)'
<1>1. /\ Answer(r, "ok") /\ r.at = "worker" /\ r.what.name = "produce"
      /\ observed' = [observed EXCEPT ![r.from] = @ \cup {r.what.kind}]
      /\ UNCHANGED <<open, done, mode, player, peer, held, alive, consumers, forgotten>>
  BY DEF ProducerCreated, Asked, programs
<1>2. r.what # Delete
  BY <1>1, WhoseRequest
<1>3. CASE p # r.from
  <2>1. Own(p)' = Own(p) /\ Deletes(p)' = Deletes(p)
    BY <1>1, <1>2, <1>3, Asker
  <2>2. observed'[p] = observed[p]
    BY <1>1, <1>3 DEF Served, TypeOK
  <2> QED BY <1>1, <2>1, <2>2, Bystander
<1>4. CASE p = r.from
  <2>1. /\ PeerSound(p) /\ TransportsSound(p) /\ SendsSound(p) /\ ReceivesSound(p)
        /\ ScriptSound(p)
    BY DEF Served, Sound
  <2>2. /\ InOrder(p)' /\ Deletes(p)' = Deletes(p) /\ \A q \in Own(p)' : q.at = "ok"
        /\ \A what : Told(p, what)' => what = r.what
        /\ \A kind \in Kind : Settled(kind) =>
              Settled(kind)' /\ (Offered(kind)' => Offered(kind))
    BY <1>1, <1>2, <1>4, Asker
  <2>3. observed'[p] = observed[p] \cup {r.what.kind}
    BY <1>1, <1>4 DEF Served, TypeOK
  <2>4. PeerSound(p)'
    BY <1>1, <2>1 DEF PeerSound
  <2>5. TransportsSound(p)'
    BY <1>1, <2>1, <2>2 DEF TransportsSound
  <2>6. /\ \A kind : Told(p, R("produce", kind))' => kind = r.what.kind
        /\ \A kind : ~Told(p, R("consume", kind))'
    BY <1>1, <2>2 DEF R
  <2>7. ~Told(p, About("createBroadcasterPeer"))'
    BY <1>1, <2>2 DEF About, R
  <2>8. SendsSound(p)'
    BY <1>1, <2>1, <2>3, <2>6 DEF SendsSound
  <2>9. ReceivesSound(p)'
    BY <1>1, <2>1, <2>2, <2>6 DEF ReceivesSound
  <2>10. ScriptSound(p)'
    BY <1>1, <2>1, <2>2, <2>7 DEF ScriptSound
  <2> QED BY <2>2, <2>4, <2>5, <2>8, <2>9, <2>10 DEF Sound
<1> QED BY <1>3, <1>4

LEMMA ConsumerCreatedSound ==
  ASSUME Served, SourceKept, NEW r \in requests, ConsumerCreated(r), NEW p \in Program
  PROVE  Sound(p)'
<1>1. /\ Answer(r, "ok") /\ r.at = "worker" /\ r.what.name = "consume"
      /\ consumers' = [consumers EXCEPT ![r.from] = @ \cup {r.what.kind}]
      /\ UNCHANGED <<open, done, mode, player, peer, held, alive, observed, forgotten>>
  BY DEF ConsumerCreated, Asked, programs
<1>2. r.what # Delete /\ r.what.kind \in Kind
  BY <1>1, WhoseRequest
<1>3. CASE p # r.from
  <2>1. Own(p)' = Own(p) /\ Deletes(p)' = Deletes(p)
    BY <1>1, <1>2, <1>3, Asker
  <2>2. consumers'[p] = consumers[p]
    BY <1>1, <1>3 DEF Served, TypeOK
  <2> QED BY <1>1, <2>1, <2>2, Bystander
<1>4. CASE p = r.from
  <2>1. /\ PeerSound(p) /\ TransportsSound(p) /\ SendsSound(p) /\ ReceivesSound(p)
        /\ ScriptSound(p)
    BY DEF Served, Sound
  <2>2. /\ InOrder(p)' /\ Deletes(p)' = Deletes(p) /\ \A q \in Own(p)' : q.at = "ok"
        /\ r \in Own(p) /\ \A what : Told(p, what)' => what = r.what
        /\ \A kind \in Kind : Settled(kind) =>
              Settled(kind)' /\ (Offered(kind)' => Offered(kind))
    BY <1>1, <1>2, <1>4, Asker
  <2>3. consumers'[p] = consumers[p] \cup {r.what.kind}
    BY <1>1, <1>4 DEF Served, TypeOK
  <2>4. PeerSound(p)' /\ TransportsSound(p)'
    BY <1>1, <2>1, <2>2 DEF PeerSound, TransportsSound
  <2>5. /\ \A kind : ~Told(p, R("produce", kind))'
        /\ \A kind : Told(p, R("consume", kind))' => kind = r.what.kind /\ r.what = R("consume", kind)
    BY <1>1, <2>2 DEF R
  <2>6. ~Told(p, About("createBroadcasterPeer"))'
    BY <1>1, <2>2 DEF About, R
  <2>7. SendsSound(p)'
    BY <1>1, <2>1, <2>5 DEF SendsSound
  <2>8. ReceivesSound(p)'
    BY <1>1, <2>1, <2>2, <2>3, <2>5 DEF ReceivesSound
  <2>9. ScriptSound(p)'
    BY <1>1, <2>1, <2>2, <2>6 DEF ScriptSound
  <2> QED BY <2>2, <2>4, <2>7, <2>8, <2>9 DEF Sound
<1> QED BY <1>3, <1>4

LEMMA DisconnectSound ==
  ASSUME Served, SourceKept, NEW r \in requests, Disconnect(r), NEW p \in Program
  PROVE  Sound(p)'
<1>1. /\ Answer(r, "ok") /\ r.what.name = "disconnect" /\ r.at = "sent"
      /\ peer' = [peer EXCEPT ![r.from] = "closed"]
      /\ Closed(r.from, held[r.from])
      /\ forgotten' = forgotten \cup {r.from}
      /\ UNCHANGED <<open, done, mode, player>>
  BY DEF Disconnect, CloseBroadcasterPeer, Received, programs
<1>2. r.what = Delete /\ r.from \in Program /\ r \in Deletes(r.from)
  BY <1>1, WhoseRequest
<1>3. peer[r.from] \in {"joining", "joined"}
  <2>1. r.what \notin ToSet(Greeting)
    BY <1>1, Requested DEF About, R
  <2> QED BY <2>1 DEF Disconnect, Received, Found
<1>4. /\ alive' = [alive EXCEPT ![r.from] = @ \ held[r.from]]
      /\ held' = [held EXCEPT ![r.from] = @ \ held[r.from]]
      /\ observed' = [observed EXCEPT ![r.from] = @ \ held[r.from]]
      /\ consumers' = [q \in Program |->
           IF q = r.from \/ r.from = Source THEN consumers[q] \ held[r.from] ELSE consumers[q]]
  BY <1>1 DEF Closed
<1>5. /\ \A q : q # r.from => Own(q)' = Own(q) /\ Deletes(q)' = Deletes(q)
      /\ Own(r.from)' = Own(r.from)
      /\ Deletes(r.from)' = (Deletes(r.from) \ {r}) \cup {[r EXCEPT !.at = "ok"]}
      /\ [r EXCEPT !.at = "ok"].at = "ok"
  BY <1>1, <1>2, DeleteAnswered
<1>6. CASE p # r.from
  <2>1. /\ peer'[p] = peer[p] /\ held'[p] = held[p] /\ alive'[p] = alive[p]
        /\ observed'[p] = observed[p]
    BY <1>1, <1>4, <1>6 DEF Served, TypeOK
  <2>2. ASSUME NEW kind \in Kind, Offered(kind)', kind \in consumers[p]
        PROVE  kind \in consumers'[p]
    <3>1. r.from = Source => kind \notin held[r.from]
      BY <1>2, <1>4, <2>2 DEF Offered, Served, TypeOK
    <3> QED BY <1>4, <1>6, <2>2, <3>1
  <2>3. p \in forgotten' <=> p \in forgotten
    BY <1>1, <1>6
  <2> QED BY <1>1, <1>5, <1>6, <2>1, <2>2, <2>3, Bystander
<1>7. CASE p = r.from
  <2>1. /\ InOrder(p) /\ PeerSound(p) /\ TransportsSound(p) /\ ReceivesSound(p)
        /\ ScriptSound(p)
    BY DEF Served, Sound
  <2>2. peer'[p] = "closed" /\ alive'[p] = {}
    <3>1. alive[p] = held[p]
      BY <1>3, <1>7, <2>1 DEF TransportsSound
    <3> QED BY <1>1, <1>4, <1>7, <3>1 DEF Served, TypeOK
  <2>3. done[p] >= 2 /\ Own(p)' = Own(p) /\ \A what : Told(p, what)' <=> Told(p, what)
    BY <1>2, <1>5, <1>7, <2>1 DEF InOrder, Told
  <2>4. InOrder(p)'
    BY <1>1, <1>5, <1>7, <2>1, <2>3 DEF InOrder, Over
  <2>5. PeerSound(p)' /\ TransportsSound(p)' /\ SendsSound(p)'
    BY <1>1, <2>2, <2>3 DEF PeerSound, TransportsSound, SendsSound
  <2>6. ReceivesSound(p)'
    <3>1. \A kind \in Kind : Settled(kind) => Settled(kind)'
      BY DEF SourceKept
    <3> QED BY <1>1, <2>1, <2>2, <2>3, <3>1 DEF ReceivesSound
  <2>7. ScriptSound(p)'
    <3>1. SUFFICES ASSUME p \in Script PROVE ScriptSound(p)'
      BY DEF ScriptSound
    <3>2. mode[p] = "ended" /\ Deletes(p) = {r}
      BY <1>2, <1>7, <2>1, <3>1 DEF ScriptSound
    <3>3. Deletes(p)' = {[r EXCEPT !.at = "ok"]}
      BY <1>5, <1>7, <3>2
    <3>4. ~Told(p, About("createBroadcasterPeer"))
      <4>1. SUFFICES ASSUME NEW q \in Own(p), q.what = About("createBroadcasterPeer")
                     PROVE  FALSE
        BY DEF Told
      <4>2. done[p] + 1 \in 1 .. Len(Plan(p)) /\ q.what = Plan(p)[done[p] + 1]
        BY OwnRequest
      <4>3. q.what.name = "createBroadcasterPeer" /\ done[p] \in Nat
        BY <4>1 DEF About, R, Served, TypeOK
      <4> QED BY <2>3, <4>2, <4>3, PlanOf
    <3> QED BY <1>1, <1>5, <2>3, <3>2, <3>3, <3>4 DEF ScriptSound
  <2> QED BY <2>4, <2>5, <2>6, <2>7 DEF Sound
<1> QED BY <1>6, <1>7

LEMMA CloseRoomSound ==
  ASSUME Served, SourceKept, CloseRoom, NEW p \in Program
  PROVE  Sound(p)'
<1>1. /\ InOrder(p) /\ PeerSound(p) /\ TransportsSound(p) /\ ReceivesSound(p) /\ ScriptSound(p)
  BY DEF Served, Sound
<1>2. /\ ~open' /\ peer'[p] \in {"none", "closed"} /\ held'[p] = {} /\ alive'[p] = {}
      /\ UNCHANGED <<done, mode, player, requests, forgotten>>
  BY DEF CloseRoom, programs
<1>3. Own(p)' = Own(p) /\ Deletes(p)' = Deletes(p)
  BY <1>2 DEF Own, Deletes
<1>4. InOrder(p)'
  BY <1>1, <1>2, <1>3 DEF InOrder, Over
<1>5. PeerSound(p)' /\ TransportsSound(p)' /\ SendsSound(p)'
  BY <1>2 DEF PeerSound, TransportsSound, SendsSound
<1>6. ReceivesSound(p)'
  <2>1. \A kind \in Kind : Settled(kind) => Settled(kind)'
    BY DEF SourceKept
  <2> QED BY <1>1, <1>2, <1>3, <2>1 DEF ReceivesSound
<1>7. ScriptSound(p)'
  BY <1>1, <1>2, <1>3 DEF ScriptSound
<1> QED BY <1>4, <1>5, <1>6, <1>7 DEF Sound

-----------------------------------------------------------------------------
(* The steps of the programs.                                              *)

LEMMA AskSound ==
  ASSUME Served, SourceKept, NEW i \in Program, Ask(i), NEW p \in Program
  PROVE  Sound(p)'
<1> DEFINE m == Message(i, Plan(i)[done[i] + 1])
<1>1. /\ mode[i] = "next" /\ ~Over(i) /\ requests' = (requests \ {}) \cup {m}
      /\ mode' = [mode EXCEPT ![i] = "waiting"]
      /\ UNCHANGED <<open, done, player, server, forgotten>>
  BY DEF Ask
<1>2. InOrder(i) /\ done[i] \in Nat /\ Len(Plan(i)) \in 4 .. 10
  BY PlanOf DEF Served, Sound, TypeOK
<1>3. m.from = i /\ m.at = "sent" /\ m.what = Plan(i)[done[i] + 1] /\ m.what # Delete
  <2>1. done[i] + 1 \in 1 .. Len(Plan(i))
    BY <1>1, <1>2 DEF InOrder, Over
  <2>2. Plan(i)[done[i] + 1] # Delete
    BY <2>1, PlanOf
  <2> QED BY <2>2 DEF Message
<1> HIDE DEF m
<1>4. PICK came \in SUBSET {m} : m \in came /\ requests' = (requests \ {}) \cup came
  BY <1>1
<1>5. \A r \in {} \cup came : r.from = i
  BY <1>3, <1>4
<1>6. /\ \A q : q # i => Own(q)' = Own(q) /\ Deletes(q)' = Deletes(q)
      /\ \A r : r \in Own(i)' <=>
                (r \in Own(i) /\ r \notin {}) \/ (r \in came /\ r.what # Delete)
      /\ \A r : r \in Deletes(i)' <=>
                (r \in Deletes(i) /\ r \notin {}) \/ (r \in came /\ r.what = Delete)
  BY <1>4, <1>5, Effects
<1>7. CASE p # i
  <2>1. mode'[p] = mode[p]
    BY <1>1, <1>7 DEF Served, TypeOK
  <2> QED BY <1>1, <1>6, <1>7, <2>1, Bystander DEF server
<1>8. CASE p = i
  <2>1. /\ PeerSound(p) /\ TransportsSound(p) /\ SendsSound(p) /\ ReceivesSound(p)
        /\ ScriptSound(p)
    BY DEF Served, Sound
  <2>2. Own(p)' = {m} /\ Deletes(p)' = Deletes(p)
    <3>1. Own(p) = {}
      BY <1>1, <1>2, <1>8 DEF InOrder
    <3> QED BY <1>3, <1>4, <1>6, <1>8, <3>1
  <2>3. mode'[p] = "waiting"
    BY <1>1, <1>8 DEF Served, TypeOK
  <2>4. /\ open' = open /\ done' = done /\ player' = player /\ peer' = peer /\ held' = held
        /\ alive' = alive /\ observed' = observed /\ consumers' = consumers
        /\ forgotten' = forgotten
    BY <1>1 DEF server
  <2>5. InOrder(p)'
    BY <1>1, <1>2, <1>3, <1>8, <2>2, <2>3, <2>4 DEF InOrder, Over
  <2>6. \A what : ~Told(p, what)'
    BY <1>3, <2>2 DEF Told
  <2>7. PeerSound(p)' /\ TransportsSound(p)'
    BY <1>3, <2>1, <2>2, <2>4 DEF PeerSound, TransportsSound
  <2>8. SendsSound(p)'
    BY <2>1, <2>4, <2>6 DEF SendsSound
  <2>9. ReceivesSound(p)'
    <3>1. \A kind \in Kind : Settled(kind) =>
            Settled(kind)' /\ (Offered(kind)' => Offered(kind))
      BY DEF SourceKept
    <3> QED BY <1>3, <2>1, <2>2, <2>4, <2>6, <3>1 DEF ReceivesSound
  <2>10. ScriptSound(p)'
    BY <1>1, <1>8, <2>1, <2>2, <2>3, <2>4, <2>6 DEF ScriptSound
  <2> QED BY <2>5, <2>7, <2>8, <2>9, <2>10 DEF Sound
<1> QED BY <1>7, <1>8

LEMMA SucceedSound ==
  ASSUME Served, SourceKept, NEW i \in Program, Succeed(i), NEW p \in Program
  PROVE  Sound(p)'
<1>1. PICK r \in requests : Waits(i, r) /\ r.at = "ok" /\ requests' = requests \ {r}
  BY DEF Succeed
<1>2. /\ done' = [done EXCEPT ![i] = @ + 1] /\ mode' = [mode EXCEPT ![i] = "next"]
      /\ player' = IF i \in Receiver /\ done'[i] = Len(ReceiverPlan) - 1
                   THEN player \cup {i} ELSE player
      /\ UNCHANGED <<open, server, forgotten>>
  BY DEF Succeed
<1>3. InOrder(i) /\ done[i] \in Nat /\ mode[i] = "waiting" /\ Len(Plan(i)) \in 4 .. 10
  BY <1>1, PlanOf DEF Waits, Served, Sound, TypeOK
<1>4. done[i] + 1 \in 1 .. Len(Plan(i)) /\ r.what = Plan(i)[done[i] + 1]
  BY <1>1, <1>3 DEF InOrder, Over, Waits
<1>5. r.from = i /\ r.what # Delete /\ r \in Own(i)
  BY <1>1, <1>4, PlanOf DEF Waits, Own
<1>6. /\ \A q : q # i => Own(q)' = Own(q) /\ Deletes(q)' = Deletes(q)
      /\ Own(i)' = {} /\ Deletes(i)' = Deletes(i)
  <2>1. Own(i) = {r} /\ r \notin Deletes(i)
    BY <1>3, <1>5 DEF InOrder, Deletes
  <2>2. /\ \A q : q # i => Own(q)' = Own(q) /\ Deletes(q)' = Deletes(q)
        /\ Own(i)' = Own(i) \ {r} /\ Deletes(i)' = Deletes(i) \ {r}
    BY <1>1, <1>5, OneRead
  <2> QED BY <2>1, <2>2
<1>7. CASE p # i
  <2>1. /\ mode'[p] = mode[p] /\ done'[p] = done[p]
        /\ p \in player' <=> p \in player
    BY <1>2, <1>7 DEF Served, TypeOK
  <2> QED BY <1>2, <1>6, <1>7, <2>1, Bystander DEF server
<1>8. CASE p = i
  <2>1. /\ PeerSound(p) /\ TransportsSound(p) /\ SendsSound(p) /\ ReceivesSound(p)
        /\ ScriptSound(p)
    BY DEF Served, Sound
  <2>2. mode'[p] = "next" /\ done'[p] = done[p] + 1
    BY <1>2, <1>8 DEF Served, TypeOK
  <2>3. /\ open' = open /\ peer' = peer /\ held' = held /\ alive' = alive
        /\ observed' = observed /\ consumers' = consumers /\ forgotten' = forgotten
    BY <1>2 DEF server
  <2>4. InOrder(p)'
    BY <1>3, <1>4, <1>6, <1>8, <2>2, <2>3 DEF InOrder, Over
  <2>5. /\ \A what : ~Told(p, what)'
        /\ Told(p, r.what)
    BY <1>1, <1>5, <1>6, <1>8 DEF Told
  <2>6. PeerSound(p)' /\ TransportsSound(p)'
    BY <1>3, <1>6, <1>8, <2>1, <2>2, <2>3 DEF PeerSound, TransportsSound
  <2>7. ASSUME p \in Sender, NEW kind \in Kind, done'[p] >= ProduceAt[kind]
        PROVE  done[p] >= ProduceAt[kind] \/ Told(p, R("produce", kind))
    <3>1. ProduceAt[kind] \in {6, 7}
      BY DEF ProduceAt, Kind
    <3>2. CASE done[p] + 1 = ProduceAt[kind]
      BY <1>4, <1>8, <2>5, <2>7, <3>2, PlanOf
    <3>3. CASE done[p] + 1 # ProduceAt[kind]
      BY <1>3, <1>8, <2>2, <2>7, <3>1, <3>3
    <3> QED BY <3>2, <3>3
  <2>8. SendsSound(p)'
    BY <2>1, <2>3, <2>5, <2>7 DEF SendsSound
  <2>9. ASSUME p \in Receiver, NEW kind \in Kind, done'[p] >= ConsumeAt[kind]
        PROVE  done[p] >= ConsumeAt[kind] \/ Told(p, R("consume", kind))
    <3>1. ConsumeAt[kind] \in {8, 9}
      BY DEF ConsumeAt, Kind
    <3>2. CASE done[p] + 1 = ConsumeAt[kind]
      BY <1>4, <1>8, <2>5, <2>9, <3>2, PlanOf
    <3>3. CASE done[p] + 1 # ConsumeAt[kind]
      BY <1>3, <1>8, <2>2, <2>9, <3>1, <3>3
    <3> QED BY <3>2, <3>3
  <2>10. ReceivesSound(p)'
    <3>1. \A kind \in Kind : Settled(kind) =>
            Settled(kind)' /\ (Offered(kind)' => Offered(kind))
      BY DEF SourceKept
    <3>2. p \in Receiver /\ p \in player' => done'[p] >= 9
      BY <1>2, <1>3, <1>8, <2>1, <2>2, ReceiverSteps DEF ReceivesSound
    <3> QED BY <1>6, <1>8, <2>1, <2>3, <2>5, <2>9, <3>1, <3>2 DEF ReceivesSound
  <2>11. ScriptSound(p)'
    <3>1. SUFFICES ASSUME p \in Script PROVE ScriptSound(p)'
      BY DEF ScriptSound
    <3>2. Deletes(p) = {} /\ p \notin forgotten
      BY <1>3, <1>8, <2>1, <3>1 DEF ScriptSound
    <3>3. done'[p] >= 2 => done[p] >= 2 \/ Told(p, About("createBroadcasterPeer"))
      BY <1>3, <1>4, <1>8, <2>2, <2>5, PlanOf
    <3> QED BY <1>3, <1>6, <1>8, <2>1, <2>2, <2>3, <2>5, <3>1, <3>2, <3>3 DEF ScriptSound
  <2> QED BY <2>4, <2>6, <2>8, <2>10, <2>11 DEF Sound
<1> QED BY <1>7, <1>8

\* A script ends, and its trap sends the DELETE.
LEMMA ExitSound ==
  ASSUME Served, SourceKept, NEW i \in Script, ScriptFails(i) \/ ScriptInterrupted(i),
         NEW p \in Program
  PROVE  Sound(p)'
<1> DEFINE m == Message(i, Delete)
<1>1. i \in Program /\ InOrder(i) /\ ScriptSound(i)
  BY DEF Served, Sound, Program
<1>2. mode[i] # "ended"
  BY DEF ScriptFails, ScriptInterrupted, Waits
<1>3. PICK gone \in SUBSET requests :
        /\ \A r \in gone : Waits(i, r)
        /\ requests' = (requests \ gone) \cup IF Trap(i) THEN {m} ELSE {}
  <2>1. CASE ScriptFails(i)
    <3>1. PICK r \in requests : Waits(i, r) /\ Exit(i, requests \ {r})
      BY <2>1 DEF ScriptFails
    <3>2. requests' = (requests \ {r}) \cup IF Trap(i) THEN {m} ELSE {}
      BY <3>1 DEF Exit
    <3>3. {r} \in SUBSET requests /\ \A q \in {r} : Waits(i, q)
      BY <3>1
    <3> QED BY <3>2, <3>3
  <2>2. CASE ScriptInterrupted(i)
    <3> DEFINE rest == {r \in requests : Waits(i, r) => r.at \in {"sent", "worker"}}
    <3>1. requests' = rest \cup IF Trap(i) THEN {m} ELSE {}
      BY <2>2 DEF ScriptInterrupted, Exit
    <3>2. rest = requests \ (requests \ rest) /\ \A r \in requests \ rest : Waits(i, r)
      OBVIOUS
    <3> QED BY <3>1, <3>2
  <2> QED BY <2>1, <2>2
<1>4. /\ mode' = [mode EXCEPT ![i] = "ended"]
      /\ UNCHANGED <<open, done, player, server, forgotten>>
  BY DEF ScriptFails, ScriptInterrupted, Exit
<1>5. m.from = i /\ m.at = "sent" /\ m.what = Delete
  BY DEF Message
<1> HIDE DEF m
<1>6. PICK came \in SUBSET {m} :
        (m \in came <=> Trap(i)) /\ requests' = (requests \ gone) \cup came
  BY <1>3
<1>7. \A r \in gone \cup came : r.from = i
  BY <1>3, <1>5 DEF Waits
<1>8. /\ \A q : q # i => Own(q)' = Own(q) /\ Deletes(q)' = Deletes(q)
      /\ \A r : r \in Own(i)' <=>
                (r \in Own(i) /\ r \notin gone) \/ (r \in came /\ r.what # Delete)
      /\ \A r : r \in Deletes(i)' <=>
                (r \in Deletes(i) /\ r \notin gone) \/ (r \in came /\ r.what = Delete)
  BY <1>6, <1>7, Effects
<1>9. CASE p # i
  <2>1. mode'[p] = mode[p]
    BY <1>1, <1>4, <1>9 DEF Served, TypeOK
  <2> QED BY <1>4, <1>8, <1>9, <2>1, Bystander DEF server
<1>10. CASE p = i
  <2>1. /\ PeerSound(p) /\ TransportsSound(p) /\ SendsSound(p) /\ ReceivesSound(p)
    BY DEF Served, Sound
  <2>2. Own(p)' \subseteq Own(p)
    BY <1>5, <1>8, <1>10
  <2>3. Deletes(p) = {} /\ p \notin forgotten
    BY <1>1, <1>2, <1>10 DEF ScriptSound
  <2>4. /\ \A r \in Deletes(p)' : r = m /\ Trap(p)
        /\ \A r \in Deletes(p)' : r.at = "sent"
    BY <1>5, <1>6, <1>8, <1>10, <2>3
  <2>5. mode'[p] = "ended" /\ done[p] \in Nat
    BY <1>1, <1>4, <1>10 DEF Served, TypeOK
  <2>6. /\ open' = open /\ done' = done /\ player' = player /\ peer' = peer /\ held' = held
        /\ alive' = alive /\ observed' = observed /\ consumers' = consumers
        /\ forgotten' = forgotten
    BY <1>4 DEF server
  <2>7. \A what : Told(p, what)' => Told(p, what)
    BY <2>2 DEF Told
  <2>8. InOrder(p)'
    BY <1>1, <1>10, <2>2, <2>3, <2>4, <2>5, <2>6 DEF InOrder, Over, Trap
  <2>9. PeerSound(p)' /\ TransportsSound(p)'
    BY <2>1, <2>2, <2>6 DEF PeerSound, TransportsSound
  <2>10. SendsSound(p)'
    BY <2>1, <2>6, <2>7 DEF SendsSound
  <2>11. ReceivesSound(p)'
    <3>1. \A kind \in Kind : Settled(kind) =>
            Settled(kind)' /\ (Offered(kind)' => Offered(kind))
      BY DEF SourceKept
    <3> QED BY <2>1, <2>2, <2>6, <2>7, <3>1 DEF ReceivesSound
  <2>12. ScriptSound(p)'
    BY <1>1, <1>2, <1>10, <2>3, <2>4, <2>5, <2>6, <2>7 DEF ScriptSound, Trap
  <2> QED BY <2>8, <2>9, <2>10, <2>11, <2>12 DEF Sound
<1> QED BY <1>9, <1>10

\* A Node program ends with an error, and sends the DELETE if it can.
LEMMA NodeFailsSound ==
  ASSUME Served, SourceKept, NEW i \in NodeProgram, NodeFails(i), NEW p \in Program
  PROVE  Sound(p)'
<1> DEFINE m == Message(i, Delete)
<1>1. i \in Program /\ i \notin Script /\ InOrder(i)
  BY ProgramsAssumption DEF Served, Sound, Program, Script
<1>2. PICK r \in requests :
        /\ Waits(i, r)
        /\ requests' = (requests \ {r}) \cup
             IF Created(i) /\ i \notin early \cup closing THEN {m} ELSE {}
  BY DEF NodeFails
<1>3. /\ mode' = [mode EXCEPT ![i] = "ended"]
      /\ UNCHANGED <<open, done, player, server, forgotten>>
  BY DEF NodeFails
<1>4. m.from = i /\ m.at = "sent" /\ m.what = Delete
  BY DEF Message
<1> HIDE DEF m
<1>5. /\ \A q \in requests' : q \in requests \/ (q = m /\ Created(i))
      /\ \A q \in requests : q \in requests' \/ q = r
  BY <1>2
<1>6. r.from = i
  BY <1>2 DEF Waits
<1>7. /\ \A q : q # i => Own(q)' = Own(q) /\ Deletes(q)' = Deletes(q)
      /\ \A q \in Own(i)' : q \in Own(i)
      /\ \A q \in Deletes(i)' : q \in Deletes(i) \/ q = m
  BY <1>4, <1>5, <1>6, DeleteComes
<1>8. \A q \in Deletes(i)' : q \in Deletes(i) \/ (q = m /\ Created(i))
  BY <1>5, <1>6, <1>7 DEF Deletes
<1>9. CASE p # i
  <2>1. mode'[p] = mode[p]
    BY <1>3, <1>9 DEF Served, TypeOK
  <2> QED BY <1>3, <1>7, <1>9, <2>1, Bystander DEF server
<1>10. CASE p = i
  <2>1. PeerSound(p) /\ TransportsSound(p)
    BY DEF Served, Sound
  <2>2. /\ \A q \in Own(p)' : q \in Own(p)
        /\ \A q \in Deletes(p)' : q \in Deletes(p) \/ (q.at = "sent" /\ Created(p))
    BY <1>4, <1>7, <1>8, <1>10
  <2>3. mode'[p] = "ended" /\ done[p] \in Nat
    BY <1>1, <1>3, <1>10 DEF Served, TypeOK
  <2>4. /\ open' = open /\ done' = done /\ peer' = peer /\ held' = held
        /\ alive' = alive /\ forgotten' = forgotten
    BY <1>3 DEF server
  <2>5. InOrder(p)'
    BY <1>1, <1>10, <2>2, <2>3, <2>4 DEF InOrder, Over, Created
  <2>6. PeerSound(p)' /\ TransportsSound(p)'
    BY <2>1, <2>2, <2>4 DEF PeerSound, TransportsSound
  <2>7. SendsSound(p)' /\ ReceivesSound(p)' /\ ScriptSound(p)'
    BY <1>1, <1>10 DEF SendsSound, ReceivesSound, ScriptSound, Script
  <2> QED BY <2>5, <2>6, <2>7 DEF Sound
<1> QED BY <1>9, <1>10

\* A signal: close() of a Node program sends the DELETE, and the program goes on.
LEMMA NodeSignalledSound ==
  ASSUME Served, SourceKept, NEW i \in NodeProgram, NodeSignalled(i), NEW p \in Program
  PROVE  Sound(p)'
<1> DEFINE m == Message(i, Delete)
<1>1. i \in Program /\ i \notin Script /\ InOrder(i)
  BY ProgramsAssumption DEF Served, Sound, Program, Script
<1>2. UNCHANGED <<open, done, mode, player, server, forgotten>>
  BY DEF NodeSignalled
<1>3. m.from = i /\ m.at = "sent" /\ m.what = Delete
  BY DEF Message
<1> HIDE DEF m
<1>4. /\ \A q \in requests' : q \in requests \/ (q = m /\ Created(i))
      /\ \A q \in requests : q \in requests' \/ q = m
  BY DEF NodeSignalled, m
<1>5. /\ \A q : q # i => Own(q)' = Own(q) /\ Deletes(q)' = Deletes(q)
      /\ \A q \in Own(i)' : q \in Own(i)
      /\ \A q \in Deletes(i)' : q \in Deletes(i) \/ q = m
  BY <1>3, <1>4, DeleteComes
<1>6. \A q \in Deletes(i)' : q \in Deletes(i) \/ (q = m /\ Created(i))
  BY <1>4, <1>5 DEF Deletes
<1>8. CASE p # i
  BY <1>2, <1>5, <1>8, Bystander DEF server
<1>9. CASE p = i
  <2>1. PeerSound(p) /\ TransportsSound(p)
    BY DEF Served, Sound
  <2>2. /\ \A q \in Own(p)' : q \in Own(p)
        /\ \A q \in Deletes(p)' : q \in Deletes(p) \/ (q.at = "sent" /\ Created(p))
    BY <1>3, <1>5, <1>6, <1>9
  <2>3. /\ open' = open /\ done' = done /\ mode' = mode /\ peer' = peer /\ held' = held
        /\ alive' = alive /\ forgotten' = forgotten /\ done[p] \in Nat
    BY <1>2 DEF server, Served, TypeOK
  <2>4. InOrder(p)'
    BY <1>1, <1>9, <2>2, <2>3 DEF InOrder, Over, Created
  <2>5. PeerSound(p)' /\ TransportsSound(p)'
    BY <2>1, <2>2, <2>3 DEF PeerSound, TransportsSound
  <2>6. SendsSound(p)' /\ ReceivesSound(p)' /\ ScriptSound(p)'
    BY <1>1, <1>9 DEF SendsSound, ReceivesSound, ScriptSound, Script
  <2> QED BY <2>4, <2>5, <2>6 DEF Sound
<1> QED BY <1>8, <1>9

\* The answer of a DELETE is read, and may be the end of ffplay.
LEMMA DisconnectedSound ==
  ASSUME Served, SourceKept, NEW r \in requests, Disconnected(r), NEW p \in Program
  PROVE  Sound(p)'
<1>1. /\ r.what = Delete /\ r.at \in {"ok", "failed"} /\ requests' = requests \ {r}
      /\ player' = IF r.at = "ok" THEN player \ {r.from} ELSE player
      /\ UNCHANGED <<open, done, mode, server, forgotten>>
  BY DEF Disconnected
<1>2. r.from \in Program /\ r \in Deletes(r.from) /\ r \notin Own(r.from)
  BY <1>1, WhoseRequest DEF Own
<1>3. /\ \A q : q # r.from => Own(q)' = Own(q) /\ Deletes(q)' = Deletes(q)
      /\ Own(r.from)' = Own(r.from) /\ Deletes(r.from)' = Deletes(r.from) \ {r}
  <2>1. /\ \A q : q # r.from => Own(q)' = Own(q) /\ Deletes(q)' = Deletes(q)
        /\ Own(r.from)' = Own(r.from) \ {r} /\ Deletes(r.from)' = Deletes(r.from) \ {r}
    BY <1>1, OneRead
  <2> QED BY <1>2, <2>1
<1>4. CASE p # r.from
  <2>1. p \in player' <=> p \in player
    BY <1>1, <1>4
  <2> QED BY <1>1, <1>3, <1>4, <2>1, Bystander DEF server
<1>5. CASE p = r.from
  <2>1. /\ InOrder(p) /\ PeerSound(p) /\ TransportsSound(p) /\ SendsSound(p)
        /\ ReceivesSound(p) /\ ScriptSound(p)
    BY DEF Served, Sound
  <2>2. /\ open' = open /\ done' = done /\ mode' = mode /\ peer' = peer /\ held' = held
        /\ alive' = alive /\ observed' = observed /\ consumers' = consumers
        /\ forgotten' = forgotten /\ (p \in player' => p \in player)
    BY <1>1 DEF server
  <2>3. /\ Own(p)' = Own(p) /\ Deletes(p)' = Deletes(p) \ {r} /\ r \in Deletes(p)
        /\ \A what : Told(p, what)' <=> Told(p, what)
    BY <1>2, <1>3, <1>5 DEF Told
  <2>4. InOrder(p)'
    BY <2>1, <2>2, <2>3 DEF InOrder, Over
  <2>5. PeerSound(p)' /\ TransportsSound(p)' /\ SendsSound(p)'
    BY <2>1, <2>2, <2>3 DEF PeerSound, TransportsSound, SendsSound
  <2>6. ReceivesSound(p)'
    <3>1. \A kind \in Kind : Settled(kind) =>
            Settled(kind)' /\ (Offered(kind)' => Offered(kind))
      BY DEF SourceKept
    <3> QED BY <2>1, <2>2, <2>3, <3>1 DEF ReceivesSound
  <2>7. ScriptSound(p)'
    <3>1. SUFFICES ASSUME p \in Script PROVE ScriptSound(p)'
      BY DEF ScriptSound
    <3>2. mode[p] = "ended" /\ Deletes(p) = {r}
      BY <2>1, <2>3, <3>1 DEF ScriptSound
    <3>3. Deletes(p)' = {}
      BY <2>3, <3>2
    <3>4. open /\ p \in forgotten => p \notin player'
      <4>1. SUFFICES ASSUME open, p \in forgotten, p \in player' PROVE FALSE
        OBVIOUS
      <4>2. r.at = "ok"
        BY <2>1, <2>2, <3>1, <3>2, <4>1 DEF ScriptSound
      <4> QED BY <1>1, <1>5, <4>1, <4>2
    <3> QED BY <2>1, <2>2, <2>3, <3>1, <3>2, <3>3, <3>4 DEF ScriptSound
  <2> QED BY <2>4, <2>5, <2>6, <2>7 DEF Sound
<1> QED BY <1>4, <1>5

-----------------------------------------------------------------------------
(* What the steps do to the Source.                                        *)

\* A step of the server with a request: what is settled stays so, and if it is the
\* request of the Source, it is for nothing that is settled.
LEMMA SourceServed ==
  ASSUME Served, NEW r \in requests, NEW x \in {"worker", "ok", "failed"},
         r.at \in {"sent", "worker"}, r.what = Delete => x # "worker",
         \/ Answer(r, x)
         \/ r.what # Delete /\ requests' = (requests \ {r}) \cup {[r EXCEPT !.at = x]},
         UNCHANGED <<done, mode>>, NEW kind \in Kind, Settled(kind)
  PROVE  /\ Settled(kind)'
         /\ r.from = Source /\ r.what # Delete =>
              r.what.name # "createPlainTransport" /\ r.what # R("produce", kind)
<1>1. Source \in Program
  BY ProgramsAssumption DEF Program, Script
<1>2. CASE r.what # Delete /\ r.from = Source
  BY <1>2, WhoseRequest, SourceAnswered
<1>3. CASE r.what # Delete /\ r.from # Source
  <2>1. r.from \in Program /\ r \in Own(r.from)
    BY <1>3, WhoseRequest
  <2>2. Own(Source)' = Own(Source)
    BY <1>3, <2>1, OwnAnswered
  <2> QED BY <1>3, <2>2 DEF Settled
<1>4. CASE r.what = Delete
  <2>1. r.from \in Program /\ r \in Deletes(r.from)
    BY <1>4, WhoseRequest
  <2>2. x \in {"ok", "failed"} /\ Answer(r, x)
    BY <1>4
  <2>3. Own(Source)' = Own(Source)
    BY <2>1, <2>2, DeleteAnswered
  <2> QED BY <1>4, <2>3 DEF Settled
<1> QED BY <1>2, <1>3, <1>4

\* The same, for the steps that make nothing available.
LEMMA SourceKeptServed ==
  ASSUME Served, NEW r \in requests, NEW x \in {"worker", "ok", "failed"},
         r.at \in {"sent", "worker"}, r.what = Delete => x # "worker",
         \/ Answer(r, x)
         \/ r.what # Delete /\ requests' = (requests \ {r}) \cup {[r EXCEPT !.at = x]},
         UNCHANGED <<done, mode>>,
         observed'[Source] \subseteq observed[Source], alive'[Source] \subseteq alive[Source]
  PROVE  SourceKept
<1>1. ASSUME NEW kind \in Kind, Settled(kind) PROVE Settled(kind)'
  BY <1>1, SourceServed
<1>2. ASSUME NEW kind PROVE Offered(kind)' => Offered(kind)
  BY DEF Offered
<1> QED BY <1>1, <1>2 DEF SourceKept

\* The steps of the programs.
LEMMA SourceKeptByPrograms ==
  ASSUME Served,
         \/ \E p \in Program : Ask(p) \/ Succeed(p)
         \/ \E p \in Script : ScriptFails(p) \/ ScriptInterrupted(p)
         \/ \E p \in NodeProgram : NodeFails(p) \/ NodeSignalled(p)
         \/ \E r \in requests : Disconnected(r)
  PROVE  SourceKept
<1> DEFINE P == Source
<1>1. P \in Program /\ P \in Script /\ P \notin NodeProgram
  BY ProgramsAssumption DEF Program, Script
<1>2. InOrder(P) /\ done[P] \in Nat
  BY <1>1 DEF Served, Sound, TypeOK
<1>3. \A kind \in Kind : ProduceAt[kind] \in {6, 7}
  BY DEF ProduceAt, Kind
<1>4. CASE \E r \in requests : Disconnected(r)
  BY <1>4, SourceAlone DEF Disconnected, Own, server
<1>5. CASE \E p \in NodeProgram : NodeFails(p) \/ NodeSignalled(p)
  <2>1. PICK p \in NodeProgram : NodeFails(p) \/ NodeSignalled(p)
    BY <1>5
  <2>2. p # P /\ p \in Program
    BY <1>1 DEF Program
  <2>3. CASE NodeFails(p)
    <3>1. Own(P)' = Own(P)
      BY <2>2, <2>3 DEF NodeFails, Own, Waits, Message
    <3> QED BY <2>2, <2>3, <3>1, SourceAlone DEF NodeFails, server, Served, TypeOK
  <2>4. CASE NodeSignalled(p)
    <3>1. Own(P)' = Own(P)
      BY <2>2, <2>4 DEF NodeSignalled, Own, Message
    <3> QED BY <2>4, <3>1, SourceAlone DEF NodeSignalled, server
  <2> QED BY <2>1, <2>3, <2>4
<1>6. CASE \E p \in Script : ScriptFails(p) \/ ScriptInterrupted(p)
  <2>1. PICK p \in Script : ScriptFails(p) \/ ScriptInterrupted(p)
    BY <1>6
  <2>2. /\ \A q \in requests' : q \in requests \/ q = Message(p, Delete)
        /\ \A q \in requests : q \in requests' \/ q.from = p
        /\ mode' = [mode EXCEPT ![p] = "ended"]
        /\ UNCHANGED <<done, server>>
    <3>1. CASE ScriptFails(p)
      BY <3>1 DEF ScriptFails, Exit, Waits
    <3>2. CASE ScriptInterrupted(p)
      BY <3>2 DEF ScriptInterrupted, Exit, Waits
    <3> QED BY <2>1, <3>1, <3>2
  <2>3. \A q \in Own(P)' : q \in Own(P)
    BY <2>2 DEF Own, Message
  <2>4. p # P => Own(P)' = Own(P) /\ mode'[P] = mode[P]
    BY <1>1, <2>2, <2>3 DEF Own, Message, Served, TypeOK, Program
  <2>5. p = P => mode'[P] = "ended"
    BY <1>1, <2>2 DEF Served, TypeOK
  <2>6. /\ done' = done /\ observed' = observed /\ alive' = alive
    BY <2>2 DEF server
  <2>7. CASE p # P
    BY <2>4, <2>6, <2>7, SourceAlone
  <2>8. CASE p = P
    BY <2>3, <2>5, <2>6, <2>8 DEF SourceKept, Settled, Offered
  <2> QED BY <2>7, <2>8
<1>7. CASE \E p \in Program : Ask(p)
  <2>1. PICK p \in Program : Ask(p)
    BY <1>7
  <2>2. /\ mode[p] = "next" /\ mode' = [mode EXCEPT ![p] = "waiting"]
        /\ requests' = requests \cup {Message(p, Plan(p)[done[p] + 1])}
        /\ done' = done /\ observed' = observed /\ alive' = alive
    BY <2>1 DEF Ask, server
  <2>3. CASE p # P
    <3>1. Own(P)' = Own(P)
      BY <2>2, <2>3 DEF Own, Message
    <3>2. mode'[P] = mode[P]
      BY <1>1, <2>2, <2>3 DEF Served, TypeOK
    <3> QED BY <2>2, <3>1, <3>2, SourceAlone
  <2>4. CASE p = P
    <3>1. \A kind : Settled(kind) => done[P] >= ProduceAt[kind]
      BY <2>2, <2>4 DEF Settled
    <3> QED BY <2>2, <3>1 DEF SourceKept, Settled, Offered
  <2> QED BY <2>3, <2>4
<1>8. CASE \E p \in Program : Succeed(p)
  <2>1. PICK p \in Program : Succeed(p)
    BY <1>8
  <2>2. /\ done' = [done EXCEPT ![p] = @ + 1] /\ mode' = [mode EXCEPT ![p] = "next"]
        /\ observed' = observed /\ alive' = alive
        /\ \E r \in requests : r.from = p /\ requests' = requests \ {r}
    BY <2>1 DEF Succeed, server, Waits
  <2>3. CASE p # P
    <3>1. Own(P)' = Own(P)
      BY <2>2, <2>3 DEF Own
    <3>2. mode'[P] = mode[P] /\ done'[P] = done[P]
      BY <1>1, <2>2, <2>3 DEF Served, TypeOK
    <3> QED BY <2>2, <3>1, <3>2, SourceAlone
  <2>4. CASE p = P
    <3>1. done'[P] = done[P] + 1
      BY <1>1, <2>2, <2>4 DEF Served, TypeOK
    <3>2. ASSUME NEW kind \in Kind, Settled(kind) PROVE Settled(kind)'
      <4>1. done'[P] >= ProduceAt[kind]
        BY <1>2, <1>3, <3>1, <3>2 DEF Settled
      <4> QED BY <4>1 DEF Settled
    <3> QED BY <2>2, <3>2 DEF SourceKept, Offered
  <2> QED BY <2>3, <2>4
<1> QED BY <1>4, <1>5, <1>6, <1>7, <1>8

\* The steps of the server with a request.
Handled(r) ==
  \/ Refuse(r) \/ GetRouterRtpCapabilities(r) \/ CreateBroadcasterPeer(r) \/ Join(r)
  \/ AskWorker(r) \/ Disconnect(r) \/ WorkerRefuses(r) \/ TransportCreated(r)
  \/ WorkerDid(r) \/ ProducerCreated(r) \/ ConsumerCreated(r)

\* A handler ends with an answer, or with the Worker being asked.
LEMMA HandledAnswers ==
  ASSUME Served, NEW r \in requests, Handled(r)
  PROVE  /\ r.at \in {"sent", "worker"} /\ UNCHANGED <<done, mode>>
         /\ \E x \in {"worker", "ok", "failed"} :
              /\ r.what = Delete => x # "worker"
              /\ \/ Answer(r, x)
                 \/ r.what # Delete /\ requests' = (requests \ {r}) \cup {[r EXCEPT !.at = x]}
<1>1. CASE Refuse(r)
  BY <1>1 DEF Refuse, programs
<1>2. CASE GetRouterRtpCapabilities(r)
  BY <1>2 DEF GetRouterRtpCapabilities, Received, programs
<1>3. CASE CreateBroadcasterPeer(r)
  BY <1>3 DEF CreateBroadcasterPeer, Received, programs
<1>4. CASE Join(r)
  BY <1>4 DEF Join, Received, programs
<1>5. CASE AskWorker(r)
  <2>1. r.what # Delete /\ r.at = "sent"
    BY <1>5, WhoseRequest DEF AskWorker, Received, ForWorker
  <2> QED BY <1>5, <2>1 DEF AskWorker, programs
<1>6. CASE Disconnect(r)
  BY <1>6 DEF Disconnect, Received, programs
<1>7. CASE WorkerRefuses(r)
  BY <1>7 DEF WorkerRefuses, programs
<1>8. CASE TransportCreated(r)
  BY <1>8 DEF TransportCreated, Asked, programs
<1>9. CASE WorkerDid(r)
  BY <1>9 DEF WorkerDid, Asked, programs
<1>10. CASE ProducerCreated(r)
  BY <1>10 DEF ProducerCreated, Asked, programs
<1>11. CASE ConsumerCreated(r)
  BY <1>11 DEF ConsumerCreated, Asked, programs
<1> QED BY <1>1, <1>2, <1>3, <1>4, <1>5, <1>6, <1>7, <1>8, <1>9, <1>10, <1>11 DEF Handled

LEMMA SourceKeptByServer ==
  ASSUME Served, NEW r \in requests, Handled(r)
  PROVE  SourceKept
<1>1. PICK x \in {"worker", "ok", "failed"} :
        /\ r.what = Delete => x # "worker"
        /\ \/ Answer(r, x)
           \/ r.what # Delete /\ requests' = (requests \ {r}) \cup {[r EXCEPT !.at = x]}
  BY HandledAnswers
<1>2. r.at \in {"sent", "worker"} /\ UNCHANGED <<done, mode>>
  BY HandledAnswers
<1>3. Source \in Program /\ r.from \in Program
  BY WhoseRequest, ProgramsAssumption DEF Program, Script
<1>4. CASE TransportCreated(r)
  <2>1. /\ alive' = [alive EXCEPT ![r.from] = @ \cup {r.what.kind}] /\ observed' = observed
        /\ r.what.name = "createPlainTransport"
    BY <1>4 DEF TransportCreated, Asked
  <2>2. r.what # Delete
    BY <2>1, WhoseRequest
  <2>3. ASSUME NEW kind \in Kind, Settled(kind)
        PROVE  Settled(kind)' /\ (Offered(kind)' => Offered(kind))
    <3>1. Settled(kind)' /\ r.from # Source
      BY <1>1, <1>2, <2>1, <2>2, <2>3, SourceServed
    <3>2. alive'[Source] = alive[Source]
      BY <1>3, <2>1, <3>1 DEF Served, TypeOK
    <3> QED BY <2>1, <3>1, <3>2 DEF Offered
  <2> QED BY <2>3 DEF SourceKept
<1>5. CASE ProducerCreated(r)
  <2>1. /\ observed' = [observed EXCEPT ![r.from] = @ \cup {r.what.kind}] /\ alive' = alive
        /\ r.what.name = "produce"
    BY <1>5 DEF ProducerCreated, Asked
  <2>2. r.what # Delete /\ r.what \in What
    <3>1. r.what # Delete /\ r \in Own(r.from)
      BY <2>1, WhoseRequest
    <3> QED BY <1>3, <3>1, OwnRequest
  <2>3. r.what = R("produce", r.what.kind)
    BY <2>1, <2>2 DEF What, About, R
  <2>4. ASSUME NEW kind \in Kind, Settled(kind)
        PROVE  Settled(kind)' /\ (Offered(kind)' => Offered(kind))
    <3>1. Settled(kind)' /\ (r.from = Source => r.what # R("produce", kind))
      BY <1>1, <1>2, <2>2, <2>4, SourceServed
    <3>2. kind \in observed'[Source] => kind \in observed[Source]
      BY <1>3, <2>1, <2>3, <3>1 DEF Served, TypeOK
    <3> QED BY <2>1, <3>1, <3>2 DEF Offered
  <2> QED BY <2>4 DEF SourceKept
<1>6. CASE Disconnect(r)
  <2>1. /\ alive' = [alive EXCEPT ![r.from] = @ \ held[r.from]]
        /\ observed' = [observed EXCEPT ![r.from] = @ \ held[r.from]]
    BY <1>6 DEF Disconnect, CloseBroadcasterPeer, Closed
  <2>2. observed'[Source] \subseteq observed[Source] /\ alive'[Source] \subseteq alive[Source]
    BY <1>3, <2>1 DEF Served, TypeOK
  <2> QED BY <1>1, <1>2, <2>2, SourceKeptServed
<1>7. CASE ~(TransportCreated(r) \/ ProducerCreated(r) \/ Disconnect(r))
  <2>1. observed' = observed /\ alive' = alive
    BY <1>7 DEF Handled, Refuse, GetRouterRtpCapabilities, CreateBroadcasterPeer, Join, AskWorker,
                WorkerRefuses, WorkerDid, ConsumerCreated, server
  <2> QED BY <1>1, <1>2, <2>1, SourceKeptServed
<1> QED BY <1>4, <1>5, <1>6, <1>7

LEMMA SourceKeptByStep ==
  ASSUME Served, Next
  PROVE  SourceKept
<1>1. CASE CloseRoom
  <2>1. Source \in Program
    BY ProgramsAssumption DEF Program, Script
  <2>2. /\ UNCHANGED <<done, mode, requests>> /\ alive'[Source] = {}
        /\ observed'[Source] \subseteq observed[Source]
    BY <1>1, <2>1 DEF CloseRoom, programs
  <2> QED BY <2>2, SourceAlone DEF Own
<1>2. CASE \E r \in requests : Handled(r)
  BY <1>2, SourceKeptByServer
<1> QED BY <1>1, <1>2, SourceKeptByPrograms DEF Next, Handled

-----------------------------------------------------------------------------
(* The steps.                                                              *)

LEMMA SoundStep ==
  ASSUME Served, Next, NEW p \in Program
  PROVE  Sound(p)'
<1>1. SourceKept
  BY SourceKeptByStep
<1>2. CASE \E i \in Program : Ask(i) \/ Succeed(i)
  BY <1>1, <1>2, AskSound, SucceedSound
<1>3. CASE \E i \in Script : ScriptFails(i) \/ ScriptInterrupted(i)
  BY <1>1, <1>3, ExitSound
<1>4. CASE \E i \in NodeProgram : NodeFails(i) \/ NodeSignalled(i)
  BY <1>1, <1>4, NodeFailsSound, NodeSignalledSound
<1>5. CASE \E r \in requests : Disconnected(r) \/ Refuse(r) \/ Disconnect(r)
  BY <1>1, <1>5, DisconnectedSound, RefuseSound, DisconnectSound
<1>6. CASE \E r \in requests :
             GetRouterRtpCapabilities(r) \/ AskWorker(r) \/ WorkerRefuses(r) \/ WorkerDid(r)
  BY <1>1, <1>6, IdleSound
<1>7. CASE \E r \in requests : CreateBroadcasterPeer(r) \/ Join(r)
  BY <1>1, <1>7, CreateBroadcasterPeerSound, JoinSound
<1>8. CASE \E r \in requests : TransportCreated(r) \/ ProducerCreated(r) \/ ConsumerCreated(r)
  BY <1>1, <1>8, TransportCreatedSound, ProducerCreatedSound, ConsumerCreatedSound
<1>9. CASE CloseRoom
  BY <1>1, <1>9, CloseRoomSound
<1> QED BY <1>2, <1>3, <1>4, <1>5, <1>6, <1>7, <1>8, <1>9 DEF Next

\* What the Room observes of the Source is settled.
LEMMA ObservedSettled ==
  ASSUME Served, Next
  PROVE  (\A kind \in observed[Source] : Settled(kind))'
<1>1. Source \in Program /\ Source \in Sender
  BY ProgramsAssumption DEF Program, Script
<1>2. SUFFICES ASSUME NEW kind \in observed'[Source], kind \notin observed[Source]
               PROVE  Settled(kind)'
  <2>1. \A kind \in observed[Source] : kind \in Kind /\ Settled(kind)
    BY <1>1 DEF Served, TypeOK
  <2> QED BY <1>2, <2>1, SourceKeptByStep DEF SourceKept
<1>3. PICK r \in requests : ProducerCreated(r)
  <2>1. CASE CloseRoom
    BY <1>1, <1>2, <2>1 DEF CloseRoom
  <2>2. CASE \E r \in requests : Disconnect(r)
    BY <1>1, <1>2, <2>2 DEF Disconnect, CloseBroadcasterPeer, Closed, Served, TypeOK
  <2>3. ASSUME ~CloseRoom, ~\E r \in requests : Disconnect(r),
               ~\E r \in requests : ProducerCreated(r)
        PROVE  observed' = observed
    BY <2>3 DEF Next, Ask, Succeed, ScriptFails, ScriptInterrupted, NodeFails, NodeSignalled,
                Disconnected, Refuse, GetRouterRtpCapabilities, CreateBroadcasterPeer, Join,
                AskWorker, WorkerRefuses, TransportCreated, WorkerDid, ConsumerCreated, server
  <2> QED BY <1>2, <2>1, <2>2, <2>3
<1>4. /\ Answer(r, "ok") /\ r.at = "worker" /\ r.what.name = "produce"
      /\ observed' = [observed EXCEPT ![r.from] = @ \cup {r.what.kind}]
      /\ UNCHANGED <<done, mode, forgotten>>
  BY <1>3 DEF ProducerCreated, Asked, programs
<1>5. r.what # Delete /\ r.from = Source /\ kind = r.what.kind
  BY <1>1, <1>2, <1>4, WhoseRequest DEF Served, TypeOK
<1>6. /\ done[Source] + 1 \in 1 .. Len(Plan(Source)) /\ done[Source] \in Nat
      /\ mode[Source] # "next" /\ r.what = Plan(Source)[done[Source] + 1]
      /\ \A q \in Own(Source)' : q.at = "ok"
  BY <1>3, <1>4, <1>5, SourceKeptByStep, Asker
<1>7. done[Source] + 1 = ProduceAt[kind]
  BY <1>1, <1>4, <1>5, <1>6, PlanOf
<1> QED BY <1>4, <1>6, <1>7 DEF Settled

\* The requests of the programs are requests.
LEMMA RequestsStep ==
  ASSUME Served, Next
  PROVE  requests' \subseteq Request
<1>1. requests \subseteq Request /\ Script \subseteq Program /\ NodeProgram \subseteq Program
  BY DEF Served, TypeOK, Program
<1>2. \A p \in Program : Message(p, Delete) \in Request
  BY DEF Message, Request
<1>3. CASE \E r \in requests : Handled(r)
  <2>1. PICK r \in requests : Handled(r)
    BY <1>3
  <2>2. PICK x \in {"worker", "ok", "failed"} :
          /\ r.what = Delete => x # "worker"
          /\ \/ Answer(r, x)
             \/ r.what # Delete /\ requests' = (requests \ {r}) \cup {[r EXCEPT !.at = x]}
    BY <2>1, HandledAnswers
  <2>3. CASE r.what = Delete
    <3>1. r.from \in Program /\ r \in Deletes(r.from)
      BY <2>3, WhoseRequest
    <3>2. x \in {"ok", "failed"} /\ Answer(r, x)
      BY <2>2, <2>3
    <3> QED BY <3>1, <3>2, DeleteAnswered
  <2>4. CASE r.what # Delete
    BY <2>2, <2>4, WhoseRequest, OwnAnswered
  <2> QED BY <2>3, <2>4
<1>4. CASE \E p \in Program : Ask(p)
  <2>1. PICK p \in Program : Ask(p)
    BY <1>4
  <2>2. ~Over(p) /\ requests' = requests \cup {Message(p, Plan(p)[done[p] + 1])}
    BY <2>1 DEF Ask
  <2>3. done[p] + 1 \in 1 .. Len(Plan(p))
    <3>1. done[p] \in Nat /\ InOrder(p) /\ Len(Plan(p)) \in 4 .. 10
      BY PlanOf DEF Served, Sound, TypeOK
    <3> QED BY <2>2, <3>1 DEF InOrder, Over
  <2>4. Plan(p)[done[p] + 1] \in ToSet(SenderPlan \o ReceiverPlan)
    BY <2>3, PlanOf
  <2>5. Message(p, Plan(p)[done[p] + 1]) \in Request
    BY <2>4 DEF Message, Request
  <2> QED BY <1>1, <2>2, <2>5
<1>5. CASE \E p \in Program : Succeed(p)
  BY <1>1, <1>5 DEF Succeed
<1>6. CASE \E p \in Script : ScriptFails(p) \/ ScriptInterrupted(p)
  BY <1>1, <1>2, <1>6 DEF ScriptFails, ScriptInterrupted, Exit
<1>7. CASE \E p \in NodeProgram : NodeFails(p) \/ NodeSignalled(p)
  BY <1>1, <1>2, <1>7 DEF NodeFails, NodeSignalled
<1>8. CASE CloseRoom \/ \E r \in requests : Disconnected(r)
  BY <1>1, <1>8 DEF CloseRoom, Disconnected
<1> QED BY <1>3, <1>4, <1>5, <1>6, <1>7, <1>8 DEF Next, Handled

LEMMA ProgramsTyped ==
  ASSUME Served, Next
  PROVE  /\ done' \in [Program -> 0 .. Len(ReceiverPlan)]
         /\ mode' \in [Program -> {"next", "waiting", "ended"}]
         /\ early' \subseteq NodeProgram /\ closing' \subseteq NodeProgram
         /\ player' \subseteq Receiver
<1>1. /\ done \in [Program -> 0 .. 10] /\ mode \in [Program -> {"next", "waiting", "ended"}]
      /\ early \subseteq NodeProgram /\ closing \subseteq NodeProgram /\ player \subseteq Receiver
      /\ Len(ReceiverPlan) = 10
  BY ReceiverSteps DEF Served, TypeOK
<1>2. CASE \E p \in Program : Ask(p)
  BY <1>1, <1>2 DEF Ask
<1>3. CASE \E p \in Program : Succeed(p)
  <2>1. PICK p \in Program : Succeed(p)
    BY <1>3
  <2>2. done[p] + 1 \in 0 .. 10
    <3>1. InOrder(p) /\ mode[p] = "waiting" /\ done[p] \in Nat /\ Len(Plan(p)) \in 4 .. 10
      BY <2>1, PlanOf DEF Served, Sound, TypeOK, Succeed, Waits
    <3>2. done[p] <= Len(Plan(p)) /\ done[p] # Len(Plan(p))
      BY <3>1 DEF InOrder, Over
    <3>3. \A n \in Nat : \A m \in 4 .. 10 : n <= m /\ n # m => n + 1 \in 0 .. 10
      OBVIOUS
    <3> QED BY <3>1, <3>2, <3>3
  <2>3. done' \in [Program -> 0 .. 10] /\ mode' \in [Program -> {"next", "waiting", "ended"}]
    BY <1>1, <2>1, <2>2 DEF Succeed
  <2> QED BY <1>1, <2>1, <2>3 DEF Succeed
<1>4. CASE \E p \in Script : ScriptFails(p) \/ ScriptInterrupted(p)
  BY <1>1, <1>4 DEF ScriptFails, ScriptInterrupted, Exit
<1>5. CASE \E p \in NodeProgram : NodeFails(p) \/ NodeSignalled(p)
  BY <1>1, <1>5 DEF NodeFails, NodeSignalled
<1>6. CASE \E r \in requests : Disconnected(r)
  BY <1>1, <1>6 DEF Disconnected
<1>7. CASE CloseRoom \/ \E r \in requests : Handled(r)
  <2>1. UNCHANGED programs
    BY <1>7 DEF CloseRoom, Handled, Refuse, GetRouterRtpCapabilities, CreateBroadcasterPeer, Join,
                AskWorker, Disconnect, WorkerRefuses, TransportCreated, WorkerDid,
                ProducerCreated, ConsumerCreated
  <2> QED BY <1>1, <2>1 DEF programs
<1> QED BY <1>2, <1>3, <1>4, <1>5, <1>6, <1>7 DEF Next, Handled

LEMMA ServerTyped ==
  ASSUME Served, Next
  PROVE  /\ open' \in BOOLEAN
         /\ peer' \in [Program -> {"none", "joining", "joined", "closed"}]
         /\ held' \in [Program -> SUBSET Kind] /\ alive' \in [Program -> SUBSET Kind]
         /\ observed' \in [Program -> SUBSET Kind] /\ consumers' \in [Program -> SUBSET Kind]
         /\ forgotten' \subseteq Program
<1>1. /\ open \in BOOLEAN /\ peer \in [Program -> {"none", "joining", "joined", "closed"}]
      /\ held \in [Program -> SUBSET Kind] /\ alive \in [Program -> SUBSET Kind]
      /\ observed \in [Program -> SUBSET Kind] /\ consumers \in [Program -> SUBSET Kind]
      /\ forgotten \subseteq Program
  BY DEF Served, TypeOK
<1>2. \A r \in requests : /\ r.from \in Program
                          /\ r.what.name \in {"createPlainTransport", "produce", "consume"}
                               => r.what.kind \in Kind
  <2>1. ASSUME NEW r \in requests,
               r.what.name \in {"createPlainTransport", "produce", "consume"}
        PROVE  r.what.kind \in Kind
    <3>1. r.what # Delete
      BY <2>1 DEF Delete, About, R
    <3> QED BY <2>1, <3>1, WhoseRequest
  <2> QED BY <2>1, WhoseRequest
<1>3. CASE \E r \in requests : TransportCreated(r) \/ ProducerCreated(r) \/ ConsumerCreated(r)
  <2>1. PICK r \in requests : TransportCreated(r) \/ ProducerCreated(r) \/ ConsumerCreated(r)
    BY <1>3
  <2>2. CASE TransportCreated(r)
    BY <1>1, <1>2, <2>2 DEF TransportCreated, Asked
  <2>3. CASE ProducerCreated(r)
    BY <1>1, <1>2, <2>3 DEF ProducerCreated, Asked
  <2>4. CASE ConsumerCreated(r)
    BY <1>1, <1>2, <2>4 DEF ConsumerCreated, Asked
  <2> QED BY <2>1, <2>2, <2>3, <2>4
<1>4. CASE \E r \in requests : CreateBroadcasterPeer(r) \/ Join(r)
  BY <1>1, <1>4 DEF CreateBroadcasterPeer, Join
<1>5. CASE \E r \in requests : Disconnect(r)
  BY <1>1, <1>2, <1>5 DEF Disconnect, CloseBroadcasterPeer, Closed
<1>6. CASE CloseRoom
  BY <1>1, <1>6 DEF CloseRoom
<1>7. CASE \E r \in requests : Refuse(r)
  BY <1>1, <1>2, <1>7 DEF Refuse, server
<1>8. ASSUME ~CloseRoom, ~\E r \in requests : Refuse(r),
             ~\E r \in requests : TransportCreated(r) \/ ProducerCreated(r) \/ ConsumerCreated(r),
             ~\E r \in requests : CreateBroadcasterPeer(r) \/ Join(r) \/ Disconnect(r)
      PROVE  UNCHANGED <<open, server, forgotten>>
  BY <1>8 DEF Next, Ask, Succeed, ScriptFails, ScriptInterrupted, NodeFails, NodeSignalled,
              Disconnected, GetRouterRtpCapabilities, AskWorker, WorkerRefuses, WorkerDid
<1> QED BY <1>1, <1>3, <1>4, <1>5, <1>6, <1>7, <1>8 DEF server

-----------------------------------------------------------------------------
(* The theorems.                                                           *)

LEMMA InitServed ==
  ASSUME Init
  PROVE  Served
<1>1. TypeOK
  BY ReceiverSteps DEF Init, TypeOK
<1>2. \A p : Own(p) = {} /\ Deletes(p) = {}
  BY DEF Init, Own, Deletes
<1>3. ASSUME NEW p \in Program PROVE Sound(p)
  <2>1. Len(Plan(p)) \in 4 .. 10 /\ done[p] = 0 /\ mode[p] = "next" /\ peer[p] = "none"
        /\ alive[p] = held[p] /\ forgotten = {} /\ player = {} /\ open
    BY PlanOf DEF Init
  <2>2. InOrder(p) /\ PeerSound(p) /\ TransportsSound(p)
    BY <1>2, <2>1 DEF InOrder, PeerSound, TransportsSound
  <2>3. SendsSound(p) /\ ReceivesSound(p)
    BY <1>2, <2>1 DEF SendsSound, ReceivesSound
  <2>4. ScriptSound(p)
    BY <1>2, <2>1 DEF ScriptSound, Told
  <2> QED BY <2>2, <2>3, <2>4 DEF Sound
<1>4. observed[Source] = {}
  BY ProgramsAssumption DEF Init, Program, Script
<1> QED BY <1>1, <1>3, <1>4 DEF Served

LEMMA NextServed ==
  ASSUME Served, [Next]_vars
  PROVE  Served'
<1>1. CASE Next
  <2>1. TypeOK'
    BY <1>1, RequestsStep, ProgramsTyped, ServerTyped DEF TypeOK
  <2>2. ASSUME NEW p \in Program PROVE Sound(p)'
    BY <1>1, SoundStep
  <2>3. (\A kind \in observed[Source] : Settled(kind))'
    BY <1>1, ObservedSettled
  <2> QED BY <2>1, <2>2, <2>3 DEF Served
<1>2. CASE UNCHANGED vars
  <2>1. UNCHANGED <<open, done, mode, early, closing, player, requests, peer, held, alive,
                    observed, consumers, forgotten>>
    BY <1>2 DEF vars, programs, server
  <2>2. TypeOK'
    BY <2>1 DEF Served, TypeOK
  <2>3. \A p : Own(p)' = Own(p) /\ Deletes(p)' = Deletes(p)
    BY <2>1 DEF Own, Deletes
  <2>4. SourceKept
    BY <2>1, <2>3, SourceAlone
  <2>5. \A p \in Program : Sound(p)'
    BY <2>1, <2>3, <2>4, Bystander
  <2>6. (\A kind \in observed[Source] : Settled(kind))'
    BY <2>1, <2>3 DEF Served, Settled
  <2> QED BY <2>2, <2>5, <2>6 DEF Served
<1> QED BY <1>1, <1>2

\* Each program has one request of its plan under way at most, and what it was told
\* of, the server has, while its BroadcasterPeer is there (the handlers of ApiServer.ts
\* and Room.ts, with the order of the requests in the scripts).
THEOREM ServedInvariant == Spec => []Served
<1>1. Init => Served
  BY InitServed
<1>2. Served /\ [Next]_vars => Served'
  BY NextServed
<1> QED BY <1>1, <1>2, PTL DEF Spec

\* The state is what TypeOK says of it.
THEOREM TypeCorrect == Spec => []TypeOK
<1>1. Served => TypeOK
  BY DEF Served
<1> QED BY <1>1, ServedInvariant, PTL

\* A DELETE that was answered is the last word of its program: a BroadcasterPeer that
\* it closed, or did not find, is not made again (the trap of the scripts, and close()
\* of broadcaster/, come after the answer of the POST).
THEOREM ForgottenStayForgotten == Spec => []ForgottenForGood
<1>1. Served => ForgottenForGood
  BY DEF Served, Sound, TypeOK, PeerSound, ForgottenForGood
<1> QED BY <1>1, ServedInvariant, PTL

\* close() of a BroadcasterPeer finds all of its transports but one, the one that was
\* being created (BroadcasterPeer.createPlainTransport() does not look whether the
\* BroadcasterPeer closed meanwhile).
THEOREM OneTransportLeaks == Spec => []LeaksAtMostOne
<1>1. ASSUME Served PROVE LeaksAtMostOne
  <2>1. ASSUME NEW p \in Program, peer[p] = "closed" PROVE Cardinality(alive[p]) <= 1
    <3>1. alive[p] = {} \/ \E kind \in Kind : alive[p] = {kind}
      BY <1>1, <2>1 DEF Served, Sound, TransportsSound
    <3>2. CASE alive[p] = {}
      BY <3>2, FS_EmptySet
    <3>3. CASE \E kind \in Kind : alive[p] = {kind}
      <4>1. PICK kind \in Kind : alive[p] = {kind}
        BY <3>3
      <4>2. Cardinality({kind}) = 1
        BY FS_Singleton
      <4> QED BY <4>1, <4>2
    <3> QED BY <3>1, <3>2, <3>3
  <2>2. \A p \in Program : peer[p] # "closed" => alive[p] = held[p]
    BY <1>1 DEF Served, Sound, TransportsSound
  <2> QED BY <2>1, <2>2 DEF LeaksAtMostOne
<1> QED BY <1>1, ServedInvariant, PTL

\* While ffmpeg or ffplay of a script runs, its Producers, or its Consumers of the
\* Producers that are left, are there (set -e of the scripts, and the checks of the
\* handlers 'produce' and 'consume' of BroadcasterPeer).
THEOREM MediaStaysServed == Spec => []MediaIsServed
<1>1. ASSUME Served PROVE MediaIsServed
  <2>1. ASSUME NEW p \in Sender, Over(p), mode[p] = "next", peer[p] = "joined"
        PROVE  observed[p] = Kind
    <3>1. p \in Program /\ SendsSound(p) /\ observed[p] \subseteq Kind
      BY <1>1 DEF Served, Sound, TypeOK, Program, Script
    <3>2. done[p] = 7
      BY <2>1, <3>1, PlanOf DEF Over
    <3>3. \A kind \in Kind : kind \in observed[p]
      BY <2>1, <3>1, <3>2 DEF SendsSound, ProduceAt, Kind
    <3> QED BY <3>1, <3>3
  <2>2. ASSUME NEW p \in Receiver, p \in player, mode[p] # "ended", peer[p] = "joined"
        PROVE  observed[Source] \cap alive[Source] \subseteq consumers[p]
    <3>1. p \in Program /\ Source \in Program /\ ReceivesSound(p) /\ done[p] >= 9
      BY <1>1, <2>2, ProgramsAssumption DEF Served, Sound, Program, Script, ReceivesSound
    <3>2. done[p] \in Nat /\ observed[Source] \subseteq Kind
      BY <1>1, <3>1 DEF Served, TypeOK
    <3>3. \A kind \in Kind : done[p] >= ConsumeAt[kind]
      BY <3>1, <3>2 DEF ConsumeAt, Kind
    <3> QED BY <2>2, <3>1, <3>2, <3>3 DEF ReceivesSound, Offered
  <2> QED BY <2>1, <2>2 DEF MediaIsServed
<1> QED BY <1>1, ServedInvariant, PTL

\* ffplay is killed with its BroadcasterPeer, unless the DELETE failed: the trap of
\* ffmpeg-receiver.sh that finds the BroadcasterPeer kills it next.
THEOREM NoPlayerForgotten == Spec => []PlayerIsKilled
<1>1. ASSUME Served PROVE PlayerIsKilled
  <2>1. SUFFICES ASSUME NEW p \in player, p \in forgotten, open
                 PROVE  \E r \in requests : r.from = p /\ r.what = Delete
    BY DEF PlayerIsKilled
  <2>2. p \in Program /\ p \in Script /\ ScriptSound(p)
    BY <1>1 DEF Served, Sound, TypeOK, Program, Script
  <2>3. PICK r \in Deletes(p) : r.at = "ok"
    BY <2>1, <2>2 DEF ScriptSound
  <2> QED BY <2>3 DEF Deletes
<1> QED BY <1>1, ServedInvariant, PTL

-----------------------------------------------------------------------------
(***************************************************************************)
(* The run of one Node program (Broadcaster), whatever the server answers: *)
(* its own variables, next to those of BroadcasterApi.  Some of them are   *)
(* those of BroadcasterEnd.                                                *)
(***************************************************************************)
CONSTANT MaxSignals

VARIABLES sends, succeeded, at, started, forced, deleting, client, signals

Run == INSTANCE Broadcaster WITH done <- succeeded

\* A request is made while some are left, the media file is sent after the four of
\* its Transports and Producers, and a run that is over has asked for its termination.
RunInOrder ==
  /\ at \in {"asking", "waiting"} => succeeded < Len(Run!Requests)
  /\ at = "sending" => sends /\ succeeded = 7
  /\ at = "over" => started

\* close() runs on a BroadcasterPeer that the server made, so that no request of the
\* run can make it again: it stays only if the DELETE fails.  A termination calls it,
\* unless it began before create() had returned.
ClosedForGood ==
  /\ closed => started /\ succeeded >= 3
  /\ closed /\ present => lost \/ deleting
  /\ started => closed \/ missed

\* A subprocess that nobody aborts is awaited by sendMediaFile().
RunEnds ==
  /\ media \in {"running", "orphan"} => at = "sending"
  /\ exited => at = "over" /\ Run!Settled

RunInvariant == Run!TypeOK /\ RunInOrder /\ ClosedForGood /\ RunEnds

\* The run asks for ten requests when it sends a media file, and for six when not.
LEMMA RunRequests ==
  ASSUME sends \in BOOLEAN
  PROVE  /\ Len(Run!Creating) = 3 /\ Len(Run!Creating \o Run!Producing) = 7
         /\ (sends => Len(Run!Requests) = 10) /\ (~sends => Len(Run!Requests) = 6)
BY DEF Run!Requests, Run!Creating, Run!Producing, Run!Consuming

\* The second of them makes the BroadcasterPeer, and no later one.
LEMMA MadeOnce ==
  ASSUME sends \in BOOLEAN, succeeded \in 0 .. Len(Run!Requests) - 1, succeeded >= 3
  PROVE  Run!Asked # "createBroadcasterPeer"
<1> USE DEF Run!Creating, Run!Producing, Run!Consuming
<1>1. \A i \in 1 .. 3 : Run!Consuming[i] # "createBroadcasterPeer"
  OBVIOUS
<1>2. CASE sends
  <2>1. succeeded \in 3 .. 9 /\ Run!Requests = Run!Creating \o Run!Producing \o Run!Consuming
    BY <1>2, RunRequests DEF Run!Requests
  <2>2. \A i \in 1 .. 4 : Run!Producing[i] # "createBroadcasterPeer"
    OBVIOUS
  <2>3. CASE succeeded + 1 \in 4 .. 7
    <3>1. Run!Asked = Run!Producing[succeeded + 1 - 3]
      BY <2>1, <2>3 DEF Run!Asked
    <3> QED
      BY <2>2, <2>3, <3>1
  <2>4. CASE succeeded + 1 \in 8 .. 10
    <3>1. Run!Asked = Run!Consuming[succeeded + 1 - 7]
      BY <2>1, <2>4 DEF Run!Asked
    <3> QED
      BY <1>1, <2>4, <3>1
  <2> QED
    BY <2>1, <2>3, <2>4
<1>3. CASE ~sends
  <2>1. succeeded \in 3 .. 5 /\ Run!Requests = Run!Creating \o <<>> \o Run!Consuming
    BY <1>3, RunRequests DEF Run!Requests
  <2>2. Run!Asked = Run!Consuming[succeeded + 1 - 3]
    BY <2>1 DEF Run!Asked
  <2> QED
    BY <1>1, <2>1, <2>2
<1> QED
  BY <1>2, <1>3

LEMMA RunStarts ==
  ASSUME Run!SignalsAssumption, Run!Init
  PROVE  RunInvariant
<1>1. sends \in BOOLEAN
  BY DEF Run!Init
<1>2. Len(Run!Requests) \in {6, 10}
  BY <1>1, RunRequests
<1>3. Run!TypeOK
  <2>1. succeeded \in 0 .. Len(Run!Requests)
    BY <1>2 DEF Run!Init
  <2>2. signals \in 0 .. MaxSignals
    BY DEF Run!Init, Run!SignalsAssumption
  <2> QED
    BY <2>1, <2>2 DEF Run!Init, Run!TypeOK
<1>4. RunInOrder
  <2>1. succeeded = 0 /\ at = "asking"
    BY DEF Run!Init
  <2>2. PICK n \in Nat : n = Len(Run!Requests) /\ n \in {6, 10}
    BY <1>2
  <2>3. succeeded < n
    BY <2>1, <2>2
  <2> QED
    BY <2>1, <2>2, <2>3 DEF RunInOrder
<1>5. ClosedForGood /\ RunEnds
  BY DEF Run!Init, ClosedForGood, RunEnds
<1> QED
  BY <1>3, <1>4, <1>5 DEF RunInvariant

\* What exitGracefully() and exitWithError() do, whoever calls them.
LEMMA TerminationKeeps ==
  ASSUME Run!SignalsAssumption, RunInvariant,
         Run!ExitGracefully \/ Run!ExitWithError
  PROVE  /\ started' = TRUE /\ forced' \in BOOLEAN /\ closed' \in BOOLEAN
         /\ missed' \in BOOLEAN /\ (closed' \/ missed')
         /\ deleting' \in BOOLEAN
         /\ client' \in {"none", "listed", "closed"}
         /\ media' \in {"none", "running", "orphan", "aborted", "closed"}
         /\ media' \in {"running", "orphan"} => media' = media
         /\ closed => closed' /\ (deleting => deleting')
         /\ closed' => succeeded >= 3
         /\ closed' => (closed /\ deleting' = deleting) \/ deleting'
<1>1. sends \in BOOLEAN /\ succeeded \in Nat
  BY DEF RunInvariant, Run!TypeOK
<1>2. Run!Created <=> succeeded >= 3
  BY <1>1, RunRequests DEF Run!Created
<1> QED
  BY <1>1, <1>2
  DEF RunInvariant, Run!TypeOK, ClosedForGood, Run!ExitGracefully, Run!ExitWithError,
      Run!Terminate, Run!Close

LEMMA RunStep ==
  ASSUME Run!SignalsAssumption, RunInvariant, [Run!Next]_(Run!vars)
  PROVE  RunInvariant'
<1> USE DEF RunInvariant, RunInOrder, ClosedForGood, RunEnds, Run!Settled, Run!TypeOK
<1>1. sends \in BOOLEAN /\ succeeded \in Nat
  OBVIOUS
<1>2. /\ Len(Run!Creating \o Run!Producing) = 7
      /\ sends => Len(Run!Requests) = 10
      /\ ~sends => Len(Run!Requests) = 6
  BY <1>1, RunRequests
<1>3. sends' = sends => Len(Run!Requests)' = Len(Run!Requests)
  BY DEF Run!Requests, Run!Creating, Run!Producing, Run!Consuming
<1>4. CASE Run!Signal
  <2>1. Run!ExitGracefully /\ UNCHANGED <<sends, succeeded, at, exited, present, lost>>
    BY <1>4 DEF Run!Signal, Run!run
  <2>2. signals' \in 0 .. MaxSignals /\ ~exited
    BY <1>4 DEF Run!Signal, Run!SignalsAssumption
  <2> QED
    BY <1>1, <1>3, <2>1, <2>2, TerminationKeeps
<1>5. CASE Run!Disconnected
  BY <1>3, <1>5 DEF Run!Disconnected, Run!run
<1>6. CASE Run!MediaAborted
  BY <1>3, <1>6 DEF Run!MediaAborted, Run!run
<1>7. CASE Run!Exit
  BY <1>3, <1>7 DEF Run!Exit, Run!run
<1>8. CASE Run!Ask
  BY <1>3, <1>8 DEF Run!Ask
<1>9. CASE Run!RequestFails
  <2>1. /\ at' = "over" /\ Run!ExitWithError /\ ~exited /\ at = "waiting"
        /\ UNCHANGED <<sends, succeeded, exited, lost, signals>>
    BY <1>9 DEF Run!RequestFails, Run!Fails
  <2>2. present' \in BOOLEAN /\ (succeeded >= 3 => present' = present)
    <3>1. present' \in {present, present \/ Run!Asked = "createBroadcasterPeer"}
      BY <1>9 DEF Run!RequestFails
    <3>2. succeeded \in 0 .. Len(Run!Requests) - 1
      BY <1>1, <1>2, <2>1
    <3>3. succeeded >= 3 => Run!Asked # "createBroadcasterPeer"
      BY <1>1, <3>2, MadeOnce
    <3> QED
      BY <3>1, <3>3
  <2> QED
    BY <1>1, <1>3, <2>1, <2>2, TerminationKeeps
<1>10. CASE Run!RequestSucceeds
  <2>1. /\ ~exited /\ at = "waiting" /\ succeeded' = succeeded + 1
        /\ UNCHANGED <<sends, exited, lost, signals>>
    BY <1>10 DEF Run!RequestSucceeds
  <2>2. present' \in BOOLEAN /\ (succeeded >= 3 => present' = present)
    BY <1>1, <1>2, <1>10, MadeOnce DEF Run!RequestSucceeds
  <2>3. succeeded' \in 0 .. Len(Run!Requests)
    BY <1>1, <1>2, <2>1
  <2>4. CASE sends /\ succeeded' = 7 /\ Run!SendsMediaFile
    BY <1>1, <1>2, <1>3, <2>1, <2>2, <2>3, <2>4 DEF Run!SendsMediaFile
  <2>5. CASE at' = "over" /\ Run!ExitGracefully
    <3>1. Run!TypeOK'
      BY <1>3, <2>1, <2>2, <2>3, <2>5, TerminationKeeps
    <3>2. RunInOrder'
      BY <2>1, <2>5, TerminationKeeps
    <3>3. ClosedForGood'
      <4>1. closed' => succeeded >= 3 /\ succeeded' >= 3 /\ present' = present
        <5>1. closed' => succeeded >= 3
          BY <2>5, TerminationKeeps
        <5>2. succeeded >= 3 => succeeded' >= 3
          BY <1>1, <2>1
        <5> QED
          BY <2>2, <5>1, <5>2
      <4>2. closed' => (closed /\ deleting' = deleting) \/ deleting'
        BY <2>5, TerminationKeeps
      <4>3. closed' /\ present' => lost' \/ deleting'
        BY <2>1, <4>1, <4>2
      <4>4. started' /\ (closed' \/ missed')
        BY <2>5, TerminationKeeps
      <4> QED
        BY <4>1, <4>3, <4>4
    <3>4. RunEnds'
      BY <2>1, <2>5, TerminationKeeps
    <3> QED
      BY <3>1, <3>2, <3>3, <3>4
  <2>6. CASE /\ succeeded' < Len(Run!Requests) /\ at' = "asking"
             /\ UNCHANGED <<started, missed, forced, closed, deleting, client, media>>
    BY <1>1, <1>2, <1>3, <2>1, <2>2, <2>3, <2>6
  <2> QED
    BY <1>2, <1>10, <2>4, <2>5, <2>6 DEF Run!RequestSucceeds
<1>11. CASE Run!MediaEnds
  <2>1. /\ ~exited /\ at = "sending" /\ media' = "closed"
        /\ UNCHANGED <<sends, succeeded, exited, present, lost, signals>>
    BY <1>11 DEF Run!MediaEnds
  <2>2. sends /\ succeeded = 7
    BY <2>1
  <2>3. succeeded < Len(Run!Requests)
    <3>1. PICK n \in Nat : n = Len(Run!Requests) /\ n = 10
      BY <1>2, <2>2
    <3>2. succeeded < n
      BY <2>2, <3>1
    <3> QED
      BY <3>1, <3>2
  <2>4. CASE Run!Consumes
    BY <1>3, <2>1, <2>2, <2>3, <2>4 DEF Run!Consumes
  <2>5. CASE /\ at' = "over" /\ forced' = (forced \/ ~started) /\ started' = TRUE
             /\ IF started THEN UNCHANGED <<closed, deleting, client>>
                ELSE closed' = TRUE /\ deleting' = TRUE /\ client' = "closed"
             /\ missed' = missed
    <3>1. CASE started
      BY <1>3, <2>1, <2>2, <2>3, <2>5, <3>1
    <3>2. CASE ~started
      BY <1>3, <2>1, <2>2, <2>3, <2>5, <3>2
    <3> QED
      BY <3>1, <3>2
  <2> QED
    BY <1>11, <2>4, <2>5 DEF Run!MediaEnds
<1>12. CASE Run!SendingAborted
  <2>1. /\ ~exited /\ at = "sending" /\ media \in {"aborted", "closed"} /\ Run!Consumes
        /\ UNCHANGED <<sends, succeeded, media, exited, present, lost, signals>>
    BY <1>12 DEF Run!SendingAborted
  <2>2. sends /\ succeeded = 7
    BY <2>1
  <2>3. succeeded < Len(Run!Requests)
    <3>1. PICK n \in Nat : n = Len(Run!Requests) /\ n = 10
      BY <1>2, <2>2
    <3>2. succeeded < n
      BY <2>2, <3>1
    <3> QED
      BY <3>1, <3>2
  <2> QED
    BY <1>3, <2>1, <2>2, <2>3 DEF Run!Consumes
<1>13. CASE UNCHANGED Run!vars
  BY <1>3, <1>13 DEF Run!vars, Run!run
<1> QED
  BY <1>4, <1>5, <1>6, <1>7, <1>8, <1>9, <1>10, <1>11, <1>12, <1>13
  DEF Run!Next, Run!Answered

\* Every state of the Node program satisfies its invariant.
THEOREM RunIsSound == ASSUME Run!SignalsAssumption PROVE Run!Spec => []RunInvariant
<1>1. Run!Init => RunInvariant
  BY RunStarts
<1>2. RunInvariant /\ [Run!Next]_(Run!vars) => RunInvariant'
  BY RunStep
<1> QED
  BY <1>1, <1>2, PTL DEF Run!Spec

\* After however many signals the program ends without a subprocess, and without a
\* BroadcasterPeer in the Room unless the DELETE failed or the termination, by a
\* signal or by an error, began before create() had returned (terminateProcess() of
\* index.ts finds no broadcaster then, and runs once): close() of Broadcaster.ts and
\* of its media client does what is left in every other case.
THEOREM NothingLeft == ASSUME Run!SignalsAssumption PROVE Run!Spec => []LeavesNothing
<1>1. RunInvariant => LeavesNothing
  BY DEF RunInvariant, Run!TypeOK, RunInOrder, ClosedForGood, RunEnds, Run!Settled,
         LeavesNothing
<1> QED
  BY <1>1, RunIsSound, PTL

=============================================================================
