------------------------- MODULE ClientSession_proofs -------------------------
(***************************************************************************)
(* Proofs about ClientSession, for every number of WebSockets, transports   *)
(* and names.  A _joinRoom() outlives the WebSocket it was begun for: the   *)
(* invariant says what a call under way may still rely on, first whichever  *)
(* calls run beside it, then when no two _joinRoom() ever met.              *)
(***************************************************************************)
EXTENDS ClientSession, SequenceTheorems, TLAPS

\* The calls under way, each once however often it is in the bag.
Pending == DOMAIN calls

\* The await of a call fits its function.
Staged(k) ==
  /\ k.run = "join" => k.at \in {"device", "capabilities", "mic", "send", "recv", "join"}
  /\ k.run \in DataRun => k.at \in {"queue", "connect", "data"}
  /\ k.run = "ice" => k.at \in {"iceSend", "iceRecv"}

\* A call that names a transport for sending, or one for receiving.
ForSending(k) == k.run \in DataRun \/ (k.run = "join" /\ k.at = "send" /\ k.answered)
ForReceiving(k) == k.run = "join" /\ k.at = "recv" /\ k.answered

-----------------------------------------------------------------------------
(* The inductive invariant.                                                *)

\* Without a WebSocket nothing is under way to the server, and no transport is
\* in its slot.
QuietSound ==
  ws # "open" => /\ wire = <<>> /\ room # "connected"
                 /\ slot["send"] = 0 /\ slot["recv"] = 0

\* What a call has from the server, and what it did before it asked again.
CallSound(k) ==
  /\ Staged(k) /\ k.in <= session /\ k.on <= created
  /\ ForSending(k) \/ ForReceiving(k) => k.on # 0
  /\ k.run \in DataRun => k.on \in alive
  /\ k.run = "join" /\ k.answered /\ k.in = session =>
       /\ k.at \in {"send", "recv"} => k.on \in peer.transports
       /\ k.at = "join" => peer.joined
  /\ k.run = "join" /\ k.at \in {"recv", "join"} /\ k.in = session /\ ws = "open" =>
       slot["send"] \in alive

\* No transport is both for sending and for receiving.
KindsApart ==
  /\ slot["send"] \in 0 .. created /\ slot["recv"] \in 0 .. created
  /\ slot["send"] # slot["recv"] \/ slot["send"] = 0
  /\ \A k \in Pending :
       /\ ForSending(k) => k.on # slot["recv"]
       /\ ForReceiving(k) => k.on # slot["send"]
  /\ \A j, k \in Pending : ForSending(j) /\ ForReceiving(k) => j.on # k.on

\* The last message that tells of the name, and the server when none is under
\* way, have the current one.
NameSound ==
  /\ \A i \in 1 .. Len(wire) :
       (\A j \in i + 1 .. Len(wire) : wire[j].what # "name") => wire[i].name = name
  /\ ws = "open" /\ peer.joined /\ (\A j \in 1 .. Len(wire) : wire[j].what # "name") =>
       peer.name = name

\* One _joinRoom() at most is under way.
Single(c) ==
  \A k \in DOMAIN c : k.run = "join" =>
    c[k] = 1 /\ \A j \in DOMAIN c : j.run = "join" => j = k

\* A slot is empty until the _joinRoom() fills it, and what enables data is about
\* the transport in it.
AloneSound(k) ==
  /\ k.run = "join" /\ k.at \in {"device", "capabilities", "mic", "send"} =>
       slot["send"] = 0 /\ slot["recv"] = 0
  /\ k.run = "join" /\ k.at = "recv" => slot["recv"] = 0
  /\ k.run \in DataRun => k.on = slot["send"]
  /\ k.at = "connect" /\ k.answered /\ k.in = session => k.on \in peer.connected

AloneData ==
  \A i \in 1 .. Len(wire) :
    wire[i].run \in DataRun => wire[i].on = slot["send"] /\ slot["send"] # 0

Alone ==
  ~overlapped => /\ Single(calls) /\ AloneData
                 /\ \A k \in Pending : AloneSound(k)

Joining ==
  /\ TypeOK /\ QuietSound /\ KindsApart /\ NameSound
  /\ \A k \in Pending : CallSound(k)
  /\ Alone /\ TransportsAreReachable /\ ConnectedIsJoined

-----------------------------------------------------------------------------
(* The bag of the calls.                                                   *)

LEMMA CallAdded ==
  ASSUME NEW c, NEW a, IsABag(c)
  PROVE  /\ IsABag(BagAdd(c, a)) /\ DOMAIN BagAdd(c, a) = DOMAIN c \cup {a}
         /\ \A x \in DOMAIN c : x # a => BagAdd(c, a)[x] = c[x]
         /\ a \notin DOMAIN c => BagAdd(c, a)[a] = 1
BY DEF BagAdd, IsABag

LEMMA CallRemoved ==
  ASSUME NEW c, NEW k, IsABag(c)
  PROVE  /\ IsABag(BagRemove(c, k)) /\ DOMAIN BagRemove(c, k) \subseteq DOMAIN c
         /\ \A x \in DOMAIN c : x # k =>
              x \in DOMAIN BagRemove(c, k) /\ BagRemove(c, k)[x] = c[x]
         /\ k \in DOMAIN c /\ c[k] = 1 => k \notin DOMAIN BagRemove(c, k)
BY DEF BagRemove, IsABag

\* A call that began is there; it is a second _joinRoom() only beside another one.
LEMMA Began ==
  ASSUME IsABag(calls), NEW a, calls' = BagAdd(calls, a)
  PROVE  /\ IsABag(calls') /\ Pending' = Pending \cup {a}
         /\ Single(calls) /\ a.run # "join" => Single(calls')
         /\ Single(calls) /\ (\A x \in Pending : x.run # "join") => Single(calls')
<1>1. /\ IsABag(calls') /\ DOMAIN calls' = DOMAIN calls \cup {a}
      /\ \A x \in DOMAIN calls : x # a => calls'[x] = calls[x]
      /\ a \notin DOMAIN calls => calls'[a] = 1
  BY CallAdded
<1>2. ASSUME Single(calls), a.run # "join"  PROVE Single(calls')
  <2>1. \A x \in DOMAIN calls' : x.run = "join" => x \in DOMAIN calls /\ calls'[x] = calls[x]
    BY <1>1, <1>2
  <2> QED BY <1>2, <2>1 DEF Single
<1>3. ASSUME \A x \in Pending : x.run # "join"  PROVE Single(calls')
  BY <1>1, <1>3 DEF Pending, Single
<1> QED BY <1>1, <1>2, <1>3 DEF Pending

LEMMA Ended ==
  ASSUME IsABag(calls), NEW k \in Pending, calls' = Without(k)
  PROVE  /\ IsABag(calls') /\ Pending' \subseteq Pending
         /\ Single(calls) => Single(calls')
         /\ Single(calls) /\ k.run = "join" => \A x \in Pending' : x.run # "join"
<1>1. /\ IsABag(calls') /\ DOMAIN calls' \subseteq DOMAIN calls
      /\ \A x \in DOMAIN calls : x # k => x \in DOMAIN calls' /\ calls'[x] = calls[x]
      /\ calls[k] = 1 => k \notin DOMAIN calls'
  BY CallRemoved DEF Pending, Without
<1> QED BY <1>1 DEF Pending, Single

\* A call that goes on is the only _joinRoom() if it was.
LEMMA WentOn ==
  ASSUME IsABag(calls), NEW k \in Pending, NEW a, Becomes(k, a)
  PROVE  /\ IsABag(calls') /\ a \in Pending'
         /\ \A x \in Pending' : x = a \/ x \in Pending
         /\ Single(calls) /\ a.run = k.run => Single(calls')
<1> PICK d : d = Without(k)
  OBVIOUS
<1>1. /\ IsABag(d) /\ DOMAIN d \subseteq DOMAIN calls
      /\ \A x \in DOMAIN calls : x # k => x \in DOMAIN d /\ d[x] = calls[x]
      /\ calls[k] = 1 => k \notin DOMAIN d
  BY CallRemoved DEF Pending, Without
<1>2. calls' = BagAdd(d, a)
  BY DEF Becomes
<1>3. /\ IsABag(calls') /\ DOMAIN calls' = DOMAIN d \cup {a}
      /\ \A x \in DOMAIN d : x # a => calls'[x] = d[x]
      /\ a \notin DOMAIN d => calls'[a] = 1
  <2> PICK e : e = BagAdd(d, a)
    OBVIOUS
  <2>1. /\ IsABag(e) /\ DOMAIN e = DOMAIN d \cup {a}
        /\ \A x \in DOMAIN d : x # a => e[x] = d[x]
        /\ a \notin DOMAIN d => e[a] = 1
    <3>1. IsABag(d)
      BY <1>1
    <3> QED BY ONLY <3>1, e = BagAdd(d, a), CallAdded
  <2>2. calls' = e
    BY <1>2
  <2> QED BY <2>1, <2>2
<1>4. ASSUME Single(calls), a.run = k.run  PROVE Single(calls')
  <2>1. CASE k.run = "join"
    <3>1. \A x \in DOMAIN d : x.run # "join"
      BY <1>1, <1>4, <2>1 DEF Single, Pending
    <3> QED BY <1>3, <1>4, <2>1, <3>1 DEF Single
  <2>2. CASE k.run # "join"
    <3>1. \A x \in DOMAIN d : x.run = "join" => x # k /\ x # a /\ d[x] = calls[x]
      BY <1>1, <1>4, <2>2
    <3>2. \A x \in DOMAIN calls' : x.run = "join" =>
            x \in DOMAIN calls /\ calls'[x] = calls[x]
      BY <1>1, <1>3, <1>4, <2>2, <3>1
    <3> QED BY <1>4, <3>2 DEF Single
  <2> QED BY <2>1, <2>2
<1> QED BY <1>1, <1>3, <1>4 DEF Pending

-----------------------------------------------------------------------------
(* What the steps of one session leave as it was.                          *)

WireMessage ==
  [what: Request \cup {"name"}, run: Run \cup {""}, on: Transport \cup {0}, name: Name]

\* The transports and the Peer of a session only grow, and so a call under way
\* relies on what it relied on.
LEMMA CallFrame ==
  ASSUME NEW k, CallSound(k), session' = session, ws' = ws, created \in Nat,
         created' \in Nat, created <= created', alive \subseteq alive',
         peer.transports \subseteq peer'.transports, peer.joined => peer'.joined,
         slot["send"] \in alive => slot'["send"] \in alive',
         k.on \in Nat
  PROVE  CallSound(k)'
BY DEF CallSound, Staged, ForSending, ForReceiving

LEMMA Counters ==
  ASSUME TypeOK
  PROVE  session \in Nat /\ created \in Nat /\ name \in Nat
<1>1. session \in 0 .. MaxSessions /\ created \in 0 .. MaxTransports /\ name \in 0 .. MaxNames
  BY DEF TypeOK, Name
<1> QED BY <1>1, BoundsAssumption

\* The calls are of the type Call.
LEMMA CallTypes ==
  ASSUME TypeOK, NEW k \in Pending
  PROVE  /\ k \in Call /\ BagIn(k, calls) /\ IsABag(calls) /\ k.in \in Nat /\ k.on \in Nat
         /\ k.answered \in BOOLEAN /\ k.run \in {"join", "chat", "bot", "ice"}
<1>1. k \in Call /\ BagIn(k, calls) /\ IsABag(calls)
  BY DEF TypeOK, Pending, BagToSet, BagIn
<1>2. /\ k.in \in 0 .. MaxSessions /\ k.on \in (1 .. MaxTransports) \cup {0}
      /\ k.answered \in BOOLEAN /\ k.run \in Run
  BY <1>1 DEF Call, Transport
<1>3. k.in \in Nat /\ k.on \in Nat
  BY <1>2, BoundsAssumption
<1> QED BY <1>1, <1>2, <1>3 DEF Run, DataRun

LEMMA WireAppended ==
  ASSUME TypeOK, NEW m \in WireMessage, wire' = Append(wire, m)
  PROVE  /\ wire' \in Seq(WireMessage) /\ Len(wire) \in Nat /\ Len(wire') = Len(wire) + 1
         /\ \A i \in 1 .. Len(wire) : wire'[i] = wire[i]
         /\ wire'[Len(wire) + 1] = m
         /\ wire' # <<>>
<1>1. wire \in Seq(WireMessage) /\ Len(wire) \in Nat
  BY LenProperties DEF TypeOK, WireMessage
<1> QED BY <1>1, AppendProperties

LEMMA WireTaken ==
  ASSUME TypeOK, wire # <<>>, wire' = Tail(wire)
  PROVE  /\ wire' \in Seq(WireMessage) /\ Len(wire) \in Nat /\ Len(wire') = Len(wire) - 1
         /\ Len(wire) >= 1 /\ Head(wire) = wire[1] /\ Head(wire) \in WireMessage
         /\ \A i \in 1 .. Len(wire') : wire'[i] = wire[i + 1]
<1>1. wire \in Seq(WireMessage) /\ Len(wire) \in Nat /\ Len(wire) # 0
  BY LenProperties, EmptySeq DEF TypeOK, WireMessage
<1> QED BY <1>1, HeadTailProperties, ElementOfSeq

\* A message that carries the name, and does not change it.
LEMMA NameKept ==
  ASSUME TypeOK, NameSound, NEW m \in WireMessage, m.what # "name", m.name = name,
         wire' = Append(wire, m), name' = name, ws' = ws, peer' = peer
  PROVE  NameSound'
<1>1. /\ Len(wire) \in Nat /\ Len(wire') = Len(wire) + 1 /\ wire'[Len(wire) + 1] = m
      /\ \A i \in 1 .. Len(wire) : wire'[i] = wire[i]
  BY WireAppended
<1>2. ASSUME NEW i \in 1 .. Len(wire'),
             \A j \in i + 1 .. Len(wire') : wire'[j].what # "name"
      PROVE  wire'[i].name = name
  <2>1. CASE i = Len(wire) + 1
    BY <1>1, <2>1
  <2>2. CASE i \in 1 .. Len(wire)
    <3>1. \A j \in i + 1 .. Len(wire) : wire[j].what # "name"
      BY <1>1, <1>2, <2>2
    <3> QED BY <1>1, <2>2, <3>1 DEF NameSound
  <2> QED BY <1>1, <2>1, <2>2
<1>3. (\A j \in 1 .. Len(wire') : wire'[j].what # "name") =>
        \A j \in 1 .. Len(wire) : wire[j].what # "name"
  BY <1>1
<1> QED BY <1>2, <1>3 DEF NameSound

LEMMA NameIdle ==
  ASSUME NameSound, UNCHANGED <<wire, name>>,
         ws' # "open" \/ (ws' = ws /\ peer'.joined = peer.joined /\ peer'.name = peer.name)
  PROVE  NameSound'
BY DEF NameSound

LEMMA NameQuiet ==
  ASSUME wire' = <<>>, ws' # "open" \/ ~peer'.joined
  PROVE  NameSound'
BY DEF NameSound

-----------------------------------------------------------------------------
(* The transports are closed: on a lost WebSocket, by close(), by the server. *)

LEMMA TransportsClosed ==
  ASSUME Joining, NEW left, IsABag(left), DOMAIN left \subseteq Pending,
         Single(calls) => Single(left), CloseTransports(left), RoomClosed,
         ws' \in {"connecting", "closed"}, wire' = <<>>,
         UNCHANGED <<session, name, peer, created, overlapped>>
  PROVE  Joining'
<1> USE DEF Joining
<1>1. /\ slot' = [s \in {"send", "recv"} |-> 0] /\ slot'["send"] = 0 /\ slot'["recv"] = 0
      /\ alive' = alive \ {slot["send"], slot["recv"]}
      /\ linked' = linked \ {slot["send"], slot["recv"]} /\ data' = {}
      /\ room' = "closed" /\ restarting' = FALSE
  BY DEF CloseTransports, RoomClosed
<1>2. /\ IsABag(calls') /\ Pending' \subseteq DOMAIN left
      /\ \A k \in Pending' : calls'[k] = left[k]
                             /\ (k.run \in DataRun => k.on # slot["send"])
  BY DEF CloseTransports, Pending, IsABag, BagToSet
<1>3. ASSUME Single(left)  PROVE Single(calls')
  BY <1>2, <1>3 DEF Single, Pending
<1>4. TypeOK'
  <2>1. BagToSet(calls') \subseteq Call
    BY <1>2, CallTypes DEF Pending, BagToSet
  <2>2. wire' \in Seq(WireMessage)
    BY EmptySeq
  <2>3. slot' \in [{"send", "recv"} -> Transport \cup {0}]
    BY <1>1
  <2> QED BY <1>1, <1>2, <2>1, <2>2, <2>3 DEF TypeOK, WireMessage
<1>5. QuietSound'
  BY <1>1 DEF QuietSound
<1>6. \A k \in Pending' : CallSound(k)'
  <2> TAKE k \in Pending'
  <2>1. k \in Pending /\ CallSound(k)
    BY <1>2
  <2>2. k.run \in DataRun => k.on \in alive'
    BY <1>1, <1>2, <2>1 DEF CallSound, KindsApart, ForSending
  <2> QED BY <2>1, <2>2 DEF CallSound, Staged, ForSending, ForReceiving
<1>7. KindsApart'
  <2>1. \A k \in Pending' : ForSending(k) \/ ForReceiving(k) => k.on # 0
    BY <1>2 DEF CallSound
  <2>2. 0 \in 0 .. created'
    BY Counters
  <2> QED BY <1>1, <1>2, <2>1, <2>2 DEF KindsApart, ForSending, ForReceiving
<1>8. NameSound'
  BY NameQuiet
<1>9. Alone' /\ TransportsAreReachable'
  <2> SUFFICES ASSUME ~overlapped'
               PROVE  /\ Single(calls') /\ AloneData' /\ \A k \in Pending' : AloneSound(k)'
                      /\ alive' = {} /\ linked' = {}
    BY <1>1 DEF Alone, TransportsAreReachable
  <2>1. Single(calls')
    BY <1>3 DEF Alone
  <2>2. alive' = {} /\ linked' = {}
    BY <1>1 DEF TransportsAreReachable, TypeOK
  <2>3. \A k \in Pending' : k.run \notin DataRun /\ CallSound(k)' /\ AloneSound(k)
    BY <1>2, <1>6, <2>2 DEF CallSound, Alone
  <2>4. AloneData'
    BY DEF AloneData
  <2> QED BY <1>1, <2>1, <2>2, <2>3, <2>4 DEF AloneSound
<1>10. ConnectedIsJoined'
  BY <1>1 DEF ConnectedIsJoined
<1> QED BY <1>4, <1>5, <1>6, <1>7, <1>8, <1>9, <1>10

\* A call is over, and that is all; a restart of ICE is over with its call.
LEMMA CallOver ==
  ASSUME Joining, NEW k \in Pending, Ends(k), restarting' \in BOOLEAN,
         data \subseteq data', data' \subseteq {"chat", "bot"},
         UNCHANGED <<ws, session, room, name, slot, alive, linked, wire, peer, created,
                     overlapped>>
  PROVE  Joining'
<1> USE DEF Joining
<1>1. /\ IsABag(calls') /\ Pending' \subseteq Pending
      /\ Single(calls) => Single(calls')
  BY CallTypes, Ended DEF Ends
<1>2. TypeOK'
  BY <1>1 DEF TypeOK, Pending, BagToSet
<1>3. QuietSound' /\ ConnectedIsJoined' /\ TransportsAreReachable' /\ NameSound'
  BY NameIdle DEF QuietSound, ConnectedIsJoined, TransportsAreReachable
<1>4. \A x \in Pending' : CallSound(x)'
  BY <1>1 DEF CallSound, Staged, ForSending, ForReceiving
<1>5. KindsApart'
  BY <1>1 DEF KindsApart, ForSending, ForReceiving
<1>6. Alone'
  BY <1>1 DEF Alone, AloneData, AloneSound
<1> QED BY <1>2, <1>3, <1>4, <1>5, <1>6

-----------------------------------------------------------------------------
(* A call that goes on asks the server.                                    *)

Asking(k, what) ==
  [run |-> k.run, at |-> what, in |-> session, answered |-> FALSE,
   on |-> IF k.run = "join" THEN 0 ELSE k.on]

LEMMA AskingTypes ==
  ASSUME TypeOK, NEW k \in Pending, NEW what \in Request, NEW t \in Transport \cup {0},
         Asks(k, what, t)
  PROVE  /\ ws = "open" /\ Becomes(k, Asking(k, what)) /\ Asking(k, what) \in Call
         /\ wire' = Append(wire, Message(k, what, t)) /\ Message(k, what, t) \in WireMessage
         /\ Message(k, what, t).what # "name" /\ Message(k, what, t).name = name
         /\ Message(k, what, t).run = k.run /\ Message(k, what, t).on = t
<1>1. k \in Call /\ k.run \in {"join", "chat", "bot", "ice"} /\ k.on \in Transport \cup {0}
  BY CallTypes DEF Call
<1>2. session \in 0 .. MaxSessions /\ name \in Name
  BY DEF TypeOK
<1>3. Asking(k, what) \in Call
  BY <1>1, <1>2 DEF Asking, Call
<1>4. Message(k, what, t) \in WireMessage
  <2>1. k.run \in Run
    BY <1>1 DEF Run, DataRun
  <2>2. what \in Request \cup {"name"}
    OBVIOUS
  <2> QED BY ONLY <1>2, <2>1, <2>2, t \in Transport \cup {0} DEF Message, WireMessage
<1>5. what # "name"
  BY DEF Request
<1> QED BY <1>3, <1>4, <1>5 DEF Asks, Asking, Message

\* The requests of a function that name no transport yet, or the one in its slot.
LEMMA CallAsks ==
  ASSUME Joining, NEW k \in Pending, NEW what \in Request, NEW t \in Transport \cup {0},
         Asks(k, what, t),
         k.run = "join" => /\ what \in {"capabilities", "send"}
                           /\ k.at \in {"device", "capabilities", "mic", "send"},
         k.run \in DataRun => what \in {"connect", "data"} /\ t = slot["send"] /\ t # 0,
         k.run = "ice" => what \in {"iceSend", "iceRecv"},
         linked \subseteq linked', linked' \subseteq alive,
         ~overlapped => linked' \subseteq peer.connected,
         UNCHANGED <<ws, session, room, restarting, name, slot, alive, data, peer, created,
                     overlapped>>
  PROVE  Joining'
<1> USE DEF Joining
<1> PICK a : a = Asking(k, what)
  OBVIOUS
<1> PICK m : m = Message(k, what, t)
  OBVIOUS
<1>1. /\ ws = "open" /\ Becomes(k, a) /\ a \in Call /\ wire' = Append(wire, m)
      /\ m \in WireMessage /\ m.what # "name" /\ m.name = name /\ m.run = k.run /\ m.on = t
  BY AskingTypes
<1>2. /\ a.run = k.run /\ a.at = what /\ a.in = session /\ a.answered = FALSE
      /\ a.on = IF k.run = "join" THEN 0 ELSE k.on
  BY DEF Asking
<1>3. /\ IsABag(calls') /\ \A x \in Pending' : x = a \/ x \in Pending
      /\ Single(calls) => Single(calls')
  BY <1>1, <1>2, CallTypes, WentOn
<1>4. /\ wire' \in Seq(WireMessage) /\ Len(wire) \in Nat /\ Len(wire') = Len(wire) + 1
      /\ \A i \in 1 .. Len(wire) : wire'[i] = wire[i]
      /\ wire'[Len(wire) + 1] = m
  BY <1>1, WireAppended
<1>5. TypeOK'
  <2>1. BagToSet(calls') \subseteq Call
    BY <1>1, <1>3, CallTypes DEF Pending, BagToSet
  <2> QED BY <1>3, <1>4, <2>1 DEF TypeOK, WireMessage
<1>6. QuietSound' /\ ConnectedIsJoined' /\ TransportsAreReachable'
  BY <1>1 DEF QuietSound, ConnectedIsJoined, TransportsAreReachable
<1>7. NameSound'
  BY <1>1, NameKept
<1>8. /\ ~ForReceiving(a)
      /\ ForSending(a) => k.run \in DataRun /\ ForSending(k) /\ a.on = k.on
  BY <1>2 DEF ForReceiving, ForSending, DataRun
<1>9. \A x \in Pending' : CallSound(x)'
  <2> TAKE x \in Pending'
  <2>1. CASE x \in Pending
    BY <2>1 DEF CallSound, Staged, ForSending, ForReceiving
  <2>2. CASE x = a
    <3>1. Staged(a) /\ a.in <= session /\ a.on <= created
      <4>1. k.on \in Nat /\ session \in Nat /\ created \in Nat /\ k.on <= created
        BY CallTypes, Counters DEF CallSound
      <4>2. a.on <= created /\ a.in <= session
        BY <1>2, <4>1
      <4>3. /\ k.run = "join" => what \in {"capabilities", "send"}
            /\ k.run \in DataRun => what \in {"connect", "data"}
            /\ k.run = "ice" => what \in {"iceSend", "iceRecv"}
        OBVIOUS
      <4>4. Staged(a)
        BY ONLY <1>2, <4>3 DEF Staged
      <4> QED BY <4>2, <4>4
    <3>2. a.run \in DataRun => a.on \in alive
      BY <1>2, <1>8 DEF CallSound, DataRun
    <3>3. ForSending(a) \/ ForReceiving(a) => a.on # 0
      BY <1>8 DEF CallSound
    <3> QED BY <1>2, <2>2, <3>1, <3>2, <3>3 DEF CallSound, Staged, ForSending, ForReceiving
  <2> QED BY <1>3, <2>1, <2>2
<1>10. KindsApart'
  <2>1. \A x \in Pending' : /\ ForReceiving(x) => x \in Pending
                            /\ ForSending(x) => \E y \in Pending : ForSending(y) /\ y.on = x.on
    BY <1>3, <1>8
  <2> QED BY <2>1 DEF KindsApart, ForSending, ForReceiving
<1>11. Alone'
  <2> SUFFICES ASSUME ~overlapped
               PROVE  Single(calls') /\ AloneData' /\ \A x \in Pending' : AloneSound(x)'
    BY DEF Alone
  <2>1. Single(calls')
    BY <1>3 DEF Alone
  <2>2. AloneData'
    BY <1>1, <1>4 DEF AloneData, Alone
  <2>3. \A x \in Pending' : AloneSound(x)'
    BY <1>2, <1>3 DEF AloneSound, Alone, DataRun
  <2> QED BY <2>1, <2>2, <2>3
<1> QED BY <1>5, <1>6, <1>7, <1>9, <1>10, <1>11

\* A _joinRoom() fills a slot, and asks for what comes next.
LEMMA TransportFillsSlot ==
  ASSUME Joining, NEW k \in Pending, NEW s, NEW next, TransportCreated(k, s, next),
         (s = "send" /\ next = "recv") \/ (s = "recv" /\ next = "join")
  PROVE  Joining'
<1> USE DEF Joining
<1> PICK a : a = Asking(k, next)
  OBVIOUS
<1> PICK m : m = Message(k, next, 0)
  OBVIOUS
<1>1. /\ k.run = "join" /\ k.at = s /\ k.answered /\ k.in = session /\ ws = "open"
      /\ slot' = [slot EXCEPT ![s] = k.on] /\ alive' = alive \cup {k.on} /\ Asks(k, next, 0)
      /\ UNCHANGED <<ws, session, room, restarting, name, linked, data, peer, created,
                     overlapped>>
  BY DEF TransportCreated, Answered, At, Resolves
<1>2. k.on \in peer.transports /\ k.on \in 1 .. created /\ k.on # 0 /\ 0 \notin alive
  <2>1. k.on \in peer.transports
    BY <1>1 DEF CallSound
  <2>2. peer.transports \subseteq 1 .. created /\ alive \subseteq 1 .. created
    BY DEF TypeOK
  <2> QED BY <2>1, <2>2
<1>3. /\ slot' \in [{"send", "recv"} -> Transport \cup {0}]
      /\ s = "send" => slot'["send"] = k.on /\ slot'["recv"] = slot["recv"]
      /\ s = "recv" => slot'["send"] = slot["send"] /\ slot'["recv"] = k.on
  <2>1. slot \in [{"send", "recv"} -> Transport \cup {0}] /\ k.on \in Transport \cup {0}
    BY CallTypes DEF TypeOK, Call
  <2> QED BY <1>1, <2>1
<1>4. /\ Becomes(k, a) /\ a \in Call /\ wire' = Append(wire, m)
      /\ m \in WireMessage /\ m.what # "name" /\ m.name = name /\ m.run = "join"
  <2>1. next \in Request /\ 0 \in Transport \cup {0}
    BY DEF Request
  <2> QED BY <1>1, <2>1, AskingTypes
<1>5. a.run = "join" /\ a.at = next /\ a.in = session /\ a.answered = FALSE /\ a.on = 0
  BY <1>1 DEF Asking
<1>6. /\ IsABag(calls') /\ a \in Pending' /\ \A x \in Pending' : x = a \/ x \in Pending
      /\ Single(calls) => Single(calls')
  BY <1>1, <1>4, <1>5, CallTypes, WentOn
<1>7. /\ wire' \in Seq(WireMessage) /\ Len(wire) \in Nat /\ Len(wire') = Len(wire) + 1
      /\ \A i \in 1 .. Len(wire) : wire'[i] = wire[i]
      /\ wire'[Len(wire) + 1] = m
  BY <1>4, WireAppended
<1>8. TypeOK'
  <2>1. BagToSet(calls') \subseteq Call
    BY <1>4, <1>6, CallTypes DEF Pending, BagToSet
  <2>2. alive' \subseteq 1 .. created' /\ linked' \subseteq alive'
    BY <1>1, <1>2 DEF TypeOK
  <2> QED BY <1>1, <1>3, <1>6, <1>7, <2>1, <2>2 DEF TypeOK, WireMessage
<1>9. QuietSound' /\ ConnectedIsJoined' /\ NameSound'
  BY <1>1, <1>4, NameKept DEF QuietSound, ConnectedIsJoined
<1>10. \A x \in Pending' : CallSound(x)'
  <2>1. ASSUME NEW x \in Pending  PROVE CallSound(x)'
    <3>1. slot["send"] \in alive => slot'["send"] \in alive'
      BY <1>1, <1>3
    <3> QED BY <1>1, <3>1, CallTypes, Counters, CallFrame
  <2>2. CallSound(a)'
    <3>1. s = "recv" => slot["send"] \in alive
      BY <1>1 DEF CallSound
    <3>2. a.at \in {"recv", "join"} /\ slot'["send"] \in alive'
      BY <1>1, <1>3, <1>5, <3>1
    <3>3. ~ForSending(a) /\ ~ForReceiving(a) /\ a.run \notin DataRun /\ Staged(a)
      BY <1>5, <3>2 DEF ForSending, ForReceiving, DataRun, Staged
    <3> QED BY <1>1, <1>5, <3>2, <3>3, Counters DEF CallSound, Staged, ForSending, ForReceiving
  <2> QED BY <1>6, <2>1, <2>2
<1>11. KindsApart'
  <2>1. ~ForSending(a) /\ ~ForReceiving(a)
    BY <1>5 DEF ForSending, ForReceiving, DataRun
  <2>2. \A x \in Pending' : ForSending(x) \/ ForReceiving(x) => x \in Pending
    BY <1>6, <2>1
  <2>3. /\ slot["send"] \in 0 .. created' /\ slot["recv"] \in 0 .. created'
        /\ k.on \in 0 .. created'
    <3>1. k.on \in 0 .. created
      BY <1>2, Counters
    <3> QED BY <1>1, <3>1 DEF KindsApart
  <2>4. slot'["send"] \in 0 .. created' /\ slot'["recv"] \in 0 .. created'
    BY <1>3, <2>3
  <2>5. CASE s = "send"
    <3>1. ForSending(k)
      BY <1>1, <2>5 DEF ForSending
    <3> QED BY <1>3, <2>2, <2>4, <2>5, <3>1 DEF KindsApart, ForSending, ForReceiving
  <2>6. CASE s = "recv"
    <3>1. ForReceiving(k)
      BY <1>1, <2>6 DEF ForReceiving
    <3> QED BY <1>3, <2>2, <2>4, <2>6, <3>1 DEF KindsApart, ForSending, ForReceiving
  <2> QED BY <2>5, <2>6
<1>12. Alone' /\ TransportsAreReachable'
  <2> SUFFICES ASSUME ~overlapped
               PROVE  Single(calls') /\ AloneData' /\ (\A x \in Pending' : AloneSound(x)')
                      /\ TransportsAreReachable'
    BY <1>1 DEF Alone, TransportsAreReachable
  <2>1. /\ Single(calls') /\ \A x \in Pending' : x.run = "join" => x = a
        /\ s = "send" => slot["send"] = 0 /\ slot["recv"] = 0
        /\ s = "recv" => slot["recv"] = 0
    BY <1>1, <1>5, <1>6 DEF Alone, AloneSound, Single, Pending
  <2>2. \A x \in Pending : x.run \in DataRun => s = "recv" /\ x.on = slot["send"]
    BY <1>2, <2>1 DEF Alone, AloneSound, CallSound
  <2>3. AloneData'
    BY <1>3, <1>4, <1>7, <2>1 DEF AloneData, Alone, DataRun
  <2>4. AloneSound(a)'
    BY <1>3, <1>5, <2>1 DEF AloneSound, DataRun
  <2>5. ASSUME NEW x \in Pending', x # a  PROVE AloneSound(x)'
    <3>1. x \in Pending /\ x.run # "join" /\ AloneSound(x) /\ CallSound(x)
      BY <1>6, <2>1, <2>5 DEF Alone
    <3> QED BY <1>1, <1>3, <2>2, <3>1 DEF AloneSound
  <2>6. TransportsAreReachable'
    <3>1. alive = {slot["send"], slot["recv"]} \ {0} /\ alive \subseteq peer.transports
          /\ linked \subseteq peer.connected
      BY DEF TransportsAreReachable
    <3>2. alive' = {slot'["send"], slot'["recv"]} \ {0}
      BY <1>1, <1>2, <1>3, <2>1, <3>1
    <3> QED BY <1>1, <1>2, <3>1, <3>2 DEF TransportsAreReachable
  <2> QED BY <2>1, <2>3, <2>4, <2>5, <2>6
<1> QED BY <1>8, <1>9, <1>10, <1>11, <1>12

-----------------------------------------------------------------------------
(* What begins.                                                            *)

LEMMA InitJoining == Init => Joining
<1> SUFFICES ASSUME Init  PROVE Joining
  OBVIOUS
<1>1. /\ slot["send"] = 0 /\ slot["recv"] = 0 /\ wire = <<>> /\ Len(wire) = 0
      /\ slot \in [{"send", "recv"} -> Transport \cup {0}]
      /\ ws = "none" /\ room = "new"
  BY DEF Init
<1>2. Pending = {} /\ IsABag(calls)
  BY DEF Init, EmptyBag, SetToBag, Pending, IsABag
<1>3. NewPeer \in [joined: BOOLEAN, name: Name, transports: SUBSET (1 .. created),
                   connected: SUBSET (1 .. created), data: SUBSET {"chat", "bot"}]
  BY BoundsAssumption DEF NewPeer, Name
<1>4. TypeOK
  <2>1. wire \in Seq(WireMessage)
    BY <1>1, EmptySeq
  <2>2. BagToSet(calls) \subseteq Call
    BY <1>2 DEF Pending, BagToSet
  <2>3. session \in 0 .. MaxSessions /\ created \in 0 .. MaxTransports /\ name \in Name
    BY BoundsAssumption DEF Init, Name
  <2>4. /\ alive \subseteq 1 .. created /\ linked \subseteq alive /\ data \subseteq {"chat", "bot"}
        /\ restarting \in BOOLEAN /\ overlapped \in BOOLEAN /\ peer = NewPeer
    BY DEF Init
  <2> QED BY <1>1, <1>2, <1>3, <2>1, <2>2, <2>3, <2>4 DEF TypeOK, WireMessage
<1>5. QuietSound /\ KindsApart /\ NameSound /\ ConnectedIsJoined
  <2>1. 0 \in 0 .. created
    BY DEF Init
  <2> QED BY <1>1, <1>2, <2>1 DEF QuietSound, KindsApart, NameSound, ConnectedIsJoined
<1>6. Alone /\ TransportsAreReachable
  <2>1. Single(calls) /\ AloneData
    BY <1>1, <1>2 DEF Single, AloneData, Pending
  <2> QED BY <1>1, <1>2, <2>1 DEF Alone, TransportsAreReachable, Init
<1> QED BY <1>2, <1>4, <1>5, <1>6 DEF Joining

LEMMA JoinJoining == Joining /\ Join => Joining'
<1> SUFFICES ASSUME Joining, Join  PROVE Joining'
  OBVIOUS
<1>1. TypeOK'
  BY DEF Joining, TypeOK, Join
<1>2. QuietSound' /\ KindsApart' /\ NameSound' /\ ConnectedIsJoined'
  BY NameIdle DEF Joining, Join, QuietSound, KindsApart, ConnectedIsJoined, Pending,
                  ForSending, ForReceiving
<1>3. Alone' /\ TransportsAreReachable'
  BY DEF Joining, Join, Alone, AloneData, AloneSound, TransportsAreReachable, Pending
<1>4. \A k \in Pending' : CallSound(k)'
  BY DEF Joining, Join, CallSound, Staged, ForSending, ForReceiving, Pending
<1> QED BY <1>1, <1>2, <1>3, <1>4 DEF Joining

LEMMA OpenJoining == Joining /\ Open => Joining'
<1> SUFFICES ASSUME Joining, Open  PROVE Joining'
  OBVIOUS
<1> USE DEF Joining
<1> PICK a : a = Started("join", "device", 0)
  OBVIOUS
<1>1. /\ ws = "connecting" /\ session < MaxSessions /\ ws' = "open"
      /\ session' = session + 1 /\ calls' = BagAdd(calls, a)
      /\ overlapped' = (overlapped \/ Running("join")) /\ wire' = <<>> /\ peer' = NewPeer
      /\ room' = room /\ restarting' = restarting /\ name' = name /\ slot' = slot
      /\ alive' = alive /\ linked' = linked /\ data' = data /\ created' = created
  BY DEF Open, client
<1>2. a.run = "join" /\ a.at = "device" /\ a.in = 0 /\ a.answered = FALSE /\ a.on = 0
  BY DEF Started
<1>3. slot["send"] = 0 /\ slot["recv"] = 0 /\ room # "connected"
  BY <1>1 DEF QuietSound
<1>4. /\ IsABag(calls') /\ Pending' = Pending \cup {a}
      /\ Single(calls) /\ (\A x \in Pending : x.run # "join") => Single(calls')
  <2>1. IsABag(calls)
    BY DEF TypeOK
  <2> QED BY <1>1, <2>1, Began
<1>5. session \in Nat /\ created \in Nat /\ session' \in 0 .. MaxSessions
  <2>1. session \in 0 .. MaxSessions
    BY DEF TypeOK
  <2> QED BY <1>1, <2>1, Counters, BoundsAssumption
<1>6. TypeOK'
  <2>1. a \in Call
    BY BoundsAssumption DEF Call, Started, Local, Run
  <2>2. BagToSet(calls') \subseteq Call
    BY <1>4, <2>1, CallTypes DEF Pending, BagToSet
  <2>3. wire' \in Seq(WireMessage)
    BY <1>1, EmptySeq
  <2>4. NewPeer \in [joined: BOOLEAN, name: Name, transports: SUBSET (1 .. created),
                     connected: SUBSET (1 .. created), data: SUBSET {"chat", "bot"}]
    BY BoundsAssumption DEF NewPeer, Name
  <2>5. overlapped' \in BOOLEAN
    BY <1>1 DEF TypeOK, Running
  <2> QED BY <1>1, <1>4, <1>5, <2>2, <2>3, <2>4, <2>5 DEF TypeOK, WireMessage
<1>7. QuietSound' /\ ConnectedIsJoined' /\ NameSound'
  BY <1>1, <1>3, NameQuiet DEF QuietSound, ConnectedIsJoined, NewPeer
<1>8. \A x \in Pending' : CallSound(x)'
  <2>1. ASSUME NEW x \in Pending  PROVE CallSound(x)'
    <3>1. x.in <= session' /\ x.in # session' /\ CallSound(x)
      BY <1>1, <1>5, CallTypes DEF CallSound
    <3> QED BY <1>1, <3>1 DEF CallSound, Staged, ForSending, ForReceiving
  <2>2. CallSound(a)'
    <3>1. a.in <= session' /\ a.in # session' /\ a.on <= created'
      BY <1>1, <1>2, <1>5
    <3> QED BY <1>2, <3>1 DEF CallSound, Staged, ForSending, ForReceiving, DataRun
  <2> QED BY <1>4, <2>1, <2>2
<1>9. KindsApart'
  <2>1. ~ForSending(a) /\ ~ForReceiving(a)
    BY <1>2 DEF ForSending, ForReceiving, DataRun
  <2> QED BY <1>1, <1>4, <2>1 DEF KindsApart, ForSending, ForReceiving
<1>10. Alone' /\ TransportsAreReachable'
  <2> SUFFICES ASSUME ~overlapped, \A x \in Pending : x.run # "join"
               PROVE  Single(calls') /\ AloneData' /\ (\A x \in Pending' : AloneSound(x)')
                      /\ TransportsAreReachable'
    <3>1. ~overlapped' => ~overlapped /\ \A x \in Pending : x.run # "join"
      BY <1>1 DEF Running, Pending, BagToSet
    <3> QED BY <3>1 DEF Alone, TransportsAreReachable
  <2>1. Single(calls') /\ AloneData'
    BY <1>1, <1>4 DEF Alone, AloneData
  <2>2. AloneSound(a)'
    BY <1>1, <1>2, <1>3 DEF AloneSound, DataRun
  <2>3. ASSUME NEW x \in Pending  PROVE AloneSound(x)'
    <3>1. x.in # session' /\ AloneSound(x)
      BY <1>1, <1>5, CallTypes DEF CallSound, Alone
    <3> QED BY <1>1, <3>1 DEF AloneSound
  <2>4. alive = {} /\ linked = {}
    BY <1>3 DEF TransportsAreReachable, TypeOK
  <2> QED BY <1>1, <1>3, <1>4, <2>1, <2>2, <2>3, <2>4 DEF TransportsAreReachable
<1> QED BY <1>6, <1>7, <1>8, <1>9, <1>10

\* The tail of a _joinRoom() begins with both DataProducers of the transport that
\* is in the slot, which is not closed.
LEMMA JoinedJoining ==
  ASSUME Joining, NEW k \in Pending, Joined(k)
  PROVE  Joining'
<1> USE DEF Joining
<1> PICK d : d = Without(k)
  OBVIOUS
<1> PICK a : a = Started("chat", "queue", slot["send"])
  OBVIOUS
<1> PICK b : b = Started("bot", "queue", slot["send"])
  OBVIOUS
<1> PICK e : e = BagAdd(d, a)
  OBVIOUS
<1>1. /\ k.run = "join" /\ k.at = "join" /\ k.answered /\ k.in = session /\ ws = "open"
      /\ room' = "connected" /\ calls' = BagAdd(e, b)
      /\ UNCHANGED <<ws, session, restarting, name, slot, alive, linked, data, wire, peer,
                     created, overlapped>>
  BY DEF Joined, Answered, At, Resolves
<1>2. /\ a.run = "chat" /\ a.at = "queue" /\ a.in = 0 /\ a.answered = FALSE
      /\ a.on = slot["send"]
      /\ b.run = "bot" /\ b.at = "queue" /\ b.in = 0 /\ b.answered = FALSE
      /\ b.on = slot["send"]
  BY DEF Started
<1>3. /\ slot["send"] \in alive /\ slot["send"] \in 1 .. created /\ peer.joined
      /\ slot["send"] # slot["recv"]
  <2>1. slot["send"] \in alive /\ peer.joined
    BY <1>1 DEF CallSound
  <2>2. slot["send"] \in 1 .. created
    BY <2>1 DEF TypeOK
  <2> QED BY <2>1, <2>2 DEF KindsApart
<1>4. /\ IsABag(calls') /\ \A x \in Pending' : x \in Pending \/ x = a \/ x = b
      /\ Single(calls) => Single(calls')
  <2>1. IsABag(calls)
    BY DEF TypeOK
  <2>2. /\ IsABag(d) /\ DOMAIN d \subseteq DOMAIN calls
        /\ \A x \in DOMAIN calls : x # k => x \in DOMAIN d /\ d[x] = calls[x]
        /\ calls[k] = 1 => k \notin DOMAIN d
    BY <2>1, CallRemoved DEF Pending, Without
  <2>3. /\ IsABag(e) /\ DOMAIN e = DOMAIN d \cup {a}
        /\ \A x \in DOMAIN d : x # a => e[x] = d[x]
    <3>1. IsABag(d)
      BY <2>2
    <3> QED BY ONLY <3>1, e = BagAdd(d, a), CallAdded
  <2>4. /\ IsABag(calls') /\ DOMAIN calls' = DOMAIN e \cup {b}
        /\ \A x \in DOMAIN e : x # b => calls'[x] = e[x]
    <3>1. IsABag(e) /\ calls' = BagAdd(e, b)
      BY <1>1, <2>3
    <3> QED BY ONLY <3>1, CallAdded
  <2>5. ASSUME Single(calls)  PROVE Single(calls')
    <3>1. calls[k] = 1
      BY <1>1, <2>5 DEF Single, Pending
    <3>2. \A x \in DOMAIN calls' : x.run = "join" =>
            x \in DOMAIN calls /\ calls'[x] = calls[x]
      BY <1>2, <2>2, <2>3, <2>4, <3>1
    <3> QED BY <2>5, <3>2 DEF Single
  <2> QED BY <2>2, <2>3, <2>4, <2>5 DEF Pending
<1>5. TypeOK'
  <2>1. slot["send"] \in Transport \cup {0}
    BY DEF TypeOK
  <2>2. a \in Call /\ b \in Call
    BY <2>1, BoundsAssumption DEF Call, Started, Local, Run, DataRun
  <2>3. BagToSet(calls') \subseteq Call
    BY <1>4, <2>2, CallTypes DEF Pending, BagToSet
  <2> QED BY <1>1, <1>4, <2>3 DEF TypeOK
<1>6. QuietSound' /\ ConnectedIsJoined' /\ NameSound' /\ TransportsAreReachable'
  BY <1>1, <1>3, NameIdle DEF QuietSound, ConnectedIsJoined, TransportsAreReachable
<1>7. \A x \in Pending' : CallSound(x)'
  <2>1. ASSUME NEW x \in Pending  PROVE CallSound(x)'
    BY <1>1, CallTypes, Counters, CallFrame
  <2>2. ASSUME NEW x, x = a \/ x = b  PROVE CallSound(x)'
    <3>1. x.in <= session /\ x.on <= created /\ x.on # 0 /\ x.on \in alive
      BY <1>2, <1>3, <2>2, Counters
    <3> QED BY <1>1, <1>2, <2>2, <3>1 DEF CallSound, Staged, ForSending, ForReceiving, DataRun
  <2> QED BY <1>4, <2>1, <2>2
<1>8. KindsApart'
  <2>1. ~ForReceiving(a) /\ ~ForReceiving(b)
    BY <1>2 DEF ForReceiving
  <2> QED BY <1>1, <1>2, <1>3, <1>4, <2>1 DEF KindsApart, ForSending, ForReceiving
<1>9. Alone'
  <2>1. AloneSound(a) /\ AloneSound(b)
    BY <1>2 DEF AloneSound
  <2> QED BY <1>1, <1>4, <2>1 DEF Alone, AloneData, AloneSound
<1> QED BY <1>5, <1>6, <1>7, <1>8, <1>9

LEMMA RestartIceJoining == Joining /\ RestartIce => Joining'
<1> SUFFICES ASSUME Joining, RestartIce  PROVE Joining'
  OBVIOUS
<1> USE DEF Joining
<1> PICK k : k = [Started("ice", "iceSend", 0) EXCEPT !.in = session]
  OBVIOUS
<1> PICK m : m = Message(k, "iceSend", slot["send"])
  OBVIOUS
<1>1. /\ ws = "open" /\ restarting' = TRUE /\ wire' = Append(wire, m)
      /\ calls' = BagAdd(calls, k)
      /\ UNCHANGED <<ws, session, room, name, slot, alive, linked, data, peer, created,
                     overlapped>>
  BY DEF RestartIce
<1>2. k.run = "ice" /\ k.at = "iceSend" /\ k.in = session /\ k.answered = FALSE /\ k.on = 0
  BY DEF Started
<1>3. /\ m.run = "ice" /\ m.what = "iceSend" /\ m.name = name /\ m \in WireMessage
  BY <1>2 DEF TypeOK, Message, WireMessage, Request, Run
<1>4. /\ IsABag(calls') /\ Pending' = Pending \cup {k}
      /\ Single(calls) => Single(calls')
  <2>1. IsABag(calls)
    BY DEF TypeOK
  <2> QED BY <1>1, <1>2, <2>1, Began
<1>5. /\ wire' \in Seq(WireMessage) /\ Len(wire) \in Nat /\ Len(wire') = Len(wire) + 1
      /\ \A i \in 1 .. Len(wire) : wire'[i] = wire[i]
      /\ wire'[Len(wire) + 1] = m
  BY <1>1, <1>3, WireAppended
<1>6. TypeOK'
  <2>1. session \in 0 .. MaxSessions
    BY DEF TypeOK
  <2>2. k \in Call
    BY <2>1 DEF Call, Started, Request, Run
  <2>3. BagToSet(calls') \subseteq Call
    BY <1>4, <2>2, CallTypes DEF Pending, BagToSet
  <2> QED BY <1>1, <1>4, <1>5, <2>3 DEF TypeOK, WireMessage
<1>7. QuietSound' /\ ConnectedIsJoined' /\ NameSound' /\ TransportsAreReachable'
  BY <1>1, <1>3, NameKept DEF QuietSound, ConnectedIsJoined, TransportsAreReachable
<1>8. \A x \in Pending' : CallSound(x)'
  <2>1. ASSUME NEW x \in Pending  PROVE CallSound(x)'
    BY <1>1, CallTypes, Counters, CallFrame
  <2>2. CallSound(k)'
    <3>1. k.in <= session' /\ k.on <= created'
      BY <1>1, <1>2, Counters
    <3> QED BY <1>1, <1>2, <3>1 DEF CallSound, Staged, ForSending, ForReceiving, DataRun
  <2> QED BY <1>4, <2>1, <2>2
<1>9. KindsApart'
  <2>1. ~ForSending(k) /\ ~ForReceiving(k)
    BY <1>2 DEF ForSending, ForReceiving, DataRun
  <2>2. \A x \in Pending' : ForSending(x) \/ ForReceiving(x) => x \in Pending
    BY <1>4, <2>1
  <2> QED BY <1>1, <2>2 DEF KindsApart, ForSending, ForReceiving
<1>10. Alone'
  <2> SUFFICES ASSUME ~overlapped
               PROVE  Single(calls') /\ AloneData' /\ \A x \in Pending' : AloneSound(x)'
    BY <1>1 DEF Alone
  <2>1. AloneData'
    BY <1>1, <1>3, <1>5 DEF AloneData, Alone, DataRun
  <2>2. AloneSound(k)
    BY <1>2 DEF AloneSound, DataRun
  <2>3. \A x \in Pending' : AloneSound(x)'
    BY <1>1, <1>4, <2>2 DEF AloneSound, Alone
  <2> QED BY <1>4, <2>1, <2>3 DEF Alone
<1> QED BY <1>6, <1>7, <1>8, <1>9, <1>10

\* A name that is changed while a message is under way outdates what that one says,
\* and follows it.
LEMMA NameChanges ==
  ASSUME Joining, NEW m \in WireMessage, m.what = "name", m.run \notin DataRun, m.name = name',
         name' \in Name, ws = "open" => wire' = Append(wire, m), ws # "open" => wire' = wire,
         UNCHANGED <<ws, session, room, restarting, calls, slot, alive, linked, data, peer,
                     created, overlapped>>
  PROVE  Joining'
<1> USE DEF Joining
<1>1. /\ ws = "open" => wire' = Append(wire, m)
      /\ ws # "open" => wire' = wire
      /\ UNCHANGED <<ws, session, room, restarting, calls, slot, alive, linked, data, peer,
                     created, overlapped>>
  OBVIOUS
<1>2. m.what = "name" /\ m.run \notin DataRun /\ m.name = name'
  OBVIOUS
<1>3. name' \in Name /\ m \in WireMessage
  OBVIOUS
<1>4. ws = "open" =>
        /\ wire' \in Seq(WireMessage) /\ Len(wire) \in Nat /\ Len(wire') = Len(wire) + 1
        /\ \A i \in 1 .. Len(wire) : wire'[i] = wire[i]
        /\ wire'[Len(wire) + 1] = m /\ wire' # <<>>
  BY <1>1, <1>3, WireAppended
<1>5. wire \in Seq(WireMessage)
  BY DEF TypeOK, WireMessage
<1>6. TypeOK'
  <2>1. wire' \in Seq(WireMessage)
    BY <1>1, <1>4, <1>5
  <2> QED BY <1>1, <1>3, <2>1 DEF TypeOK, WireMessage
<1>7. QuietSound' /\ ConnectedIsJoined' /\ KindsApart' /\ TransportsAreReachable'
  BY <1>1 DEF QuietSound, ConnectedIsJoined, TransportsAreReachable, KindsApart, Pending,
              ForSending, ForReceiving
<1>8. NameSound'
  <2>1. CASE ws = "open"
    <3> PICK n : n = Len(wire')
      OBVIOUS
    <3>1. n \in Nat /\ n \in 1 .. n /\ wire'[n] = m
      BY ONLY <1>4, <2>1, n = Len(wire')
    <3>2. ASSUME NEW i \in 1 .. n, \A j \in i + 1 .. n : wire'[j].what # "name"
          PROVE  wire'[i].name = name'
      <4>1. i = n
        BY ONLY <1>2, <3>1, <3>2
      <4> QED BY <1>2, <3>1, <4>1
    <3>3. ~\A j \in 1 .. n : wire'[j].what # "name"
      BY ONLY <1>2, <3>1
    <3> QED BY <3>2, <3>3 DEF NameSound
  <2>2. CASE ws # "open"
    <3>1. wire' = <<>> /\ Len(wire') = 0
      BY <1>1, <2>2 DEF QuietSound
    <3> QED BY <1>1, <2>2, <3>1 DEF NameSound
  <2> QED BY <2>1, <2>2
<1>9. \A x \in Pending' : CallSound(x)'
  BY <1>1 DEF CallSound, Staged, ForSending, ForReceiving, Pending
<1>10. Alone'
  <2> SUFFICES ASSUME ~overlapped
               PROVE  Single(calls') /\ AloneData' /\ \A x \in Pending' : AloneSound(x)'
    BY <1>1 DEF Alone
  <2>1. AloneData'
    BY <1>1, <1>2, <1>4 DEF AloneData, Alone
  <2>2. Single(calls') /\ \A x \in Pending' : AloneSound(x)'
    BY <1>1 DEF Alone, AloneSound, Pending
  <2> QED BY <2>1, <2>2
<1> QED BY <1>6, <1>7, <1>8, <1>9, <1>10

LEMMA ChangeDisplayNameJoining == Joining /\ ChangeDisplayName => Joining'
<1> SUFFICES ASSUME Joining, ChangeDisplayName  PROVE Joining'
  OBVIOUS
<1> PICK m : m = [what |-> "name", run |-> "", on |-> 0, name |-> name']
  OBVIOUS
<1>1. /\ name < MaxNames /\ name' = name + 1
      /\ ws = "open" => wire' = Append(wire, m)
      /\ ws # "open" => wire' = wire
      /\ UNCHANGED <<ws, session, room, restarting, calls, slot, alive, linked, data, peer,
                     created, overlapped>>
  BY DEF ChangeDisplayName
<1>2. name' \in Name
  <2>1. name \in Nat
    BY Counters DEF Joining
  <2> QED BY ONLY <1>1, <2>1, BoundsAssumption DEF Name
<1>3. m.what = "name" /\ m.run = "" /\ m.name = name' /\ m \in WireMessage
  BY <1>2 DEF WireMessage
<1>4. m.run \notin DataRun
  BY ONLY <1>3 DEF DataRun
<1> QED BY <1>1, <1>2, <1>3, <1>4, NameChanges

-----------------------------------------------------------------------------
(* What the server's Peer does.                                            *)

PeerOf(n) ==
  [joined: BOOLEAN, name: Name, transports: SUBSET (1 .. n), connected: SUBSET (1 .. n),
   data: SUBSET {"chat", "bot"}]

\* A message is read: the Peer has the name of it, or the one it had.
LEMMA NameTaken ==
  ASSUME TypeOK, NameSound, wire # <<>>, wire' = Tail(wire), name' = name, ws' = ws,
         \/ Head(wire).what # "name" /\ peer'.joined = peer.joined /\ peer'.name = peer.name
         \/ ~peer'.joined
         \/ peer'.name = Head(wire).name
  PROVE  NameSound'
<1>1. /\ Len(wire) \in Nat /\ Len(wire') = Len(wire) - 1 /\ Len(wire) >= 1
      /\ Head(wire) = wire[1]
      /\ \A i \in 1 .. Len(wire') : wire'[i] = wire[i + 1]
  BY WireTaken
<1>2. ASSUME NEW i \in 1 .. Len(wire) - 1,
             \A j \in i + 1 .. Len(wire) - 1 : wire[j + 1].what # "name"
      PROVE  wire[i + 1].name = name
  <2>1. ASSUME NEW j \in (i + 1) + 1 .. Len(wire)  PROVE wire[j].what # "name"
    <3>1. j - 1 \in i + 1 .. Len(wire) - 1 /\ (j - 1) + 1 = j
      BY <1>1, <2>1
    <3> QED BY <1>2, <3>1
  <2>2. i + 1 \in 1 .. Len(wire)
    BY <1>1
  <2> QED BY <2>1, <2>2 DEF NameSound
<1>3. ASSUME \A j \in 1 .. Len(wire) - 1 : wire[j + 1].what # "name"
      PROVE  \A j \in 2 .. Len(wire) : wire[j].what # "name"
  <2> TAKE j \in 2 .. Len(wire)
  <2>1. j - 1 \in 1 .. Len(wire) - 1 /\ (j - 1) + 1 = j
    BY <1>1
  <2> QED BY <1>3, <2>1
<1>4. ASSUME NEW i \in 1 .. Len(wire'),
             \A j \in i + 1 .. Len(wire') : wire'[j].what # "name"
      PROVE  wire'[i].name = name'
  <2>1. i \in 1 .. Len(wire) - 1 /\ \A j \in i + 1 .. Len(wire) - 1 : j \in 1 .. Len(wire')
    BY <1>1, <1>4
  <2>2. \A j \in i + 1 .. Len(wire) - 1 : wire[j + 1].what # "name"
    BY <1>1, <1>4, <2>1
  <2> QED BY <1>1, <1>2, <2>1, <2>2
<1>5. ASSUME ws = "open", peer'.joined, \A j \in 1 .. Len(wire') : wire'[j].what # "name"
      PROVE  peer'.name = name'
  <2>1. \A j \in 1 .. Len(wire) - 1 : wire[j + 1].what # "name"
    BY <1>1, <1>5
  <2>2. \A j \in 2 .. Len(wire) : wire[j].what # "name"
    BY <1>3, <2>1
  <2>3. wire[1].name = name
    <3>1. 1 \in 1 .. Len(wire) /\ 1 + 1 = 2
      BY <1>1
    <3> QED BY <2>2, <3>1 DEF NameSound
  <2>4. CASE Head(wire).what # "name" /\ peer'.joined = peer.joined /\ peer'.name = peer.name
    <3>1. \A j \in 1 .. Len(wire) : j = 1 \/ j \in 2 .. Len(wire)
      BY <1>1
    <3>2. \A j \in 1 .. Len(wire) : wire[j].what # "name"
      BY <1>1, <2>2, <2>4, <3>1
    <3> QED BY <1>5, <2>4, <3>2 DEF NameSound
  <2> QED BY <1>1, <1>5, <2>3, <2>4
<1> QED BY <1>4, <1>5 DEF NameSound

\* Another message is read, and no call has an answer.
LEMMA MessageRead ==
  ASSUME Joining, wire # <<>>, wire' = Tail(wire), ws = "open", NameSound', peer' \in PeerOf(created),
         peer'.transports = peer.transports, peer'.joined = peer.joined,
         peer'.connected = peer.connected,
         UNCHANGED <<ws, session, client, calls, created, overlapped>>
  PROVE  Joining'
<1> USE DEF Joining
<1>1. /\ wire' \in Seq(WireMessage) /\ Len(wire) \in Nat /\ Len(wire') = Len(wire) - 1
      /\ \A i \in 1 .. Len(wire') : wire'[i] = wire[i + 1]
  BY WireTaken
<1>2. UNCHANGED <<room, restarting, name, slot, alive, linked, data>>
  BY DEF client
<1>3. TypeOK'
  BY <1>1, <1>2 DEF TypeOK, WireMessage, PeerOf
<1>4. QuietSound' /\ ConnectedIsJoined' /\ KindsApart' /\ TransportsAreReachable'
  BY <1>2 DEF QuietSound, ConnectedIsJoined, KindsApart, TransportsAreReachable, Pending,
              ForSending, ForReceiving
<1>5. \A x \in Pending' : CallSound(x)'
  BY <1>2 DEF CallSound, Staged, ForSending, ForReceiving, Pending
<1>6. Alone'
  <2>1. AloneData => AloneData'
    BY <1>1, <1>2 DEF AloneData
  <2> QED BY <1>2, <2>1 DEF Alone, AloneSound, Pending
<1> QED BY <1>3, <1>4, <1>5, <1>6

\* A call has its answer: the transport that was created for it, if it asked for one.
LEMMA CallAnswered ==
  ASSUME Joining, NEW k \in Pending, NEW t \in Nat, Answer(k, t), k.in = session,
         ~k.answered, wire # <<>>, wire' = Tail(wire), ws = "open", NameSound',
         created' \in 0 .. MaxTransports, created <= created', peer' \in PeerOf(created'),
         peer.transports \subseteq peer'.transports, peer.joined => peer'.joined,
         peer.connected \subseteq peer'.connected, t <= created',
         k.run \in DataRun => t = k.on,
         k.run = "join" /\ k.at \in {"send", "recv"} =>
           created < t /\ t \in peer'.transports,
         k.run = "join" /\ k.at = "join" => peer'.joined,
         k.at = "connect" /\ ~overlapped => t \in peer'.connected,
         UNCHANGED <<ws, session, client, overlapped>>
  PROVE  Joining'
<1> USE DEF Joining
<1> PICK a : a = [k EXCEPT !.answered = TRUE, !.on = t]
  OBVIOUS
<1>1. /\ wire' \in Seq(WireMessage) /\ Len(wire) \in Nat /\ Len(wire') = Len(wire) - 1
      /\ \A i \in 1 .. Len(wire') : wire'[i] = wire[i + 1]
  BY WireTaken
<1>2. UNCHANGED <<room, restarting, name, slot, alive, linked, data>>
  BY DEF client
<1>3. created \in Nat /\ created' \in Nat /\ session \in Nat
  BY Counters, BoundsAssumption
<1>4. /\ a.run = k.run /\ a.at = k.at /\ a.in = session /\ a.answered = TRUE /\ a.on = t
      /\ a \in Call
  <2>1. k \in Call
    BY CallTypes
  <2>2. t \in Transport \cup {0}
    BY <1>3, BoundsAssumption DEF Transport
  <2> QED BY <2>1, <2>2 DEF Call
<1>5. /\ IsABag(calls') /\ \A x \in Pending' : x = a \/ x \in Pending
      /\ Single(calls) => Single(calls')
  <2>1. Becomes(k, a) /\ IsABag(calls)
    BY CallTypes DEF Answer
  <2> QED BY <1>4, <2>1, WentOn
<1>6. TypeOK'
  <2>1. BagToSet(calls') \subseteq Call
    BY <1>4, <1>5, CallTypes DEF Pending, BagToSet
  <2>2. alive' \subseteq 1 .. created'
    <3>1. alive \subseteq 1 .. created
      BY DEF TypeOK
    <3> QED BY <1>2, <1>3, <3>1
  <2> QED BY <1>1, <1>2, <1>5, <2>1, <2>2 DEF TypeOK, WireMessage, PeerOf
<1>7. QuietSound' /\ ConnectedIsJoined' /\ TransportsAreReachable'
  BY <1>2 DEF QuietSound, ConnectedIsJoined, TransportsAreReachable
<1>8. CallSound(k) /\ Staged(k)
  BY DEF CallSound
<1>9. /\ ForSending(a) /\ ~ForSending(k) => created < t
      /\ ForSending(a) /\ ForSending(k) => a.on = k.on
      /\ ForReceiving(a) => ~ForReceiving(k) /\ created < t
      /\ ForSending(a) => ~ForReceiving(a)
  BY <1>4 DEF ForSending, ForReceiving, DataRun
<1>10. \A x \in Pending' : CallSound(x)'
  <2>1. ASSUME NEW x \in Pending  PROVE CallSound(x)'
    <3>1. slot["send"] \in alive => slot'["send"] \in alive' /\ alive \subseteq alive'
      BY <1>2
    <3>2. CallSound(x) /\ x.on \in Nat /\ alive \subseteq alive'
      BY <1>2, CallTypes
    <3> QED BY <1>2, <1>3, <3>1, <3>2, CallFrame
  <2>2. CallSound(a)'
    <3>1. Staged(a) /\ a.in <= session /\ a.on <= created'
      BY <1>3, <1>4, <1>8 DEF Staged
    <3>2. ForSending(a) \/ ForReceiving(a) => a.on # 0
      BY <1>3, <1>4, <1>8, <1>9 DEF CallSound
    <3>3. a.run \in DataRun => a.on \in alive
      BY <1>4, <1>8 DEF CallSound
    <3>4. a.run = "join" => /\ a.at \in {"send", "recv"} => a.on \in peer'.transports
                            /\ a.at = "join" => peer'.joined
      BY <1>4
    <3>5. a.run = "join" /\ a.at \in {"recv", "join"} => slot["send"] \in alive
      BY <1>4, <1>8 DEF CallSound
    <3> QED BY <1>2, <3>1, <3>2, <3>3, <3>4, <3>5
            DEF CallSound, Staged, ForSending, ForReceiving
  <2> QED BY <1>5, <2>1, <2>2
<1>11. KindsApart'
  <2>1. slot["send"] \in 0 .. created /\ slot["recv"] \in 0 .. created
    BY DEF KindsApart
  <2>2. \A x \in Pending : x.on <= created /\ x.on \in Nat
    BY CallTypes DEF CallSound
  <2>3. ASSUME created < t
        PROVE  t # slot["send"] /\ t # slot["recv"] /\ \A x \in Pending : x.on # t
    BY <1>3, <2>1, <2>2, <2>3
  <2>4. ForSending(a) => /\ t # slot["recv"]
                         /\ \A x \in Pending : ForReceiving(x) => x.on # t
    BY <1>4, <1>9, <2>3 DEF KindsApart
  <2>5. ForReceiving(a) => /\ t # slot["send"]
                           /\ \A x \in Pending : ForSending(x) => x.on # t
    BY <1>9, <2>3
  <2>6. slot["send"] \in 0 .. created' /\ slot["recv"] \in 0 .. created'
    BY <1>3, <2>1
  <2>7. ASSUME NEW x \in Pending'
        PROVE  /\ ForSending(x) => x.on # slot["recv"]
               /\ ForReceiving(x) => x.on # slot["send"]
    BY <1>4, <1>5, <2>4, <2>5 DEF KindsApart
  <2>8. ASSUME NEW x \in Pending', NEW y \in Pending', ForSending(x), ForReceiving(y)
        PROVE  x.on # y.on
    BY <1>4, <1>5, <1>9, <2>4, <2>5, <2>8 DEF KindsApart
  <2> QED BY <1>2, <2>6, <2>7, <2>8 DEF KindsApart, ForSending, ForReceiving
<1>12. Alone'
  <2> SUFFICES ASSUME ~overlapped
               PROVE  Single(calls') /\ AloneData' /\ \A x \in Pending' : AloneSound(x)'
    BY DEF Alone
  <2>1. AloneData'
    BY <1>1, <1>2 DEF AloneData, Alone
  <2>2. AloneSound(a)'
    BY <1>2, <1>4 DEF AloneSound, Alone
  <2>3. ASSUME NEW x \in Pending  PROVE AloneSound(x)'
    BY <1>2 DEF AloneSound, Alone
  <2> QED BY <1>5, <2>1, <2>2, <2>3 DEF Alone
<1> QED BY <1>6, <1>7, <1>10, <1>11, <1>12

LEMMA HandleJoining == Joining /\ Handle => Joining'
<1> SUFFICES ASSUME Joining, Handle  PROVE Joining'
  OBVIOUS
<1> USE DEF Joining
<1> PICK m : m = Head(wire)
  OBVIOUS
<1>1. /\ ws = "open" /\ wire # <<>> /\ wire' = Tail(wire)
      /\ UNCHANGED <<ws, session, client, overlapped>>
      /\ \/ ChangedDisplayName(m)
         \/ \E k \in Pending : Asked(m, k) /\
              \/ GetRouterRtpCapabilities(m, k) \/ CreateWebRtcTransport(m, k)
              \/ JoinPeer(m, k) \/ ConnectWebRtcTransport(m, k)
              \/ ProduceDataAtServer(m, k) \/ RestartIceAtServer(m, k)
         \/ m.what # "name" /\ UNCHANGED <<calls, peer, created>>
  BY DEF Handle, Pending, BagToSet
<1>2. name' = name /\ ws' = ws /\ Head(wire) = m
  BY <1>1 DEF client
<1>3. m \in WireMessage /\ m.name \in Name /\ m.on \in Transport \cup {0} /\ m = wire[1]
      /\ 1 \in 1 .. Len(wire)
  <2>1. m \in WireMessage /\ m = wire[1] /\ 1 \in 1 .. Len(wire)
    BY <1>1, WireTaken
  <2> QED BY <2>1 DEF WireMessage
<1>4. /\ peer \in PeerOf(created) /\ created \in Nat /\ created \in 0 .. MaxTransports
      /\ session \in Nat
  <2>1. created \in 0 .. MaxTransports
    BY DEF TypeOK
  <2>2. peer \in PeerOf(created)
    BY DEF TypeOK, PeerOf
  <2> QED BY <2>1, <2>2, Counters
<1>5. /\ peer.joined \in BOOLEAN /\ peer.name \in Name /\ peer.transports \subseteq 1 .. created
      /\ peer.connected \subseteq 1 .. created /\ peer.data \subseteq {"chat", "bot"}
  BY <1>4 DEF PeerOf
<1>6. CASE ChangedDisplayName(m)
  <2>1. /\ peer' \in PeerOf(created) /\ peer'.joined = peer.joined
        /\ peer'.transports = peer.transports /\ peer'.connected = peer.connected
        /\ ~peer'.joined \/ peer'.name = m.name
        /\ UNCHANGED <<calls, created>>
    BY <1>3, <1>4, <1>6 DEF ChangedDisplayName, PeerOf
  <2>2. NameSound'
    BY <1>1, <1>2, <2>1, NameTaken
  <2> QED BY <1>1, <2>1, <2>2, MessageRead
<1>7. CASE m.what # "name" /\ UNCHANGED <<calls, peer, created>>
  <2>1. NameSound'
    BY <1>1, <1>2, <1>7, NameTaken
  <2> QED BY <1>1, <1>4, <1>7, <2>1, MessageRead
<1>8. ASSUME NEW k \in Pending, Asked(m, k)
      PROVE  /\ k.run = m.run /\ k.at = m.what /\ k.in = session /\ ~k.answered
             /\ Staged(k) /\ k.on \in Nat /\ k.on <= created
             /\ k.run \in {"join", "chat", "bot", "ice"}
  BY <1>8, CallTypes DEF Asked, CallSound
<1>9. ASSUME NEW k \in Pending, Asked(m, k),
             GetRouterRtpCapabilities(m, k) \/ RestartIceAtServer(m, k)
      PROVE  Joining'
  <2>1. /\ k.at \in {"capabilities", "iceSend", "iceRecv"} /\ Answer(k, 0)
        /\ UNCHANGED <<peer, created>> /\ m.what # "name" /\ k.at \notin {"send", "recv", "join", "connect"}
    BY <1>8, <1>9 DEF GetRouterRtpCapabilities, RestartIceAtServer
  <2>2. k.run \notin DataRun
    BY <1>8, <1>9, <2>1 DEF Staged
  <2>3. NameSound'
    BY <1>1, <1>2, <2>1, NameTaken
  <2> QED BY <1>1, <1>4, <1>8, <1>9, <2>1, <2>2, <2>3, CallAnswered
<1>10. ASSUME NEW k \in Pending, Asked(m, k), CreateWebRtcTransport(m, k)  PROVE Joining'
  <2> PICK t : t = created + 1
    OBVIOUS
  <2>1. /\ created < MaxTransports /\ created' = t /\ Answer(k, t)
        /\ peer' = [peer EXCEPT !.transports = @ \cup {t}]
        /\ k.at \in {"send", "recv"} /\ m.what # "name" /\ k.at \notin {"join", "connect"}
    BY <1>8, <1>10 DEF CreateWebRtcTransport
  <2>2. k.run \notin DataRun
    BY <1>8, <1>10, <2>1 DEF Staged
  <2>3. t \in Nat /\ created < t /\ created <= created' /\ t <= created'
        /\ created' \in 0 .. MaxTransports
    BY <1>4, <2>1, BoundsAssumption
  <2>4. /\ peer' \in PeerOf(created') /\ peer'.joined = peer.joined /\ peer'.name = peer.name
        /\ peer'.connected = peer.connected /\ peer'.transports = peer.transports \cup {t}
    <3>1. peer.transports \cup {t} \subseteq 1 .. t /\ peer.connected \subseteq 1 .. t
      BY <1>4, <1>5, <2>1
    <3> QED BY <1>4, <2>1, <3>1 DEF PeerOf
  <2>5. NameSound'
    BY <1>1, <1>2, <2>1, <2>4, NameTaken
  <2> QED BY <1>1, <1>8, <1>10, <2>1, <2>2, <2>3, <2>4, <2>5, CallAnswered
<1>11. ASSUME NEW k \in Pending, Asked(m, k), JoinPeer(m, k)  PROVE Joining'
  <2>1. /\ Answer(k, 0) /\ created' = created /\ k.at = "join"
        /\ peer' = [peer EXCEPT !.joined = TRUE, !.name = m.name]
    BY <1>8, <1>11 DEF JoinPeer
  <2>2. k.run \notin DataRun
    BY <1>8, <1>11, <2>1 DEF Staged
  <2>3. /\ peer' \in PeerOf(created) /\ peer'.joined /\ peer'.name = m.name
        /\ peer'.connected = peer.connected /\ peer'.transports = peer.transports
    BY <1>3, <1>4, <2>1 DEF PeerOf
  <2>4. NameSound'
    BY <1>1, <1>2, <2>3, NameTaken
  <2> QED BY <1>1, <1>4, <1>8, <1>11, <2>1, <2>2, <2>3, <2>4, CallAnswered
<1>12. ASSUME NEW k \in Pending, Asked(m, k), ConnectWebRtcTransport(m, k)  PROVE Joining'
  <2> PICK t : t = k.on
    OBVIOUS
  <2>1. /\ Answer(k, t) /\ created' = created /\ k.at = "connect"
        /\ m.on \in peer.transports /\ m.what # "name"
        /\ peer' = [peer EXCEPT !.connected = @ \cup {m.on}]
    BY <1>8, <1>12 DEF ConnectWebRtcTransport, Found
  <2>2. k.run \in DataRun
    BY <1>8, <1>12, <2>1 DEF Staged, DataRun
  <2>3. ~overlapped => k.on = m.on
    BY <1>3, <1>8, <1>12, <2>2 DEF Alone, AloneSound, AloneData
  <2>4. /\ peer' \in PeerOf(created) /\ peer'.joined = peer.joined /\ peer'.name = peer.name
        /\ peer'.connected = peer.connected \cup {m.on}
        /\ peer'.transports = peer.transports
    <3>1. peer.connected \cup {m.on} \subseteq 1 .. created
      BY <1>5, <2>1
    <3> QED BY <1>4, <2>1, <3>1 DEF PeerOf
  <2>5. NameSound'
    BY <1>1, <1>2, <2>1, <2>4, NameTaken
  <2>6. k.run # "join"
    BY <2>2 DEF DataRun
  <2>7. /\ t \in Nat /\ t <= created' /\ created <= created' /\ k.in = session /\ ~k.answered
        /\ created' \in 0 .. MaxTransports /\ peer' \in PeerOf(created')
        /\ peer.transports \subseteq peer'.transports /\ peer.connected \subseteq peer'.connected
        /\ peer.joined => peer'.joined
        /\ ~overlapped => t \in peer'.connected
    BY <1>4, <1>8, <1>12, <2>1, <2>3, <2>4
  <2> QED BY <1>1, <2>1, <2>5, <2>6, <2>7, CallAnswered
<1>13. ASSUME NEW k \in Pending, Asked(m, k), ProduceDataAtServer(m, k)  PROVE Joining'
  <2> PICK t : t = k.on
    OBVIOUS
  <2>1. /\ Answer(k, t) /\ created' = created /\ k.at = "data" /\ m.what # "name"
        /\ m.run = k.run /\ peer' = [peer EXCEPT !.data = @ \cup {m.run}]
    BY <1>8, <1>13 DEF ProduceDataAtServer
  <2>2. k.run \in DataRun /\ k.run # "join" /\ k.run \in {"chat", "bot"}
    BY <1>8, <1>13, <2>1 DEF Staged, DataRun
  <2>3. /\ peer' \in PeerOf(created) /\ peer'.joined = peer.joined /\ peer'.name = peer.name
        /\ peer'.connected = peer.connected /\ peer'.transports = peer.transports
    BY <1>4, <2>1, <2>2 DEF PeerOf
  <2>4. NameSound'
    BY <1>1, <1>2, <2>1, <2>3, NameTaken
  <2>5. /\ t \in Nat /\ t <= created' /\ created <= created' /\ k.in = session /\ ~k.answered
        /\ created' \in 0 .. MaxTransports /\ peer' \in PeerOf(created')
        /\ peer.transports \subseteq peer'.transports /\ peer.connected \subseteq peer'.connected
        /\ peer.joined => peer'.joined
    BY <1>4, <1>8, <1>13, <2>1, <2>3
  <2>6. k.at # "connect"
    BY <2>1
  <2> QED BY <1>1, <2>1, <2>2, <2>4, <2>5, <2>6, CallAnswered
<1> QED BY <1>1, <1>6, <1>7, <1>9, <1>10, <1>11, <1>12, <1>13

-----------------------------------------------------------------------------
(* What is awaited settles.                                                *)

LEMMA CapabilitiesKnownJoining ==
  ASSUME Joining, NEW k \in Pending, CapabilitiesKnown(k)
  PROVE  Joining'
<1> USE DEF Joining
<1> PICK a : a = Started("join", "mic", 0)
  OBVIOUS
<1>1. /\ k.run = "join" /\ k.at = "capabilities" /\ Becomes(k, a)
      /\ UNCHANGED <<ws, session, room, restarting, name, slot, alive, linked, data, wire,
                     peer, created, overlapped>>
  BY DEF CapabilitiesKnown, Answered, At, client
<1>2. a.run = "join" /\ a.at = "mic" /\ a.in = 0 /\ a.answered = FALSE /\ a.on = 0
  BY DEF Started
<1>3. /\ IsABag(calls') /\ \A x \in Pending' : x = a \/ x \in Pending
      /\ Single(calls) => Single(calls')
  BY <1>1, <1>2, CallTypes, WentOn
<1>4. TypeOK'
  <2>1. a \in Call
    BY BoundsAssumption DEF Call, Started, Local, Run
  <2>2. BagToSet(calls') \subseteq Call
    BY <1>3, <2>1, CallTypes DEF Pending, BagToSet
  <2> QED BY <1>1, <1>3, <2>2 DEF TypeOK
<1>5. QuietSound' /\ ConnectedIsJoined' /\ NameSound' /\ TransportsAreReachable'
  BY <1>1, NameIdle DEF QuietSound, ConnectedIsJoined, TransportsAreReachable
<1>6. \A x \in Pending' : CallSound(x)'
  <2>1. ASSUME NEW x \in Pending  PROVE CallSound(x)'
    BY <1>1, CallTypes, Counters, CallFrame
  <2>2. CallSound(a)'
    <3>1. a.in <= session' /\ a.on <= created'
      BY <1>1, <1>2, Counters
    <3> QED BY <1>1, <1>2, <3>1 DEF CallSound, Staged, ForSending, ForReceiving, DataRun
  <2> QED BY <1>3, <2>1, <2>2
<1>7. KindsApart'
  <2>1. ~ForSending(a) /\ ~ForReceiving(a)
    BY <1>2 DEF ForSending, ForReceiving, DataRun
  <2>2. \A x \in Pending' : ForSending(x) \/ ForReceiving(x) => x \in Pending
    BY <1>3, <2>1
  <2> QED BY <1>1, <2>2 DEF KindsApart, ForSending, ForReceiving
<1>8. Alone'
  <2> SUFFICES ASSUME ~overlapped
               PROVE  Single(calls') /\ AloneData' /\ \A x \in Pending' : AloneSound(x)'
    BY <1>1 DEF Alone
  <2>1. AloneData' /\ Single(calls')
    BY <1>1, <1>3 DEF AloneData, Alone
  <2>2. AloneSound(a)'
    BY <1>1, <1>2 DEF AloneSound, Alone, DataRun
  <2>3. ASSUME NEW x \in Pending  PROVE AloneSound(x)'
    BY <1>1 DEF AloneSound, Alone
  <2> QED BY <1>3, <2>1, <2>2, <2>3
<1> QED BY <1>4, <1>5, <1>6, <1>7, <1>8

\* close() finds the transports of the latest WebSocket, if any.
LEMMA CloseJoining ==
  ASSUME Joining, NEW k \in Pending, Close(k)
  PROVE  Joining'
<1>1. CASE ws = "closed"
  <2>1. /\ Ends(k) /\ wire' = wire /\ restarting' \in BOOLEAN /\ data' \subseteq {"chat", "bot"}
        /\ UNCHANGED <<ws, session, room, name, slot, alive, linked, data, wire, peer, created,
                       overlapped>>
    BY <1>1 DEF Close, client, Joining, QuietSound, TypeOK
  <2> QED BY <2>1, CallOver
<1>2. CASE ws # "closed"
  <2> PICK left : left = Without(k)
    OBVIOUS
  <2>1. IsABag(left) /\ DOMAIN left \subseteq Pending /\ (Single(calls) => Single(left))
    <3>1. IsABag(calls)
      BY DEF Joining, TypeOK
    <3>2. /\ IsABag(left) /\ DOMAIN left \subseteq DOMAIN calls
          /\ \A x \in DOMAIN calls : x # k => x \in DOMAIN left /\ left[x] = calls[x]
          /\ calls[k] = 1 => k \notin DOMAIN left
      BY <3>1, CallRemoved DEF Pending, Without
    <3>3. Single(calls) => Single(left)
      BY <3>2 DEF Single, Pending
    <3> QED BY <3>2, <3>3 DEF Pending
  <2>2. /\ ws' \in {"connecting", "closed"} /\ wire' = <<>> /\ CloseTransports(left) /\ RoomClosed
        /\ UNCHANGED <<session, name, peer, created, overlapped>>
    BY <1>2 DEF Close
  <2> QED BY <2>1, <2>2, TransportsClosed
<1> QED BY <1>1, <1>2

LEMMA LostJoining == Joining /\ (Disconnected \/ ProtooClosed) => Joining'
<1> SUFFICES ASSUME Joining, Disconnected \/ ProtooClosed  PROVE Joining'
  OBVIOUS
<1>1. IsABag(calls) /\ DOMAIN calls \subseteq Pending
  BY DEF Joining, TypeOK, Pending
<1>2. /\ ws' \in {"connecting", "closed"} /\ wire' = <<>> /\ CloseTransports(calls) /\ RoomClosed
      /\ UNCHANGED <<session, name, peer, created, overlapped>>
  BY DEF Disconnected, ProtooClosed
<1> QED BY <1>1, <1>2, TransportsClosed

\* The next await of _joinRoom(), up to the transports.
LEMMA JoinRoomAsksJoining ==
  ASSUME Joining, NEW k \in Pending, DeviceCreated(k) \/ MicGranted(k)
  PROVE  Joining'
<1>1. PICK what \in {"capabilities", "send"} :
        /\ k.run = "join" /\ k.at \in {"device", "mic"} /\ Asks(k, what, 0)
        /\ UNCHANGED <<ws, session, room, restarting, name, slot, alive, linked, data, peer,
                       created, overlapped>>
  BY DEF DeviceCreated, MicGranted, At, client
<1>2. what \in Request /\ 0 \in Transport \cup {0} /\ k.run \notin DataRun /\ k.run # "ice"
  BY <1>1 DEF Request, DataRun
<1>3. /\ linked \subseteq linked' /\ linked' \subseteq alive
      /\ ~overlapped => linked' \subseteq peer.connected
  BY <1>1 DEF Joining, TypeOK, TransportsAreReachable
<1> QED BY <1>1, <1>2, <1>3, CallAsks

\* A DataProducer asks, about the transport that is in the slot.
LEMMA EnableDataAsksJoining ==
  ASSUME Joining, NEW k \in Pending, ProduceData(k) \/ TransportConnected(k)
  PROVE  Joining'
<1> PICK t : t = slot["send"]
  OBVIOUS
<1>1. PICK what \in {"connect", "data"} :
        /\ Asks(k, what, t) /\ t # 0 /\ k.run \in DataRun
        /\ linked' = linked \/ (linked' = linked \cup {k.on} /\ k.at = "connect" /\ k.answered
                                /\ k.in = session)
        /\ UNCHANGED <<ws, session, room, restarting, name, slot, alive, data, peer, created,
                       overlapped>>
  <2>1. CASE ProduceData(k)
    BY <2>1 DEF ProduceData, client
  <2>2. CASE TransportConnected(k)
    <3>1. k.at = "connect" /\ k.run \in {"join", "chat", "bot", "ice"} /\ Staged(k)
      BY <2>2, CallTypes DEF TransportConnected, Joining, CallSound
    <3>2. k.run \in DataRun
      BY <3>1 DEF Staged, DataRun
    <3> QED BY <2>2, <3>2 DEF TransportConnected, Resolves
  <2> QED BY <2>1, <2>2
<1>2. what \in Request /\ t \in Transport \cup {0} /\ k.run \notin {"join", "ice"}
  BY <1>1 DEF Request, DataRun, Joining, TypeOK
<1>3. k.on \in alive /\ (~overlapped => linked \subseteq peer.connected) /\ linked \subseteq alive
      /\ (~overlapped /\ k.at = "connect" /\ k.answered /\ k.in = session =>
            k.on \in peer.connected)
  BY <1>1 DEF Joining, CallSound, TypeOK, TransportsAreReachable, Alone, AloneSound
<1>4. /\ linked \subseteq linked' /\ linked' \subseteq alive
      /\ ~overlapped => linked' \subseteq peer.connected
  BY <1>1, <1>3
<1> QED BY <1>1, <1>2, <1>4, CallAsks

LEMMA RestartIceGoesOnJoining ==
  ASSUME Joining, NEW k \in Pending,
         SendIceRestarted(k) \/ RecvIceRestarted(k) \/ RestartIceFailed(k)
  PROVE  Joining'
<1>1. data' \subseteq {"chat", "bot"} /\ restarting \in BOOLEAN /\ data' = data
  BY DEF Joining, TypeOK, SendIceRestarted, RecvIceRestarted, RestartIceFailed
<1>2. CASE Ends(k) /\ restarting' = FALSE /\ wire' = wire
  BY <1>1, <1>2, CallOver DEF SendIceRestarted, RecvIceRestarted, RestartIceFailed
<1>3. CASE SendIceRestarted(k) /\ Asks(k, "iceRecv", slot["recv"]) /\ UNCHANGED restarting
  <2>1. k.run = "ice" /\ k.run \notin DataRun /\ "iceRecv" \in Request
    BY <1>3 DEF SendIceRestarted, Answered, At, DataRun, Request
  <2>2. slot["recv"] \in Transport \cup {0} /\ linked \subseteq alive
        /\ (~overlapped => linked \subseteq peer.connected)
    BY DEF Joining, TypeOK, TransportsAreReachable
  <2>3. UNCHANGED <<ws, session, room, restarting, name, slot, alive, linked, data, peer,
                    created, overlapped>>
    BY <1>3 DEF SendIceRestarted
  <2> QED BY <1>3, <2>1, <2>2, <2>3, CallAsks
<1> QED BY <1>2, <1>3 DEF SendIceRestarted, RecvIceRestarted, RestartIceFailed

LEMMA EnableDataEndsJoining ==
  ASSUME Joining, NEW k \in Pending, DataProduced(k) \/ EnableDataFailed(k)
  PROVE  Joining'
<1>1. k.run \in DataRun
  <2>1. k.run \in {"join", "chat", "bot", "ice"} /\ Staged(k)
    BY CallTypes DEF Joining, CallSound
  <2> QED BY <2>1 DEF Staged, DataRun, DataProduced, EnableDataFailed
<1>2. data \subseteq data' /\ data' \subseteq {"chat", "bot"} /\ restarting' \in BOOLEAN
  BY <1>1 DEF Joining, TypeOK, DataProduced, EnableDataFailed, DataRun, client
<1> QED BY <1>2, CallOver DEF DataProduced, EnableDataFailed, client

-----------------------------------------------------------------------------
(* The theorems.                                                           *)

LEMMA SettlesJoining ==
  ASSUME Joining, NEW k \in Pending, Settles(k)
  PROVE  Joining'
<1>1. CASE DeviceCreated(k) \/ MicGranted(k)
  BY <1>1, JoinRoomAsksJoining
<1>2. CASE CapabilitiesKnown(k)
  BY <1>2, CapabilitiesKnownJoining
<1>3. CASE TransportCreated(k, "send", "recv") \/ TransportCreated(k, "recv", "join")
  BY <1>3, TransportFillsSlot
<1>4. CASE Joined(k)
  BY <1>4, JoinedJoining
<1>5. CASE JoinFailed(k)
  BY <1>5, CloseJoining DEF JoinFailed
<1>6. CASE ProduceData(k) \/ TransportConnected(k)
  BY <1>6, EnableDataAsksJoining
<1>7. CASE DataProduced(k) \/ EnableDataFailed(k)
  BY <1>7, EnableDataEndsJoining
<1>8. CASE SendIceRestarted(k) \/ RecvIceRestarted(k) \/ RestartIceFailed(k)
  BY <1>8, RestartIceGoesOnJoining
<1> QED BY <1>1, <1>2, <1>3, <1>4, <1>5, <1>6, <1>7, <1>8 DEF Settles

LEMMA StutterJoining == Joining /\ UNCHANGED vars => Joining'
<1> SUFFICES ASSUME Joining, UNCHANGED vars  PROVE Joining'
  OBVIOUS
<1>1. UNCHANGED <<ws, session, room, restarting, name, slot, alive, linked, data, calls, wire,
                  peer, created, overlapped>>
  BY DEF vars, client
<1>2. TypeOK' /\ QuietSound' /\ KindsApart' /\ NameSound' /\ ConnectedIsJoined'
      /\ TransportsAreReachable'
  BY <1>1 DEF Joining, TypeOK, QuietSound, KindsApart, NameSound, ConnectedIsJoined,
              TransportsAreReachable, Pending
<1>3. \A k \in Pending' : CallSound(k)'
  BY <1>1 DEF Joining, CallSound, Pending
<1>4. Alone'
  BY <1>1 DEF Joining, Alone, AloneData, AloneSound, Pending
<1> QED BY <1>2, <1>3, <1>4 DEF Joining

\* RoomClient: what each await of a _joinRoom() may rely on after WebSockets were
\* lost and opened again, and after another _joinRoom() began beside it.
THEOREM SessionInvariant == Spec => []Joining
<1>1. Joining /\ [Next]_vars => Joining'
  <2> SUFFICES ASSUME Joining, [Next]_vars  PROVE Joining'
    OBVIOUS
  <2>1. CASE Join
    BY <2>1, JoinJoining
  <2>2. CASE Open
    BY <2>2, OpenJoining
  <2>3. CASE Disconnected \/ ProtooClosed
    BY <2>3, LostJoining
  <2>4. CASE \E k \in BagToSet(calls) : Settles(k)
    BY <2>4, SettlesJoining DEF Pending, BagToSet
  <2>5. CASE RestartIce
    BY <2>5, RestartIceJoining
  <2>6. CASE ChangeDisplayName
    BY <2>6, ChangeDisplayNameJoining
  <2>7. CASE Handle
    BY <2>7, HandleJoining
  <2>8. CASE UNCHANGED vars
    BY <2>8, StutterJoining
  <2> QED BY <2>1, <2>2, <2>3, <2>4, <2>5, <2>6, <2>7, <2>8 DEF Next
<1> QED BY <1>1, InitJoining, PTL DEF Spec

\* Every variable of the client's session has its type, its transports with DTLS
\* parameters are among those that are not closed.
THEOREM TypeCorrect == Spec => []TypeOK
<1>1. Joining => TypeOK
  BY DEF Joining
<1> QED BY <1>1, SessionInvariant, PTL

\* The client shows itself as connected only while its WebSocket is open and the
\* Peer of that WebSocket has joined: the tail of a _joinRoom() that outlived its
\* WebSocket has no answer of the next one's 'join'.
THEOREM ConnectedMeansJoined == Spec => []ConnectedIsJoined
<1>1. Joining => ConnectedIsJoined
  BY DEF Joining
<1> QED BY <1>1, SessionInvariant, PTL

\* Unless two _joinRoom() met, close() closes every transport of the client, each is
\* the server's, and what is believed to be connected is.
THEOREM NoTransportIsLost == Spec => []TransportsAreReachable
<1>1. Joining => TransportsAreReachable
  BY DEF Joining
<1> QED BY <1>1, SessionInvariant, PTL

\* A client that is in the Room and has nothing under way is known by its current
\* display name, however the changes met the 'join' and the losses of WebSockets.
THEOREM NameReachesServer == Spec => []NameIsKnown
<1>1. Joining => NameIsKnown
  <2> SUFFICES ASSUME Joining, room = "connected", wire = <<>>  PROVE peer.name = name
    BY DEF NameIsKnown
  <2>1. ws = "open" /\ peer.joined
    BY DEF Joining, ConnectedIsJoined
  <2>2. \A j \in 1 .. Len(wire) : wire[j].what # "name"
    <3>1. Len(wire) = 0
      OBVIOUS
    <3> QED BY <3>1
  <2> QED BY <2>1, <2>2 DEF Joining, NameSound
<1> QED BY <1>1, SessionInvariant, PTL

=============================================================================
