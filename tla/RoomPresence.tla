---------------------------- MODULE RoomPresence ----------------------------
(***************************************************************************)
(* What a Room promises about its participants, whatever objects and Maps  *)
(* it keeps: each peerId is a register of its own, that arrivals reset and *)
(* only a leave or the closure of the Room clears; nobody joins without    *)
(* having arrived; and a closed Room is empty for ever.                    *)
(***************************************************************************)
CONSTANT PeerId

VARIABLES
  status,   \* status[i]: absent, joining or joined
  visitors, \* the peerIds present through a WebSocket (not broadcasters)
  open      \* the Room is open

Init ==
  /\ status = [i \in PeerId |-> "absent"]
  /\ visitors = {}
  /\ open = TRUE

\* A new connection with peerId i, taking the place of the previous one if any.
Arrive(i) ==
  /\ open
  /\ status' = [status EXCEPT ![i] = "joining"]
  /\ visitors' \in {visitors \cup {i}, visitors \ {i}}
  /\ UNCHANGED open

Join(i) ==
  /\ status[i] = "joining"
  /\ status' = [status EXCEPT ![i] = "joined"]
  /\ UNCHANGED <<visitors, open>>

Leave(i) ==
  /\ status[i] # "absent"
  /\ status' = [status EXCEPT ![i] = "absent"]
  /\ visitors' = visitors \ {i}
  /\ UNCHANGED open

\* The end of the Room: the machinery under it went down, or its last visitor
\* left.
Close ==
  /\ open
  /\ open' = FALSE
  /\ status' = [i \in PeerId |-> "absent"]
  /\ visitors' = {}

Next ==
  \/ \E i \in PeerId : Arrive(i) \/ Join(i) \/ Leave(i)
  \/ Close

vars == <<status, visitors, open>>

Spec == Init /\ [][Next]_vars

=============================================================================
