---------------------------- MODULE BroadcasterEnd ----------------------------
(***************************************************************************)
(* What a run of the Node program of broadcaster/ may leave behind: its     *)
(* BroadcasterPeer in the Room, and the subprocess of its media client.     *)
(* Broadcaster says how these change.                                       *)
(***************************************************************************)
VARIABLES
  closed,   \* #closePromise is there
  present,  \* the server has the BroadcasterPeer
  lost,     \* history: the DELETE failed
  missed,   \* history: the termination began before create() had returned
  media,    \* the subprocess: none, running, orphan (spawned once started), aborted,
            \* closed
  exited    \* the process is over

\* The program ends without a subprocess, and without a BroadcasterPeer in the Room
\* but in two cases: the DELETE failed, or a signal or an error came while create()
\* was awaited.  index.ts has no broadcaster to close then, and ignores every later
\* call to end, so that the peer stays though the run may go on to its end.
LeavesNothing ==
  exited => /\ present => lost \/ missed
            /\ media \in {"none", "closed"}

=============================================================================
