---------------------------- MODULE ThrottleFlags ----------------------------
(***************************************************************************)
(* What the Server remembers of a network that it throttles, and promises  *)
(* to (server/src/Server.ts).  NetworkThrottle says how it changes.        *)
(***************************************************************************)
EXTENDS Sequences

VARIABLES
  enabled,  \* #networkThrottleEnabled
  tasks,    \* #networkThrottleAwaitQueue: the running task is the head
  active,   \* the operating system throttles the network
  leftover  \* history: it does because of a throttle.start() that failed

\* A throttled network is forgotten in one case only, for which the code does
\* nothing: throttle.start() failed after some of its commands, and no stop or
\* start has succeeded since.  In every other the flag says that the network is
\* throttled, or the running stop will put the flag back if it fails.
ActiveIsRecorded ==
  active => \/ leftover
            \/ enabled
            \/ /\ tasks # <<>> /\ Head(tasks).phase = "stopping"
               /\ Head(tasks).savedEnabled

=============================================================================
