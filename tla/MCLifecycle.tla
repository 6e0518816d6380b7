---------------------------- MODULE MCLifecycle ----------------------------
(***************************************************************************)
(* Bounds for Lifecycle. Two invocations are enough for a race: every      *)
(* hazard of the list is between one invocation and one other actor. One   *)
(* or two sleeps of a wait loop separate its first turn from a later one   *)
(* and from the deadline.                                                  *)
(***************************************************************************)
EXTENDS Lifecycle, TLC

AllOps == {"status", "start", "stop", "restart", "restart_failed"}

AllConnections == [enabled : BOOLEAN, ip : BOOLEAN]

\* A Connection that can be started and observed: the only kind on which two
\* invocations can be in each other's way.
UsableConnections == {[enabled |-> TRUE, ip |-> TRUE]}

\* The operations that change what systemd runs.
Mutating == {"start", "stop", "restart"}

Interchangeable == Permutations(CLI)

=============================================================================
