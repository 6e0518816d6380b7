---------------------------- MODULE Connection ----------------------------
(***************************************************************************)
(* What concurrent invocations promise about one Connection, whatever they *)
(* read on the way: the abstract specification that Lifecycle implements.  *)
(*                                                                         *)
(* Of the world it keeps who has the Connection's unit name; of an         *)
(* invocation, how far its request has come. There are no observations, no *)
(* jobs, no ports, no deadlines and no clocks here, only the order         *)
(*                                                                         *)
(*     look -> stop -> decide -> start -> wait -> answer                   *)
(*                                                                         *)
(* of which a request may leave parts out but never goes back: it stops at *)
(* most once and creates at most one unit, in a name that nobody has, and  *)
(* it gets past a stop only when it has seen the name free.                *)
(***************************************************************************)
EXTENDS Naturals

CONSTANT Requests   \* the invocations

VARIABLES holder,   \* the unit that has the name: the n-th made, or 0
          made,     \* how many units were made under the name
          request   \* the requests

vars == <<holder, made, request>>

Kinds == {"status", "start", "stop", "restart"}

Phases == {"idle", "looking", "stopping", "deciding", "starting", "waiting", "answered"}

Request(kind, phase, outcome) == [kind |-> kind, phase |-> phase, outcome |-> outcome]

Init ==
  /\ made \in {0, 1}
  /\ holder \in {0, made}
  /\ request = [r \in Requests |-> Request("none", "idle", "none")]

-----------------------------------------------------------------------------

In(r, phases) == request[r].phase \in phases

Is(r, kinds) == request[r].kind \in kinds

Become(r, s) == request' = [request EXCEPT ![r] = s]

Proceed(r, phase) == Become(r, [request[r] EXCEPT !.phase = phase])

Answer(r, outcome) == Become(r, Request(request[r].kind, "answered", outcome))

\* Where a request of each kind begins.
FirstPhases(kind) == CASE kind = "start"   -> {"deciding"}
                       [] kind = "restart" -> {"looking", "stopping"}
                       [] OTHER            -> {"looking"}

Ask(r) ==
  /\ In(r, {"idle"})
  /\ \E kind \in Kinds :
       \/ \E phase \in FirstPhases(kind) : Become(r, Request(kind, phase, "none"))
       \/ /\ kind \in {"start", "restart"}     \* the Connection is disabled
          /\ Become(r, Request(kind, "answered", "other"))
  /\ UNCHANGED <<holder, made>>

TurnToStop(r) ==
  /\ In(r, {"looking"})
  /\ Is(r, {"stop", "restart"})
  /\ Proceed(r, "stopping")
  /\ UNCHANGED <<holder, made>>

\* The only way past a stop.
SeeFree(r) ==
  /\ In(r, {"stopping"})
  /\ holder = 0
  /\ \/ Is(r, {"stop"}) /\ Answer(r, "success")
     \/ Is(r, {"restart"}) /\ Proceed(r, "deciding")
  /\ UNCHANGED <<holder, made>>

\* Start a unit, or wait for one that somebody else is starting.
TurnToStart(r) ==
  /\ In(r, {"deciding"})
  /\ \/ Proceed(r, "starting")
     \/ Proceed(r, "waiting")
  /\ UNCHANGED <<holder, made>>

Create(r) ==
  /\ In(r, {"starting"})
  /\ holder = 0
  /\ made' = made + 1
  /\ holder' = made + 1
  /\ Proceed(r, "waiting")

\* There was nothing to stop, or the proxy is running.
Confirm(r) ==
  /\ \/ Is(r, {"stop"}) /\ In(r, {"looking"})
     \/ Is(r, {"start", "restart"}) /\ In(r, {"deciding", "waiting"})
  /\ Answer(r, "success")
  /\ UNCHANGED <<holder, made>>

\* A row, a refusal or a failure. A request is never asked twice.
AnswerOtherwise(r) ==
  /\ ~In(r, {"idle", "answered"})
  /\ Answer(r, "other")
  /\ UNCHANGED <<holder, made>>

\* systemd unloads the unit, in its own time.
Release ==
  /\ holder # 0
  /\ holder' = 0
  /\ UNCHANGED <<made, request>>

Next ==
  \/ Release
  \/ \E r \in Requests : \/ Ask(r)         \/ TurnToStop(r) \/ SeeFree(r)
                         \/ TurnToStart(r) \/ Create(r)     \/ Confirm(r)
                         \/ AnswerOtherwise(r)

Spec == Init /\ [][Next]_vars

-----------------------------------------------------------------------------

\* The requests that may have made a unit.
PastStarting == {r \in Requests : /\ Is(r, {"start", "restart"})
                                  /\ In(r, {"waiting", "answered"})}

=============================================================================
