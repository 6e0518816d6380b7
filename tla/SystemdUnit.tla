---------------------------- MODULE SystemdUnit ----------------------------
(***************************************************************************)
(* What the CLI shares with every other invocation: the Connection's       *)
(* transient Unit inside the systemd user manager, the proxy process it    *)
(* runs, and the TCP port that process has to bind.                        *)
(*                                                                         *)
(* None of this is code of the repository. It is modelled from how         *)
(* src/supervisor.rs calls the manager (StartTransientUnit in mode "fail", *)
(* Type=exec, Restart=no, TimeoutStopUSec, StopUnit in mode "replace",     *)
(* ResetFailedUnit) and from what docs/research/supervisor-io.md and the   *)
(* comments of src/commands/mutate.rs rely on:                             *)
(*   - both StartTransientUnit and StopUnit return once a job is queued;   *)
(*   - StartTransientUnit is refused while anything is loaded under the    *)
(*     name, whatever its ActiveState;                                     *)
(*   - a unit that has failed stays loaded until ResetFailedUnit, and an   *)
(*     inactive one is unloaded some time later by garbage collection.     *)
(*                                                                         *)
(* The n-th unit created under the name runs process n. Time is one bit:   *)
(* whether the start attempt is older than Reconcile's start window.       *)
(***************************************************************************)
EXTENDS Reconcile

CONSTANT Foreign    \* a process that is none of ours, as holder of the port

ASSUME ForeignAssumption == Foreign \notin Nat /\ Foreign # None

VARIABLES unit,     \* the Unit as systemd has it, or Absent
          port,     \* the process that listens on the port: Foreign, ours, or None
          created   \* how many units were created under this name

unitVars == <<unit, port, created>>

Exited(n) == [kind |-> "exit", status |-> n]
Killed(n) == [kind |-> "signal", status |-> n]
Ending(result, exec) == [result |-> result, exec |-> exec]

NotEnded  == Ending("success", [kind |-> "not_exited", status |-> 0])
CleanExit == Ending("success", Exited(0))

Crash     == Ending("exit-code", Exited(1))

\* How a stop can go wrong: SIGKILL once TimeoutStopUSec has run out, or a
\* proxy that answers SIGTERM with 143.
FailedStops == {Ending("timeout", Killed(9)), Ending("exit-code", Exited(143))}

ExecFailure == Ending("exit-code", Exited(203))

Endings == {NotEnded, CleanExit, Crash, ExecFailure} \cup FailedStops

ActiveStates == {"inactive", "activating", "active", "deactivating", "failed"}

\* job: a start or a stop that is queued and has not been dispatched.
\* id: the unit is the id-th created. started: its start was stamped.
Units == [active  : ActiveStates,
          job     : {"none", "start", "stop"},
          id      : Nat,
          started : BOOLEAN,
          aged    : BOOLEAN,
          ending  : Endings]

ASSUME AbsentAssumption == Absent \notin Units

Live == {"activating", "active", "deactivating"}

HasProcess(u) == IF u = Absent THEN FALSE ELSE u.active \in Live

\* MainPID.
MainPid == IF HasProcess(unit) THEN unit.id ELSE None

StateIs(S) == IF unit = Absent THEN FALSE ELSE unit.active \in S

JobIs(job) == IF unit = Absent THEN FALSE ELSE unit.job = job

\* A queued unit right after StartTransientUnit.
Queued(id) == [active |-> "inactive", job |-> "start", id |-> id,
               started |-> FALSE, aged |-> FALSE, ending |-> NotEnded]

\* What systemd answers for a unit path that it can load nothing for.
NotFound == [active |-> "inactive", job |-> "none", id |-> 0,
             started |-> FALSE, aged |-> FALSE, ending |-> NotEnded]

\* A unit whose proxy is up, as an earlier `start` leaves it.
Up(id, aged) == [active |-> "active", job |-> "none", id |-> id,
                 started |-> TRUE, aged |-> aged, ending |-> NotEnded]

Crashed(id) == [active |-> "failed", job |-> "none", id |-> id,
                started |-> TRUE, aged |-> TRUE,
                ending |-> Crash]

\* Nothing was ever started; or an earlier `start` left the proxy serving, or
\* crashed since, or was killed (or told not to wait) while its unit was still
\* queued. A port that is not ours may be taken.
FoundWorlds ==
  [unit : {Absent}, port : {None, Foreign}, created : {0}]
  \cup [unit : {Up(1, aged) : aged \in BOOLEAN}, port : {1}, created : {1}]
  \cup [unit : {Crashed(1), Queued(1)}, port : {None, Foreign}, created : {1}]

UnitInit ==
  \E w \in FoundWorlds : unit = w.unit /\ port = w.port /\ created = w.created

-----------------------------------------------------------------------------
(* What the manager does at once when it is called.                        *)

\* StartTransientUnit, mode "fail": a new unit with a start job.
CreateUnit ==
  /\ unit = Absent
  /\ created' = created + 1
  /\ unit' = Queued(created + 1)
  /\ UNCHANGED port

\* StopUnit, mode "replace", of a loaded unit. It cancels a queued start; on a
\* unit that has already ended there is nothing to stop; else a job is queued.
QueueStop ==
  /\ unit # Absent
  /\ unit' = [unit EXCEPT !.job = IF unit.active \in {"activating", "active"}
                                    THEN "stop" ELSE "none"]
  /\ UNCHANGED <<port, created>>

\* ResetFailedUnit: forgets that the unit failed; anything else is unaffected.
ResetFailed ==
  /\ unit' = IF StateIs({"failed"})
               THEN [unit EXCEPT !.active = "inactive", !.ending = NotEnded]
               ELSE unit
  /\ UNCHANGED <<port, created>>

-----------------------------------------------------------------------------
(* What happens on its own: the manager's jobs, the proxy, other programs. *)

FreedBy(p) == IF port = p THEN None ELSE port

\* The process of the unit is gone and its listening socket with it.
Ends(active, ending) ==
  /\ unit' = [unit EXCEPT !.active = active, !.job = "none", !.ending = ending]
  /\ port' = FreedBy(unit.id)
  /\ UNCHANGED created

DispatchStart ==
  /\ JobIs("start")
  /\ unit' = [unit EXCEPT !.active = "activating", !.job = "none", !.started = TRUE]
  /\ UNCHANGED <<port, created>>

ExecSucceeds ==
  /\ StateIs({"activating"})
  /\ unit' = [unit EXCEPT !.active = "active"]
  /\ UNCHANGED <<port, created>>

ExecFails == StateIs({"activating"}) /\ Ends("failed", ExecFailure)

BindsPort ==
  /\ StateIs({"active"})
  /\ port = None
  /\ port' = unit.id
  /\ UNCHANGED <<unit, created>>

\* A proxy that finds its port taken exits 1; one that serves may crash, or
\* exit 0 because somebody else sent it a SIGTERM.
ProxyCrashes == StateIs({"active"}) /\ Ends("failed", Crash)

ProxyExits == StateIs({"active"}) /\ Ends("inactive", CleanExit)

DispatchStop ==
  /\ JobIs("stop")
  /\ unit' = [unit EXCEPT !.active = "deactivating", !.job = "none"]
  /\ UNCHANGED <<port, created>>

\* The stopping proxy closes its listener before it exits.
ClosesPort ==
  /\ StateIs({"deactivating"})
  /\ port = unit.id
  /\ port' = None
  /\ UNCHANGED <<unit, created>>

StopsCleanly == StateIs({"deactivating"}) /\ Ends("inactive", CleanExit)

StopFails == StateIs({"deactivating"}) /\ \E ending \in FailedStops : Ends("failed", ending)

Unloads ==
  /\ StateIs({"inactive"})
  /\ JobIs("none")
  /\ unit' = Absent
  /\ UNCHANGED <<port, created>>

StartAges ==
  /\ unit # Absent
  /\ unit.started
  /\ ~unit.aged
  /\ unit' = [unit EXCEPT !.aged = TRUE]
  /\ UNCHANGED <<port, created>>

ForeignBinds ==
  /\ port = None
  /\ port' = Foreign
  /\ UNCHANGED <<unit, created>>

ForeignLeaves ==
  /\ port = Foreign
  /\ port' = None
  /\ UNCHANGED <<unit, created>>

\* The steps that bring a queued or running job to its end.
ManagerStep == DispatchStart \/ ExecSucceeds \/ ExecFails \/ DispatchStop
                 \/ StopsCleanly \/ StopFails \/ Unloads

WorldStep == ManagerStep \/ BindsPort \/ ProxyCrashes \/ ProxyExits
               \/ ClosesPort \/ StartAges \/ ForeignBinds \/ ForeignLeaves

-----------------------------------------------------------------------------

UnitTypeOK ==
  /\ unit \in Units \cup {Absent}
  /\ port \in Nat \cup {Foreign, None}
  /\ created \in Nat

\* The manager runs at most the unit created last, a port of ours is held by
\* that unit's live process, and only queued or running units have jobs.
UnitConsistent ==
  /\ unit # Absent => /\ unit.id = created
                      /\ unit.job = "start" => unit.active = "inactive"
                      /\ unit.job = "stop" => unit.active \in {"activating", "active"}
  /\ port \in Nat => port = MainPid

=============================================================================
