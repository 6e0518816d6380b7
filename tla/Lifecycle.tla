----------------------------- MODULE Lifecycle -----------------------------
(***************************************************************************)
(* Concurrent invocations of cloud-sql-tracker on one Connection:          *)
(*   status ID | start ID | stop ID | restart ID | restart --failed ID     *)
(* (src/commands/mutate.rs, src/commands/status.rs, src/supervisor.rs).    *)
(*                                                                         *)
(* The CLI keeps no state file and takes no lock. An invocation is one     *)
(* thread that makes blocking calls; each D-Bus call and each look at the  *)
(* port is a step of its own, and between two steps systemd, the proxy,    *)
(* other programs and other invocations may do anything. What an           *)
(* invocation has read so far is kept in its record until it decides.      *)
(*                                                                         *)
(* One read is coarser than the code: GetUnit and the first GetAll (the    *)
(* Unit interface) are one step. What can come between them, the unit      *)
(* being replaced or unloaded, can also come between the two GetAlls.      *)
(*                                                                         *)
(* An invocation that is killed half way needs no action of its own: it is *)
(* one that takes no further step.                                         *)
(***************************************************************************)
EXTENDS SystemdUnit, FiniteSets

CONSTANTS CLI,        \* the invocations
          Ops,        \* the subcommands they may be
          Connections,\* what the Connection may be configured as
          Polls,      \* how often a wait loop may sleep before its deadline
          Ambiguous,  \* whether the listener's PID may stay unknown
          Faults      \* whether a D-Bus call may fail

ASSUME ConnectionsAssumption ==
  Connections \subseteq [enabled : BOOLEAN, ip : BOOLEAN]
ASSUME CLIAssumption == IsFiniteSet(CLI)
ASSUME PollsAssumption == Polls \in Nat
ASSUME SwitchesAssumption == Ambiguous \in BOOLEAN /\ Faults \in BOOLEAN
ASSUME OpsAssumption ==
  Ops \subseteq {"status", "start", "stop", "restart", "restart_failed"}

VARIABLES conn,       \* the Connection: may it be started, is its address an IP
          cli         \* the invocations, each with what it has read so far

vars == <<unit, port, created, conn, cli>>

-----------------------------------------------------------------------------
(* Records.                                                                *)

\* TargetResult; "reported" is a status row, "unselected" a connection that
\* restart --failed leaves out of its outcomes.
Result(kind, code) == [kind |-> kind, code |-> code]
Pending    == Result("pending", NoError)
Succeeded  == Result("succeeded", NoError)
Refused    == Result("refused", NoError)
Unselected == Result("unselected", NoError)
Dependency == Result("dependency", NoError)
Failed(code)    == Result("failed", code)
Reported(state) == Result("reported", state)

Codes == {"port_in_use", "start_timeout", "unit_failed", "exec_failed",
          "config", "auth", "unknown"}

HealthStates == {"running", "starting", "stopped", "error"}

Results == {Pending, Succeeded, Refused, Unselected, Dependency}
             \cup {Failed(code) : code \in Codes}
             \cup {Reported(state) : state \in HealthStates}

\* The clock an observation is judged by: which start was stamped when it was
\* read (0: none), and whether that start was past the window already.
Clocks  == [start : Nat, aged : BOOLEAN]
NoClock == [start |-> 0, aged |-> FALSE]

Signals == [result : {"success", "exit-code", "signal", "timeout"},
            status : {-1, 0, 1, 9, 143, 203}]

Ages == {None, 0, START_WINDOW + 1}

Observations == [state  : {"idle", "activating", "active", "deactivating", "failed"},
                 signal : Signals,
                 pid    : Nat \cup {None},
                 age    : Ages]

Steps == {"idle", "sample", "get_unit", "get_service", "probe", "attribute",
          "prepare", "reset_failed", "start_transient",
          "stop_unit", "reset_stopped", "poll_stop", "poll_props", "done"}

\* What an observation is for: try_start's and try_stop's look before they
\* act, restart --failed's gather, wait_for's polls, and a status row.
Goals == {"precheck", "stop_check", "gather", "wait_start", "report"}

\* base is a history variable: how many units had been created when a restart
\* saw the name free.
Invocations == [op     : Ops \cup {"none"},
                pc     : Steps,
                goal   : Goals,
                clock  : Clocks,
                active : ActiveStates,
                obs    : Observations,
                open   : BOOLEAN,
                polls  : 0..Polls,
                result : Results,
                base   : Nat]

NewInvocation == [op     |-> "none",
                  pc     |-> "idle",
                  goal   |-> "report",
                  clock  |-> NoClock,
                  active |-> "inactive",
                  obs    |-> IdleObservation,
                  open   |-> FALSE,
                  polls  |-> Polls,
                  result |-> Pending,
                  base   |-> 0]

StartLike == {"start", "restart", "restart_failed"}

Init ==
  /\ UnitInit
  /\ conn \in Connections
  /\ cli = [c \in CLI |-> NewInvocation]

-----------------------------------------------------------------------------
(* Moves of one invocation's program counter.                              *)

At(c, step) == cli[c].pc = step

Become(c, s) == cli' = [cli EXCEPT ![c] = s]

\* An observation's readings are dropped once it is judged.
Forget(s) == [s EXCEPT !.clock = NoClock, !.active = "inactive",
                       !.obs = IdleObservation, !.open = FALSE]

Goto(c, step) == Become(c, [Forget(cli[c]) EXCEPT !.pc = step])

Observe(c, goal, polls) ==
  Become(c, [Forget(cli[c]) EXCEPT !.pc = "sample", !.goal = goal, !.polls = polls])

Finish(c, result) ==
  Become(c, [NewInvocation EXCEPT !.op = cli[c].op, !.pc = "done", !.result = result])

-----------------------------------------------------------------------------
(* The entry points, up to their first look or call.                       *)

FirstGoal(op) == CASE op = "status"         -> "report"
                   [] op = "start"          -> "precheck"
                   [] op = "stop"           -> "stop_check"
                   [] op = "restart_failed" -> "gather"
                   [] OTHER                 -> "precheck"

\* Mutant: the policy is only wired into `start`.
RefusesStartOnly(op) == op = "start" /\ ~conn.enabled

\* disabled_policy, asked before any I/O; stop and status never ask.
DisabledPolicyRefuses(op) == op \in StartLike /\ ~conn.enabled

Begin(c) ==
  /\ At(c, "idle")
  /\ \E op \in Ops :
       LET s == [cli[c] EXCEPT !.op = op] IN
       CASE DisabledPolicyRefuses(op) ->
              Become(c, [s EXCEPT !.pc = "done", !.result = Refused])
         [] op = "restart" /\ ~DisabledPolicyRefuses(op) ->
              Become(c, [s EXCEPT !.pc = "stop_unit", !.goal = "precheck"])
         [] OTHER ->
              Become(c, [s EXCEPT !.pc = "sample", !.goal = FirstGoal(op)])
  /\ UNCHANGED <<unitVars, conn>>

-----------------------------------------------------------------------------
(* What an observed row leads to.                                          *)

IsRunning(row) == row.state = "running" /\ row.source = "unit"

IsStopped(row) == row.state = "stopped"

\* try_start, from the row on: idempotent, conflict, wait, or start.
TryStart(c, row) ==
  CASE IsRunning(row)             -> Finish(c, Succeeded)
    [] row.code = "port_in_use"   -> Finish(c, Failed("port_in_use"))
    [] row.state = "starting"     -> Observe(c, "wait_start", Polls)
    [] OTHER                      -> Goto(c, "prepare")

\* Mutant: what may still get better is listed, instead of what may not.
AllButTransientIsPermanent(code) == code \notin {"start_timeout", "unit_failed"}

\* Errors more polling cannot cure; start_timeout and unit_failed are not.
IsPermanentStartFailure(code) ==
  code \in {"port_in_use", "exec_failed", "auth", "config", "bin_missing"}

\* Mutant: the deadline is computed anew in every turn of the loop.
WaitStepForgettingDeadline(c, row) ==
  CASE IsRunning(row)                    -> Finish(c, Succeeded)
    [] IsPermanentStartFailure(row.code) -> Finish(c, Failed(row.code))
    [] OTHER                             -> Observe(c, "wait_start", Polls)

\* Mutant: a start that timed out is tried again.
WaitStepRetryingStart(c, row) ==
  CASE IsRunning(row)                    -> Finish(c, Succeeded)
    [] IsPermanentStartFailure(row.code) -> Finish(c, Failed(row.code))
    [] cli[c].polls > 0                  -> Observe(c, "wait_start", cli[c].polls - 1)
    [] OTHER                             -> Goto(c, "prepare")

\* wait_step. The deadline may pass in any turn (a look takes as long as it
\* takes), and after Polls sleeps it has.
WaitStep(c, row) ==
  CASE IsRunning(row)                    -> Finish(c, Succeeded)
    [] IsPermanentStartFailure(row.code) /\ ~IsRunning(row) ->
         Finish(c, Failed(row.code))
    [] OTHER ->
         \/ Finish(c, Failed(IF row.code = NoError THEN "start_timeout" ELSE row.code))
         \/ /\ cli[c].polls > 0
            /\ Observe(c, "wait_start", cli[c].polls - 1)

\* try_stop: nothing to do, or supervisor::stop.
TryStop(c, row) == IF IsStopped(row) THEN Finish(c, Succeeded) ELSE Goto(c, "stop_unit")

\* restart --failed: rows in error go on to restart_target, the rest are left.
RestartFailedOnly(c, row) ==
  IF row.state = "error" THEN Goto(c, "stop_unit") ELSE Finish(c, Unselected)

\* What the row was wanted for.
Decide(c, row) ==
  CASE cli[c].goal = "report"     -> Finish(c, Reported(row.state))
    [] cli[c].goal = "gather"     -> RestartFailedOnly(c, row)
    [] cli[c].goal = "stop_check" -> TryStop(c, row)
    [] cli[c].goal = "precheck"   -> TryStart(c, row)
    [] cli[c].goal = "wait_start" -> WaitStep(c, row)

-----------------------------------------------------------------------------
(* One observation: clock, unit, port, listener.                           *)

ReadClock(u) ==
  IF u = Absent THEN NoClock
  ELSE IF u.started THEN [start |-> u.id, aged |-> u.aged] ELSE NoClock

\* The age of the start a unit carries, against a clock read earlier.
AgeOf(u, clock) ==
  CASE ~u.started                       -> None
    [] u.started /\ u.id # clock.start  -> None
    [] OTHER -> IF clock.aged THEN START_WINDOW + 1 ELSE 0

Sample(c) ==
  /\ At(c, "sample")
  /\ IF conn.ip
       THEN Become(c, [cli[c] EXCEPT !.pc = "get_unit", !.clock = ReadClock(unit)])
       ELSE Decide(c, InvalidAddressRow)
  /\ UNCHANGED <<unitVars, conn>>

GetUnit(c) ==
  /\ At(c, "get_unit")
  /\ IF unit = Absent
       THEN Goto(c, "probe")
       ELSE Become(c, [cli[c] EXCEPT !.pc = "get_service", !.active = unit.active])
  /\ UNCHANGED <<unitVars, conn>>

\* The snapshot is complete: the ActiveState read first, all else from u.
Snapshot(c, u) ==
  Become(c, [Forget(cli[c]) EXCEPT
               !.pc  = "probe",
               !.obs = UnitObservation(
                         MapActiveState(cli[c].active, u.ending.result, u.ending.exec),
                         MainPid,
                         AgeOf(u, cli[c].clock))])

\* The second GetAll, of whatever unit has the name by now. If there is none,
\* systemd either fails the call or answers for a unit it could not find.
GetService(c) ==
  /\ At(c, "get_service")
  /\ IF unit = Absent
       THEN \/ Finish(c, Failed("unknown"))
            \/ Snapshot(c, NotFound)
       ELSE Snapshot(c, unit)
  /\ UNCHANGED <<unitVars, conn>>

Probe(c) ==
  /\ At(c, "probe")
  /\ Become(c, [cli[c] EXCEPT !.pc = "attribute", !.open = port # None])
  /\ UNCHANGED <<unitVars, conn>>

\* Whom /proc names as the listener now: nobody when the port is free, and
\* perhaps nobody when the match is ambiguous or the process unreadable.
ListenersSeen == IF Ambiguous THEN {port, None} ELSE {port}

Attribute(c) ==
  /\ At(c, "attribute")
  /\ \E listener \in ListenersSeen :
       Decide(c, ReconcileRow(cli[c].obs,
                   [probe    |-> IF cli[c].open THEN "open" ELSE "closed",
                    listener |-> listener]))
  /\ UNCHANGED <<unitVars, conn>>

-----------------------------------------------------------------------------
(* start: resolve the binary and ADC, then supervisor::start_transient.    *)

Prepare(c) ==
  /\ At(c, "prepare")
  /\ \/ Finish(c, Dependency)      \* resolve_proxy_bin failed
     \/ Finish(c, Failed("auth"))  \* no Application Default Credentials
     \/ Goto(c, "reset_failed")
  /\ UNCHANGED <<unitVars, conn>>

\* A failed ResetFailedUnit is ignored here and after a stop.
BestEffortReset == ResetFailed \/ (Faults /\ UNCHANGED unitVars)

ResetBeforeStart(c) ==
  /\ At(c, "reset_failed")
  /\ BestEffortReset
  /\ Goto(c, "start_transient")
  /\ UNCHANGED conn

StartTransient(c) ==
  /\ At(c, "start_transient")
  /\ \/ /\ CreateUnit
        /\ Observe(c, "wait_start", Polls)
     \/ /\ unit # Absent
        /\ Finish(c, Failed("unknown"))   \* UnitExists
        /\ UNCHANGED unitVars
  /\ UNCHANGED conn

-----------------------------------------------------------------------------
(* stop: supervisor::stop, then wait_for_stop.                             *)

\* StopUnit; NoSuchUnit is success and skips the reset.
StopUnit(c) ==
  /\ At(c, "stop_unit")
  /\ \/ /\ unit = Absent
        /\ Become(c, [cli[c] EXCEPT !.pc = "poll_stop", !.polls = Polls])
        /\ UNCHANGED unitVars
     \/ /\ QueueStop
        /\ Become(c, [cli[c] EXCEPT !.pc = "reset_stopped", !.polls = Polls])
  /\ UNCHANGED conn

\* Called as soon as StopUnit has returned, which is when the job is queued.
ResetAfterStop(c) ==
  /\ At(c, "reset_stopped")
  /\ BestEffortReset
  /\ Goto(c, "poll_stop")
  /\ UNCHANGED conn

\* Mutant: an inactive unit is taken for one that can be created again.
InactiveIsRecreatable(u) == IF u = Absent THEN TRUE ELSE u.active = "inactive"

\* Mutant: Reconcile's "stopped" is taken for gone.
DeactivatingIsRecreatable(u) ==
  IF u = Absent THEN TRUE ELSE u.active \in {"inactive", "deactivating"}

UnitSafelyRecreatable(u) == u = Absent

\* stop_unit_and_wait has succeeded: stop is done, a restart goes on to start.
Stopped(c) ==
  IF cli[c].op = "stop"
    THEN Finish(c, Succeeded)
    ELSE Become(c, [cli[c] EXCEPT !.pc = "sample", !.goal = "precheck",
                                  !.polls = Polls, !.base = created])

\* Mutant: the deadline of the wait for the stop is computed anew in every turn.
JudgeStopForgettingDeadline(c, snapshot) ==
  IF UnitSafelyRecreatable(snapshot)
    THEN Stopped(c)
    ELSE \/ Finish(c, Failed("unknown"))
         \/ Become(c, [cli[c] EXCEPT !.pc = "poll_stop", !.polls = Polls])

\* One turn of wait_for_stop, from the snapshot on. The deadline may pass in
\* any turn, and after Polls sleeps it has.
JudgeStop(c, snapshot) ==
  IF UnitSafelyRecreatable(snapshot)
    THEN Stopped(c)
    ELSE \/ Finish(c, Failed("unknown"))
         \/ /\ cli[c].polls > 0
            /\ Become(c, [cli[c] EXCEPT !.pc = "poll_stop", !.polls = @ - 1])

PollStop(c) ==
  /\ At(c, "poll_stop")
  /\ IF unit = Absent
       THEN JudgeStop(c, Absent)
       ELSE Goto(c, "poll_props")
  /\ UNCHANGED <<unitVars, conn>>

\* The properties of the unit that GetUnit found. If it has gone since, the
\* read fails or systemd answers for a unit it could not find.
PollProps(c) ==
  /\ At(c, "poll_props")
  /\ \/ unit # Absent /\ JudgeStop(c, unit)
     \/ unit = Absent /\ JudgeStop(c, NotFound)
     \/ unit = Absent /\ Finish(c, Failed("unknown"))
  /\ UNCHANGED <<unitVars, conn>>

-----------------------------------------------------------------------------

\* start_transient's first call is best-effort, but not its connection.
Connects == {"reset_failed"}
Calls    == {"get_unit", "get_service", "start_transient", "stop_unit",
             "poll_stop", "poll_props"}

\* systemd cannot be reached: environmental when there is no bus, a failure of
\* this id when the call itself fails.
BusFails(c) ==
  /\ Faults
  /\ \/ /\ cli[c].pc \in Connects \cup Calls
        /\ Finish(c, Dependency)
     \/ /\ cli[c].pc \in Calls
        /\ Finish(c, Failed("unknown"))
  /\ UNCHANGED <<unitVars, conn>>

Step(c) ==
  \/ Begin(c)     \/ Sample(c)   \/ GetUnit(c)  \/ GetService(c) \/ Probe(c)
  \/ Attribute(c) \/ Prepare(c)  \/ ResetBeforeStart(c) \/ StartTransient(c)
  \/ StopUnit(c)  \/ ResetAfterStop(c) \/ PollStop(c) \/ PollProps(c)
  \/ BusFails(c)

World == WorldStep /\ UNCHANGED <<conn, cli>>

Next == World \/ \E c \in CLI : Step(c)

Spec == Init /\ [][Next]_vars

\* An invocation that has begun is a running thread; nothing says when an
\* operator begins one, nor that the manager or the proxy ever moves.
FairSpec == Spec /\ \A c \in CLI : WF_vars(~At(c, "idle") /\ Step(c))

-----------------------------------------------------------------------------
(* The Connection as its invocations promise to treat it.                  *)

\* Which part of its request an invocation is at. What a look is for tells.
LooksFor(goal) == CASE goal = "precheck"   -> "deciding"
                    [] goal = "wait_start" -> "waiting"
                    [] OTHER               -> "looking"

PhaseOf(s) ==
  CASE s.pc = "idle" -> "idle"
    [] s.pc = "done" -> "answered"
    [] s.pc \in {"prepare", "reset_failed", "start_transient"} -> "starting"
    [] s.pc \in {"stop_unit", "reset_stopped", "poll_stop", "poll_props"} -> "stopping"
    [] OTHER -> LooksFor(s.goal)

OutcomeOf(s) == CASE s.result = Pending   -> "none"
                  [] s.result = Succeeded -> "success"
                  [] OTHER                -> "other"

RequestOf(s) == [kind    |-> IF s.op = "restart_failed" THEN "restart" ELSE s.op,
                 phase   |-> PhaseOf(s),
                 outcome |-> OutcomeOf(s)]

Abstract == INSTANCE Connection WITH
              Requests <- CLI,
              holder   <- IF unit = Absent THEN 0 ELSE unit.id,
              made     <- created,
              request  <- [c \in CLI |-> RequestOf(cli[c])]

-----------------------------------------------------------------------------
(* How many more steps an invocation can take.                             *)

StepsOfLook == [sample |-> 5, get_unit |-> 4, get_service |-> 3, probe |-> 2, attribute |-> 1]

\* A look; everything from prepare to the last poll; everything from StopUnit to
\* the last poll; a restart that has its stop before it.
LookLength    == 5
StartLength   == 3 + LookLength * (Polls + 1)
StopLength    == 4 + 2 * Polls
RestartLength == StopLength + LookLength + StartLength

LeftAfterLook(s) == CASE s.goal = "report"     -> 0
                      [] s.goal = "wait_start" -> LookLength * s.polls
                      [] s.goal = "precheck"   -> StartLength
                      [] OTHER                 -> RestartLength

StepsLeft(s) ==
  CASE s.pc = "idle"            -> 1 + LookLength + RestartLength
    [] s.pc \in DOMAIN StepsOfLook -> StepsOfLook[s.pc] + LeftAfterLook(s)
    [] s.pc = "prepare"         -> StartLength
    [] s.pc = "reset_failed"    -> StartLength - 1
    [] s.pc = "start_transient" -> StartLength - 2
    [] s.pc = "stop_unit"       -> RestartLength
    [] s.pc = "reset_stopped"   -> 3 + 2 * s.polls + LookLength + StartLength
    [] s.pc = "poll_stop"       -> 2 + 2 * s.polls + LookLength + StartLength
    [] s.pc = "poll_props"      -> 1 + 2 * s.polls + LookLength + StartLength
    [] OTHER                    -> 0

-----------------------------------------------------------------------------
(* What has to hold.                                                       *)

\* Every variable keeps its type, and the world is one systemd can be in: the
\* assumption every other statement here rests on (src/supervisor.rs:60-76).
TypeOK ==
  /\ UnitTypeOK
  /\ conn \in Connections
  /\ cli \in [CLI -> Invocations]
  /\ UnitConsistent

\* A restart that finds the name taken when it is about to start has lost it to
\* a unit that somebody else created after its own stop: never does the unit
\* it stopped itself make StartTransientUnit fail with UnitExists
\* (src/commands/mutate.rs:408-428, try_stop_for_restart and
\* unit_safely_recreatable).
RestartConflictMeansRival ==
  \A c \in CLI :
    /\ At(c, "start_transient")
    /\ cli[c].op \in {"restart", "restart_failed"}
    /\ unit # Absent
    => created > cli[c].base

\* A start is never credited to a stranger: when it reports success on a unit
\* it did not see stopping, the port's holder is the process systemd named as
\* MainPID, or has just let the port go, provided /proc names the holder
\* (src/reconcile.rs:402-411, is_running in src/commands/mutate.rs:627).
StartNeverCreditsStranger ==
  [][\A c \in CLI :
       /\ ~Ambiguous
       /\ At(c, "attribute")
       /\ cli[c].op \in StartLike
       /\ cli[c].obs.state # "deactivating"
       /\ cli'[c].result = Succeeded
       => port \in {cli[c].obs.pid, None}]_vars

\* A restart never takes the proxy it has just stopped for the one it was asked
\* to bring up: when it reports success, a unit was created since it found the
\* name free, and the process it saw is no earlier one, however long the old
\* proxy took to let its port go and whoever else started one meanwhile
\* (restart_target and unit_safely_recreatable, src/commands/mutate.rs:383-428, 505-527).
RestartIsANewProcess ==
  [][\A c \in CLI :
       /\ At(c, "attribute")
       /\ cli[c].op \in {"restart", "restart_failed"}
       /\ cli'[c].result = Succeeded
       => /\ created > cli[c].base
          /\ cli[c].obs.pid \notin 0..cli[c].base]_vars

\* A stop that had to call StopUnit reports success only when the unit is
\* unloaded, its process gone and its port given up, however the stopping
\* proxy, systemd and a rival start interleave (wait_for_stop,
\* src/commands/mutate.rs:430-461).
StopWaitsForUnload ==
  [][\A c \in CLI :
       /\ cli[c].op = "stop"
       /\ cli[c].pc \in {"poll_stop", "poll_props"}
       /\ cli'[c].result = Succeeded
       => unit = Absent /\ port \notin Nat]_vars

\* On a disabled Connection only `stop` reaches systemd: no other invocation
\* starts, stops or resets anything (disabled_policy is asked before any I/O,
\* src/commands/mutate.rs:157-170; docs/config.v1.md, "enabled: false").
DisabledIsOnlyStopped ==
  [][\A c \in CLI :
       /\ ~conn.enabled
       /\ cli'[c] # cli[c]
       /\ unitVars' # unitVars
       => cli[c].op = "stop"]_vars

\* An invocation creates at most one unit: it polls until its deadline and
\* never retries the start (try_start and wait_for,
\* src/commands/mutate.rs:238-271, 726-753).
OneStartPerInvocation ==
  created <= 1 + Cardinality({c \in CLI : cli[c].op \in StartLike})

\* Whatever an invocation reads while systemd, the proxy and the others move,
\* it treats the Connection as Connection says: it creates a unit at most once
\* and only in a free name, gets past its own stop only when the name is free,
\* and never goes back to an earlier part of its request
\* (src/commands/mutate.rs:238-271, 320-461, 726-753).
ImplementsConnection == Abstract!Spec

\* Every invocation returns: each wait has a deadline that was fixed when it
\* began, whatever the unit, the proxy and the other invocations do
\* (wait_for and wait_for_stop, src/commands/mutate.rs:440-461, 726-753).
EveryInvocationEnds ==
  \A c \in CLI : ~At(c, "idle") ~> At(c, "done")

\* And after a number of steps that is known when it begins: each uses up one of
\* them at least, in whatever order units come and go and whoever else starts
\* and stops, so that no wait is begun anew (try_start, wait_for_stop and
\* wait_for, src/commands/mutate.rs:238-271, 440-461, 726-753).
StepsRunOut ==
  [][\A c \in CLI : Step(c) => StepsLeft(cli'[c]) \in 0..(StepsLeft(cli[c]) - 1)]_vars

-----------------------------------------------------------------------------
(* What the documents and comments say and the code does not do.           *)

\* "port_in_use: Port open but not owned by our Unit" (docs/reconcile.v1.md:190,
\* docs/status-document.v1.md:177): a start never fails with port_in_use while
\* it is our own unit's process that holds the port. It does: the unit and the
\* port are read one after the other, a queued unit still reads as inactive,
\* and wait_step gives up on the first such row.
PortInUseIsForeign ==
  [][\A c \in CLI :
       /\ At(c, "attribute")
       /\ cli'[c].result = Failed("port_in_use")
       => port \notin Nat]_vars

\* A stop leaves "not-found/inactive instead of a sticky failed row"
\* (docs/reconcile.v1.md, "Lifecycle (not pure Reconcile)"). It does not when
\* the proxy fails while it is stopping: ResetFailedUnit is called as soon as the
\* stop job is queued, before there is a failure to reset.
StopClearsFailed ==
  [][\A c \in CLI :
       /\ At(c, "poll_props")
       /\ cli[c].op = "stop"
       /\ cli'[c].pc = "done"
       => ~StateIs({"failed"})]_vars

\* A start that finds the unit activating waits for it "instead of issuing a
\* redundant start" (src/commands/mutate.rs:247-254). It goes on to start when
\* the row is start_timeout: past the window, or stamped after the clock read.
NoRedundantStart ==
  [][\A c \in CLI :
       /\ At(c, "attribute")
       /\ cli[c].goal = "precheck"
       /\ cli[c].obs.state = "activating"
       => cli'[c].pc # "prepare"]_vars

\* restart --failed repairs "the broken ones without cycling healthy proxies"
\* (docs/cli-contract.v1.md:153). Health is read once, before the stop; a unit
\* that has become healthy since is stopped all the same.
RepairSparesHealthy ==
  [][\A c \in CLI :
       /\ At(c, "stop_unit")
       /\ cli[c].op = "restart_failed"
       /\ unit' # unit
       => ~(StateIs({"active"}) /\ port = unit.id)]_vars

\* "stopped: No managed unit active, port closed, not in a start wait"
\* (docs/status-document.v1.md:137): a stop with nothing to do means that no
\* start is pending. A queued unit is still inactive and reads as stopped.
NothingToStopMeansNoStart ==
  [][\A c \in CLI :
       /\ At(c, "attribute")
       /\ cli[c].op = "stop"
       /\ cli'[c].result = Succeeded
       => ~JobIs("start")]_vars

\* `stop` of a disabled Connection is a "Success no-op" (docs/config.v1.md,
\* "enabled: false"). It stops the unit: stop never asks disabled_policy.
DisabledStopIsNoOp ==
  [][\A c \in CLI :
       /\ ~conn.enabled
       /\ cli'[c] # cli[c]
       => unitVars' = unitVars]_vars

=============================================================================
