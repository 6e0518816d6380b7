----------------------------- MODULE Reconcile -----------------------------
(***************************************************************************)
(* The pure part of every observation: how a systemd snapshot of a         *)
(* Connection's Unit and a probe of its TCP port become one Status row     *)
(* (src/commands/status.rs, "UnitSnapshot -> UnitObservation", and the     *)
(* whole of src/reconcile.rs).                                             *)
(*                                                                         *)
(* There is no state here: Lifecycle uses these operators at the end of    *)
(* each observation, ReconcileTable checks them against the truth table of *)
(* docs/reconcile.v1.md over all bounded inputs, and ReconcileProofs       *)
(* proves the same agreement for every process id and every instant.       *)
(*                                                                         *)
(* Data kept: PIDs are compared for equality only; instants are            *)
(* CLOCK_MONOTONIC readings; a started_at/now pair is kept as its          *)
(* difference, the age, which is all reconcile.rs computes from it.        *)
(***************************************************************************)
EXTENDS Integers

CONSTANTS None,     \* Rust's Option::None: no process, no timestamp, no listener
          Absent    \* UnitSnapshot::Absent

ASSUME NoneAssumption == None \notin Nat

START_WINDOW == 10000

NoError == "null"

-----------------------------------------------------------------------------
(* From D-Bus properties to the vocabulary of reconcile.rs.                *)

\* Decode ExecMainCode: SIGCHLD si_code values name what ExecMainStatus is.
ExecOutcome(code, status) ==
  [kind   |-> CASE code = 0        -> "not_exited"
                [] code = 1        -> "exit"
                [] code \in {2, 3} -> "signal"
                [] OTHER           -> "unknown",
   status |-> status]

ExecStatusValue(exec) == IF exec.kind = "not_exited" THEN 0 ELSE exec.status

\* A signal that is neither a clean stop nor an exec failure.
ConservativeCrashSignal == [result |-> "signal", status |-> -1]

\* A Result= that names how the main process ended is believed only together
\* with an ExecMainCode that says the same.
ResultAndExecAgree(result, exec) ==
  \/ result = "success"   /\ exec.kind = "exit" /\ exec.status = 0
  \/ result = "exit-code" /\ exec.kind = "exit"
  \/ result = "signal"    /\ exec.kind = "signal"
  \/ result \in {"core-dump", "timeout", "exec-condition"}

\* Mutant: Result= is believed whatever ExecMainCode says.
ResultBelievedAlone(result, exec) ==
  IF result \in {"success", "exit-code", "signal",
                 "core-dump", "timeout", "exec-condition"}
    THEN [result |-> result, status |-> ExecStatusValue(exec)]
    ELSE ConservativeCrashSignal

FailureSignal(result, exec) ==
  IF ResultAndExecAgree(result, exec)
    THEN [result |-> result, status |-> ExecStatusValue(exec)]
    ELSE ConservativeCrashSignal

\* ActiveState to reconcile's UnitState. Only a failed unit carries a signal;
\* a state this version does not know is a failure, never health.
MapActiveState(active, result, exec) ==
  CASE active = "inactive" -> [state |-> "idle", signal |-> ConservativeCrashSignal]
    [] active \in {"activating", "active", "deactivating"} ->
         [state |-> active, signal |-> ConservativeCrashSignal]
    [] active = "failed" -> [state |-> "failed", signal |-> FailureSignal(result, exec)]
    [] OTHER -> [state |-> "failed", signal |-> ConservativeCrashSignal]

\* How long before monoNow the start attempt was stamped. A stamp later than
\* the reading of the clock (the read raced the start) gives None, not zero.
StartedAgo(start, monoNow) ==
  IF start = None \/ monoNow = None THEN None
  ELSE IF start > monoNow THEN None
  ELSE monoNow - start

\* A UnitObservation from its parts: MainPID and the age of the start attempt.
UnitObservation(unitState, pid, age) ==
  [state |-> unitState.state, signal |-> unitState.signal, pid |-> pid, age |-> age]

IdleObservation ==
  UnitObservation([state |-> "idle", signal |-> ConservativeCrashSignal], None, None)

MapUnitSnapshot(snapshot, monoNow) ==
  IF snapshot = Absent
    THEN IdleObservation
    ELSE UnitObservation(
           MapActiveState(snapshot.active, snapshot.result, snapshot.exec),
           snapshot.pid,
           StartedAgo(snapshot.start, monoNow))

-----------------------------------------------------------------------------
(* reconcile.rs.                                                           *)

\* A "(Signal, 15)" arm may only match when the whole pair does.
CleanStopSignal(signal) ==
  \/ signal.result = "success"
  \/ signal.result = "exit-code" /\ signal.status \in {0, 143}
  \/ signal.result = "signal"    /\ signal.status = 15

ClassifyFailureSignal(signal) ==
  CASE CleanStopSignal(signal)             -> "clean_stop"
    [] signal.result = "exec-condition"    -> "exec_failed"
    [] OTHER                               -> "crashed"

\* Mutant: the listener is never compared with MainPID.
AnyListenerMatches(mainPid, listener) == TRUE

\* An unknown holder is trusted to be ours; a known one must be our MainPID.
ListenerMatchesUnit(mainPid, listener) == listener = None \/ listener = mainPid

PortIsOpen(probe) == probe = "open"

\* Mutant: the comparison is turned round.
InvertedStartWindow(age) == IF age = None THEN FALSE ELSE age > START_WINDOW

\* No timestamp counts as outside the window, so nothing starts for ever.
WithinStartWindow(age) == IF age = None THEN FALSE ELSE age <= START_WINDOW

Outcome(state, source, code) == [state |-> state, source |-> source, code |-> code]

Attributed(unit) == IF unit.pid = None THEN "none" ELSE "unit"

ClassifyInactive(open) ==
  IF open THEN Outcome("error", "none", "port_in_use")
          ELSE Outcome("stopped", "none", NoError)

OpenUnderUnit(unit, port) ==
  IF ListenerMatchesUnit(unit.pid, port.listener)
    THEN Outcome("running", "unit", NoError)
    ELSE Outcome("error", "unit", "port_in_use")

ClassifyActivating(unit, port) ==
  CASE PortIsOpen(port.probe)      -> OpenUnderUnit(unit, port)
    [] WithinStartWindow(unit.age) /\ ~PortIsOpen(port.probe) ->
         Outcome("starting", Attributed(unit), NoError)
    [] OTHER                       -> Outcome("error", "unit", "start_timeout")

ClassifyActive(unit, port) ==
  CASE PortIsOpen(port.probe)      -> OpenUnderUnit(unit, port)
    [] WithinStartWindow(unit.age) /\ ~PortIsOpen(port.probe) ->
         Outcome("starting", "unit", NoError)
    [] OTHER                       -> Outcome("error", "unit", "unit_failed")

\* Whoever holds the port: the listener's PID is not looked at.
ClassifyDeactivating(unit, open) ==
  IF open THEN Outcome("running", "unit", NoError)
          ELSE Outcome("stopped", Attributed(unit), NoError)

\* A clean stop needs a closed port and no process left.
ClassifyFailed(unit, open) ==
  LET kind == ClassifyFailureSignal(unit.signal) IN
  IF kind = "clean_stop" /\ ~open /\ unit.pid = None
    THEN Outcome("stopped", "none", NoError)
    ELSE Outcome("error", Attributed(unit),
                 IF kind = "exec_failed" THEN "exec_failed" ELSE "unit_failed")

Classify(unit, port) ==
  CASE unit.state = "idle"         -> ClassifyInactive(PortIsOpen(port.probe))
    [] unit.state = "activating"   -> ClassifyActivating(unit, port)
    [] unit.state = "active"       -> ClassifyActive(unit, port)
    [] unit.state = "deactivating" -> ClassifyDeactivating(unit, PortIsOpen(port.probe))
    [] unit.state = "failed"       -> ClassifyFailed(unit, PortIsOpen(port.probe))

\* Mutant: pid and uptime are copied for rows no process of ours backs.
ReconcileKeepingPid(unit, port) ==
  LET outcome == Classify(unit, port) IN
  [state    |-> outcome.state,
   source   |-> outcome.source,
   code     |-> outcome.code,
   portOpen |-> PortIsOpen(port.probe),
   pid      |-> unit.pid,
   uptime   |-> IF unit.age = None THEN None ELSE unit.age \div 1000]

\* The Status row: pid and uptime only for a process attributed to our Unit.
ReconcileRow(unit, port) ==
  LET outcome == Classify(unit, port) IN
  [state    |-> outcome.state,
   source   |-> outcome.source,
   code     |-> outcome.code,
   portOpen |-> PortIsOpen(port.probe),
   pid      |-> IF outcome.source = "unit" THEN unit.pid ELSE None,
   uptime   |-> IF outcome.source = "unit" /\ unit.age # None
                  THEN unit.age \div 1000 ELSE None]

\* What is reported without any I/O for an address that is no IP address.
InvalidAddressRow ==
  [state |-> "error", source |-> "none", code |-> "config",
   portOpen |-> FALSE, pid |-> None, uptime |-> None]

=============================================================================
