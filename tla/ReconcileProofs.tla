-------------------------- MODULE ReconcileProofs --------------------------
(***************************************************************************)
(* What a row says of what was read, for every property set systemd can    *)
(* report, every process id and every reading of the clock.                *)
(***************************************************************************)
EXTENDS ReconcileTable, TLAPS

\* The row is always the one its inputs determine: there is no memory.
RowInv ==
  /\ raw \in Raws \cup {Absent}
  /\ port \in Ports
  /\ monoNow \in Instants
  /\ row = RowAt(raw, port, monoNow)

\* The row is the row of what was read, whenever it was.
LEMMA RowInvariance == Spec => []RowInv
<1>1. Init => RowInv
  BY DEF Init, RowInv
<1>2. RowInv /\ [Next]_vars => RowInv'
  BY DEF RowInv, Next, LookAgain, vars
<1> QED BY <1>1, <1>2, PTL DEF Spec

\* The unit half of the observation.
Obs == MapUnitSnapshot(Snapshot(raw), monoNow)

\* The row is the classification of what was observed.
LEMMA RowIsClassified ==
  ASSUME RowInv
  PROVE  /\ row.state = Classify(Obs, port).state
         /\ row.source = Classify(Obs, port).source
         /\ row.code = Classify(Obs, port).code
         /\ row.portOpen = PortIsOpen(port.probe)
         /\ row.pid = IF row.source = "unit" THEN Obs.pid ELSE None
         /\ row.uptime = IF row.source = "unit" /\ Obs.age # None
                           THEN Obs.age \div 1000 ELSE None
         /\ PortIsOpen(port.probe) <=> Open
BY DEF RowInv, RowAt, ReconcileRow, Obs, PortIsOpen, Open

\* A unit that is not loaded is observed as idle.
LEMMA AbsentObserved ==
  ASSUME RowInv, raw = Absent PROVE Obs.state = "idle"
BY DEF Obs, MapUnitSnapshot, Snapshot, IdleObservation, UnitObservation

\* A loaded unit is observed as its raw properties say.
LEMMA LoadedObserved ==
  ASSUME RowInv, raw # Absent
  PROVE  /\ Obs.pid = IF raw.mainPid = 0 THEN None ELSE raw.mainPid
         /\ Obs.age = StartedAgo(IF raw.start = 0 THEN None ELSE raw.start, monoNow)
         /\ LET mapped == MapActiveState(raw.active, raw.result,
                                         ExecOutcome(raw.code, raw.status))
            IN  Obs.state = mapped.state /\ Obs.signal = mapped.signal
<1> DEFINE snapshot == Snapshot(raw)
<1>1. /\ snapshot.active = raw.active /\ snapshot.result = raw.result
      /\ snapshot.pid = IF raw.mainPid = 0 THEN None ELSE raw.mainPid
      /\ snapshot.exec = ExecOutcome(raw.code, raw.status)
      /\ snapshot.start = IF raw.start = 0 THEN None ELSE raw.start
  BY DEF Snapshot
<1>2. snapshot # Absent
  BY AbsentIsNoSnapshot DEF RowInv
<1> QED BY <1>1, <1>2 DEF Obs, MapUnitSnapshot, UnitObservation

\* The two comparisons of reconcile.rs are those of the truth table: the
\* listener with MainPID, and the age with the start window.
LEMMA ComparisonsAgree ==
  ASSUME RowInv, raw # Absent
  PROVE  /\ ListenerMatchesUnit(Obs.pid, port.listener) <=> OursOrUnknown
         /\ WithinStartWindow(Obs.age) <=> Inside
         /\ Obs.pid = None <=> raw.mainPid = 0
<1>1. /\ raw.mainPid \in Nat /\ raw.start \in Nat /\ monoNow \in Nat
      /\ port.listener \in (Nat \ {0}) \cup {None}
  BY RawsAssumption, ListenersAssumption, InstantsAssumption DEF RowInv, Ports
<1>2. ListenerMatchesUnit(Obs.pid, port.listener) <=> OursOrUnknown
  BY <1>1, LoadedObserved, NoneAssumption DEF ListenerMatchesUnit, OursOrUnknown, MainPid
<1>3. WithinStartWindow(Obs.age) <=> Inside
  BY <1>1, LoadedObserved, NoneAssumption
     DEF WithinStartWindow, Inside, StartedAgo, START_WINDOW
<1>4. Obs.pid = None <=> raw.mainPid = 0
  BY <1>1, LoadedObserved, NoneAssumption
<1> QED BY <1>2, <1>3, <1>4

\* What a failed unit's Result= and ExecMainCode are taken for.
LEMMA FailedObserved ==
  ASSUME RowInv, raw # Absent, raw.active = "failed"
  PROVE  /\ Obs.state = "failed"
         /\ ClassifyFailureSignal(Obs.signal) = "clean_stop" <=> CleanTermination
<1>1. /\ Obs.state = "failed"
      /\ Obs.signal = FailureSignal(raw.result, ExecOutcome(raw.code, raw.status))
  BY LoadedObserved DEF MapActiveState
<1>2. raw.code \in Int /\ raw.status \in Int
  BY RawsAssumption DEF RowInv
<1> QED
  BY <1>1, <1>2
     DEF ClassifyFailureSignal, CleanStopSignal, CleanTermination, FailureSignal,
         ResultAndExecAgree, ExecStatusValue, ExecOutcome, ConservativeCrashSignal

-----------------------------------------------------------------------------

\* One case per ActiveState.
LEMMA RowFollowsTable == ASSUME RowInv PROVE RowMatchesTruthTable
<1> USE RowIsClassified DEF RowMatchesTruthTable, Idle, In, Is, Classify, Outcome
<1>1. CASE raw = Absent
  BY <1>1, AbsentObserved DEF ClassifyInactive
<1>2. CASE raw # Absent /\ raw.active = "inactive"
  <2>1. Obs.state = "idle"
    BY <1>2, LoadedObserved DEF MapActiveState
  <2> QED BY <1>2, <2>1 DEF ClassifyInactive
<1>3. CASE raw # Absent /\ raw.active = "activating"
  <2>1. Obs.state = "activating"
    BY <1>3, LoadedObserved DEF MapActiveState
  <2> QED
    BY <1>3, <2>1, ComparisonsAgree DEF ClassifyActivating, OpenUnderUnit, Attributed
<1>4. CASE raw # Absent /\ raw.active = "active"
  <2>1. Obs.state = "active"
    BY <1>4, LoadedObserved DEF MapActiveState
  <2> QED
    BY <1>4, <2>1, ComparisonsAgree DEF ClassifyActive, OpenUnderUnit
<1>5. CASE raw # Absent /\ raw.active = "deactivating"
  <2>1. Obs.state = "deactivating"
    BY <1>5, LoadedObserved DEF MapActiveState
  <2> QED BY <1>5, <2>1 DEF ClassifyDeactivating, Attributed
<1>6. CASE raw # Absent /\ raw.active = "failed"
  BY <1>6, FailedObserved, ComparisonsAgree DEF ClassifyFailed, Attributed, MainPid
<1>7. CASE /\ raw # Absent
           /\ raw.active \notin {"inactive", "activating", "active", "deactivating",
                                 "failed"}
  BY <1>7
<1> QED BY <1>1, <1>2, <1>3, <1>4, <1>5, <1>6, <1>7

\* What the CLI reports is what the truth table says (docs/reconcile.v1.md).
THEOREM TruthTable == Spec => []RowMatchesTruthTable
BY RowFollowsTable, RowInvariance, PTL

\* What this version cannot read is an error (src/commands/status.rs:201-252).
THEOREM UnreadableIsError == Spec => []NeverSilentlyHealthy
<1>1. ASSUME RowInv PROVE NeverSilentlyHealthy
  <2> SUFFICES ASSUME raw # Absent PROVE NeverSilentlyHealthy
    BY DEF NeverSilentlyHealthy
  <2>1. CASE raw.active \notin KnownActiveStates
    <3>1. /\ Obs.state = "failed"
          /\ Obs.signal = ConservativeCrashSignal
      BY <1>1, <2>1, LoadedObserved DEF MapActiveState, KnownActiveStates
    <3>2. ClassifyFailureSignal(Obs.signal) # "clean_stop"
      BY <3>1 DEF ConservativeCrashSignal, ClassifyFailureSignal, CleanStopSignal
    <3>3. row.state = "error"
      BY <1>1, <3>1, <3>2, RowIsClassified DEF Classify, ClassifyFailed, Outcome
    <3> QED BY <2>1, <3>3 DEF NeverSilentlyHealthy, KnownActiveStates
  <2>2. CASE raw.active = "failed"
    <3>1. ~CleanTermination => row.state = "error"
      BY <1>1, <2>2, FailedObserved, RowIsClassified
         DEF Classify, ClassifyFailed, Outcome
    <3>2. /\ raw.code \notin {1, 2, 3} => ~CleanTermination
          /\ raw.result = "signal" /\ raw.code = 1 => ~CleanTermination
          /\ raw.result \in {"success", "exit-code"} /\ raw.code # 1 => ~CleanTermination
      BY DEF CleanTermination
    <3> QED BY <2>2, <3>1, <3>2 DEF NeverSilentlyHealthy, KnownActiveStates
  <2>3. CASE raw.active \in KnownActiveStates \ {"failed"}
    BY <2>3 DEF NeverSilentlyHealthy, KnownActiveStates
  <2> QED BY <2>1, <2>2, <2>3 DEF KnownActiveStates
<1> QED BY <1>1, RowInvariance, PTL

\* The five states an observation can be in.
LEMMA ObsStates ==
  ASSUME RowInv
  PROVE  Obs.state \in {"idle", "activating", "active", "deactivating", "failed"}
<1>1. CASE raw = Absent
  BY <1>1, AbsentObserved
<1>2. CASE raw # Absent
  BY <1>2, LoadedObserved DEF MapActiveState
<1> QED BY <1>1, <1>2

\* Error codes with errors, processes with our Unit
\* (docs/reconcile.v1.md, "Outputs (Status row)"; src/reconcile.rs:175-184).
THEOREM WellFormed == Spec => []RowIsWellFormed
<1>1. ASSUME RowInv PROVE RowIsWellFormed
  <2>1. Classify(Obs, port).state = "error" <=> Classify(Obs, port).code # NoError
    BY <1>1, ObsStates
       DEF Classify, ClassifyInactive, ClassifyActivating, ClassifyActive,
           ClassifyDeactivating, ClassifyFailed, OpenUnderUnit, Outcome, NoError
  <2>2. Classify(Obs, port).state = "running" =>
          /\ Classify(Obs, port).source = "unit"
          /\ PortIsOpen(port.probe)
    BY <1>1, ObsStates
       DEF Classify, ClassifyInactive, ClassifyActivating, ClassifyActive,
           ClassifyDeactivating, ClassifyFailed, OpenUnderUnit, Outcome
  <2> QED BY <1>1, <2>1, <2>2, RowIsClassified DEF RowIsWellFormed
<1> QED BY <1>1, RowInvariance, PTL

\* A unit that is coming up, inside its window.
Coming == (In("activating") \/ In("active")) /\ ~Open /\ Inside

\* Only such a unit is reported as starting.
LEMMA StartingMeans == RowInv /\ row.state = "starting" => Coming
<1> SUFFICES ASSUME RowInv, row.state = "starting" PROVE Coming
  OBVIOUS
<1>1. raw # Absent
  BY AbsentObserved, RowIsClassified DEF Classify, ClassifyInactive, Outcome
<1>2. /\ Obs.state \in {"activating", "active"}
      /\ ~Open
      /\ WithinStartWindow(Obs.age)
  BY ObsStates, RowIsClassified
     DEF Classify, ClassifyInactive, ClassifyActivating, ClassifyActive,
         ClassifyDeactivating, ClassifyFailed, OpenUnderUnit, Outcome
<1>3. raw.active \in {"activating", "active"}
  BY <1>1, <1>2, LoadedObserved DEF MapActiveState
<1> QED BY <1>1, <1>2, <1>3, ComparisonsAgree DEF Coming, In

\* "Do not leave the row in eternal starting" (docs/reconcile.v1.md:124).
THEOREM StartingEnds == Spec => StartingOnlyEnds
<1> DEFINE Ends ==
      row.state # "starting" /\ raw # Absent
        /\ StartedAgo(raw.start, monoNow) # None => row'.state # "starting"
<1>0. (RowInv /\ row.state = "starting" => Coming)'
  BY StartingMeans, PTL
<1>1. RowInv /\ RowInv' /\ [Next]_vars => [Ends]_vars
  <2> SUFFICES ASSUME RowInv, RowInv', Next, raw # Absent,
                      StartedAgo(raw.start, monoNow) # None, row'.state = "starting"
               PROVE  row.state = "starting"
    BY DEF vars
  <2>1. PICK t \in Instants : t > monoNow /\ monoNow' = t /\ raw' = raw /\ port' = port
    BY DEF Next, LookAgain
  <2>2. Coming'
    BY <1>0
  <2>3. (In("activating") \/ In("active")) /\ ~Open
    BY <2>1, <2>2 DEF Coming, In, Open
  <2>4. raw.start \in Nat /\ monoNow \in Nat /\ t \in Nat
    BY <2>1, RawsAssumption, InstantsAssumption DEF RowInv
  <2>5. Inside
    BY <2>1, <2>2, <2>4, NoneAssumption DEF Coming, Inside, StartedAgo
  <2> QED
    BY <2>3, <2>5, RowFollowsTable DEF RowMatchesTruthTable, Is
<1> QED BY <1>1, RowInvariance, PTL DEF Spec, StartingOnlyEnds

=============================================================================
