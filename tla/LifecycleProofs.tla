-------------------------- MODULE LifecycleProofs --------------------------
(***************************************************************************)
(* Theorems about Lifecycle, for any number of invocations, any poll       *)
(* budget, any set of subcommands and Connections, with and without faults *)
(* and ambiguous listeners.                                                *)
(***************************************************************************)
EXTENDS Lifecycle, SystemdUnitProofs

-----------------------------------------------------------------------------
(* What an invocation reads and concludes has its type.                    *)

\* An invocation that has read nothing is typed.
LEMMA BlankReadingsTyped ==
  NoClock \in Clocks /\ IdleObservation \in Observations
BY DEF NoClock, Clocks, IdleObservation, UnitObservation, ConservativeCrashSignal,
       Observations, Signals, Ages

\* So is one that has not begun.
LEMMA NewInvocationTyped == NewInvocation \in Invocations
BY BlankReadingsTyped, PollsAssumption
   DEF NewInvocation, Invocations, Steps, Goals, ActiveStates, Pending, Results

\* Replacing one typed record by another keeps the function typed.
LEMMA BecomeTyped ==
  ASSUME cli \in [CLI -> Invocations], NEW c \in CLI, NEW s \in Invocations, Become(c, s)
  PROVE  cli' \in [CLI -> Invocations]
BY DEF Become

\* Dropping the readings keeps what the invocation is doing.
LEMMA ForgetTyped ==
  ASSUME NEW s \in Invocations
  PROVE  /\ Forget(s) \in Invocations
         /\ Forget(s).op = s.op /\ Forget(s).goal = s.goal /\ Forget(s).polls = s.polls
         /\ Forget(s).result = s.result /\ Forget(s).base = s.base
BY BlankReadingsTyped DEF Forget, Invocations, ActiveStates

\* A move to another step.
LEMMA GotoTyped ==
  ASSUME cli \in [CLI -> Invocations], NEW c \in CLI, NEW step \in Steps, Goto(c, step)
  PROVE  cli' \in [CLI -> Invocations]
<1>1. [Forget(cli[c]) EXCEPT !.pc = step] \in Invocations
  BY ForgetTyped DEF Invocations
<1> QED BY <1>1, BecomeTyped DEF Goto

\* A move to a new observation.
LEMMA ObserveTyped ==
  ASSUME cli \in [CLI -> Invocations], NEW c \in CLI, NEW goal \in Goals,
         NEW polls \in 0..Polls, Observe(c, goal, polls)
  PROVE  cli' \in [CLI -> Invocations]
<1> DEFINE s == Forget(cli[c])
<1>1. s \in Invocations
  BY ForgetTyped
<1>2. "sample" \in Steps
  BY DEF Steps
<1> HIDE DEF s
<1>3. [s EXCEPT !.pc = "sample", !.goal = goal, !.polls = polls] \in Invocations
  BY <1>1, <1>2 DEF Invocations
<1> QED BY <1>3, BecomeTyped DEF Observe, s

\* A move to the end.
LEMMA FinishTyped ==
  ASSUME cli \in [CLI -> Invocations], NEW c \in CLI, NEW result \in Results,
         Finish(c, result)
  PROVE  cli' \in [CLI -> Invocations]
<1>1. cli[c].op \in Ops \cup {"none"}
  BY DEF Invocations
<1>2. [NewInvocation EXCEPT !.op = cli[c].op, !.pc = "done", !.result = result] \in Invocations
  BY <1>1, NewInvocationTyped DEF Invocations, Steps
<1> QED BY <1>2, BecomeTyped DEF Finish

\* What classify can answer, for whatever it is given.
LEMMA RowTyped ==
  ASSUME NEW obs \in Observations, NEW probe, NEW listener
  PROVE  LET row == ReconcileRow(obs, [probe |-> probe, listener |-> listener])
         IN  /\ row.state \in HealthStates
             /\ row.code \in {NoError, "port_in_use", "start_timeout", "unit_failed",
                              "exec_failed"}
<1> DEFINE seen == [probe |-> probe, listener |-> listener]
<1>1. /\ Classify(obs, seen).state \in HealthStates
      /\ Classify(obs, seen).code \in {NoError, "port_in_use", "start_timeout",
                                       "unit_failed", "exec_failed"}
  BY DEF Classify, ClassifyInactive, ClassifyActivating, ClassifyActive,
         ClassifyDeactivating, ClassifyFailed, OpenUnderUnit, Outcome, Observations,
         HealthStates
<1> QED BY <1>1 DEF ReconcileRow

\* The results an invocation ends with.
LEMMA ResultsTyped ==
  /\ {Pending, Succeeded, Refused, Unselected, Dependency} \subseteq Results
  /\ \A code \in Codes : Failed(code) \in Results
  /\ \A state \in HealthStates : Reported(state) \in Results
BY DEF Results

\* Judging a row leaves the invocation with a next step or a result.
LEMMA DecideTyped ==
  ASSUME cli \in [CLI -> Invocations], NEW c \in CLI, NEW row,
         row.state \in HealthStates, row.code \in Codes \cup {NoError},
         Decide(c, row)
  PROVE  cli' \in [CLI -> Invocations]
<1>1. cli[c].goal \in Goals /\ cli[c].polls \in 0..Polls
  BY DEF Invocations
<1>2. CASE cli[c].goal = "report"
  BY <1>2, FinishTyped, ResultsTyped DEF Decide
<1>3. CASE cli[c].goal = "gather"
  BY <1>3, FinishTyped, GotoTyped, ResultsTyped DEF Decide, RestartFailedOnly, Steps
<1>4. CASE cli[c].goal = "stop_check"
  BY <1>4, FinishTyped, GotoTyped, ResultsTyped DEF Decide, TryStop, Steps
<1>5. CASE cli[c].goal = "precheck"
  <2>1. TryStart(c, row)
    BY <1>5 DEF Decide
  <2>2. Polls \in 0..Polls
    BY PollsAssumption
  <2> QED
    BY <2>1, <2>2, FinishTyped, GotoTyped, ObserveTyped, ResultsTyped
       DEF TryStart, Steps, Goals, Codes
<1>6. CASE cli[c].goal = "wait_start"
  <2>1. WaitStep(c, row)
    BY <1>6 DEF Decide
  <2>2. CASE IsRunning(row)
    BY <2>1, <2>2, FinishTyped, ResultsTyped DEF WaitStep
  <2>3. CASE ~IsRunning(row) /\ IsPermanentStartFailure(row.code)
    <3>1. row.code \in Codes
      BY <2>3 DEF IsPermanentStartFailure, NoError
    <3> QED BY <2>1, <2>3, <3>1, FinishTyped, ResultsTyped DEF WaitStep
  <2>4. CASE ~IsRunning(row) /\ ~IsPermanentStartFailure(row.code)
    <3>1. (IF row.code = NoError THEN "start_timeout" ELSE row.code) \in Codes
      BY DEF Codes
    <3>2. \/ Finish(c, Failed(IF row.code = NoError THEN "start_timeout" ELSE row.code))
          \/ cli[c].polls > 0 /\ Observe(c, "wait_start", cli[c].polls - 1)
      BY <2>1, <2>4 DEF WaitStep
    <3>3. cli[c].polls > 0 => cli[c].polls - 1 \in 0..Polls
      BY <1>1, PollsAssumption
    <3> QED BY <3>1, <3>2, <3>3, FinishTyped, ObserveTyped, ResultsTyped DEF Goals
  <2> QED BY <2>2, <2>3, <2>4
<1> QED BY <1>1, <1>2, <1>3, <1>4, <1>5, <1>6 DEF Goals

\* The part of a snapshot that reconcile uses has its type.
LEMMA ObservationTyped ==
  ASSUME NEW active \in ActiveStates, NEW ending \in Endings,
         NEW pid \in Nat \cup {None}, NEW age \in Ages
  PROVE  UnitObservation(MapActiveState(active, ending.result, ending.exec), pid, age)
           \in Observations
<1>1. FailureSignal(ending.result, ending.exec) \in Signals
  BY DEF FailureSignal, ResultAndExecAgree, ExecStatusValue, ConservativeCrashSignal,
         Signals, Endings, NotEnded, CleanExit, Crash, ExecFailure, FailedStops,
         Ending, Exited, Killed
<1>2. ConservativeCrashSignal \in Signals
  BY DEF ConservativeCrashSignal, Signals
<1> QED
  BY <1>1, <1>2 DEF UnitObservation, MapActiveState, ActiveStates, Observations

-----------------------------------------------------------------------------
(* Every step of an invocation keeps its own record typed and the world    *)
(* consistent.                                                             *)

\* A snapshot is kept as an observation.
LEMMA SnapshotTyped ==
  ASSUME UnitOK, cli \in [CLI -> Invocations], NEW c \in CLI, NEW u \in Units, Snapshot(c, u)
  PROVE  cli' \in [CLI -> Invocations]
<1> DEFINE s   == Forget(cli[c])
           obs == UnitObservation(
                    MapActiveState(cli[c].active, u.ending.result, u.ending.exec),
                    MainPid, AgeOf(u, cli[c].clock))
<1>1. MainPid \in Nat \cup {None}
  BY DEF UnitOK, UnitTypeOK, MainPid, HasProcess, Units
<1>2. AgeOf(u, cli[c].clock) \in Ages
  BY DEF AgeOf, Ages
<1>3. u.ending \in Endings /\ cli[c].active \in ActiveStates
  BY DEF Units, Invocations
<1>4. obs \in Observations
  BY <1>1, <1>2, <1>3, ObservationTyped
<1>5. s \in Invocations
  BY ForgetTyped
<1> HIDE DEF s, obs
<1>6. [s EXCEPT !.pc = "probe", !.obs = obs] \in Invocations
  BY <1>4, <1>5 DEF Invocations, Steps
<1> QED BY <1>6, BecomeTyped DEF Snapshot, s, obs

\* A turn of wait_for_stop.
LEMMA JudgeStopTyped ==
  ASSUME UnitOK, cli \in [CLI -> Invocations], NEW c \in CLI, NEW u, JudgeStop(c, u)
  PROVE  cli' \in [CLI -> Invocations]
<1>1. cli[c] \in Invocations
  OBVIOUS
<1>2. CASE Finish(c, Succeeded) \/ Finish(c, Failed("unknown"))
  BY <1>2, FinishTyped, ResultsTyped DEF Codes
<1>3. CASE Become(c, [cli[c] EXCEPT !.pc = "sample", !.goal = "precheck",
                                     !.polls = Polls, !.base = created])
  <2>1. [cli[c] EXCEPT !.pc = "sample", !.goal = "precheck", !.polls = Polls,
                       !.base = created] \in Invocations
    <3>1. /\ "sample" \in Steps /\ "precheck" \in Goals
          /\ Polls \in 0..Polls /\ created \in Nat
      BY PollsAssumption DEF Steps, Goals, UnitOK, UnitTypeOK
    <3> QED BY <1>1, <3>1 DEF Invocations
  <2> QED BY <1>3, <2>1, BecomeTyped
<1>4. CASE /\ cli[c].polls > 0
           /\ Become(c, [cli[c] EXCEPT !.pc = "poll_stop", !.polls = @ - 1])
  <2>1. [cli[c] EXCEPT !.pc = "poll_stop", !.polls = @ - 1] \in Invocations
    <3>1. cli[c].polls \in 0..Polls
      BY <1>1 DEF Invocations
    <3>2. cli[c].polls - 1 \in 0..Polls /\ "poll_stop" \in Steps
      BY <1>4, <3>1, PollsAssumption DEF Steps
    <3> QED BY <1>1, <3>2 DEF Invocations
  <2> QED BY <1>4, <2>1, BecomeTyped
<1> QED BY <1>2, <1>3, <1>4 DEF JudgeStop, Stopped

\* One step of one invocation, case by case.
LEMMA StepTyped ==
  ASSUME TypeOK, NEW c \in CLI, Step(c)
  PROVE  TypeOK'
<1> USE DEF TypeOK, UnitOK
<1>0. cli \in [CLI -> Invocations] /\ cli[c] \in Invocations /\ UnitOK
  OBVIOUS
<1> DEFINE Typed == cli' \in [CLI -> Invocations]
<1>a. ASSUME UNCHANGED <<unitVars, conn>>, Typed PROVE TypeOK'
  BY <1>0, <1>a DEF unitVars, UnitTypeOK, UnitConsistent, MainPid, HasProcess
<1>b. ASSUME UnitOK', conn' = conn, Typed PROVE TypeOK'
  BY <1>b
<1>1. CASE Begin(c)
  <2> PICK op \in Ops :
        LET s == [cli[c] EXCEPT !.op = op] IN
        CASE DisabledPolicyRefuses(op) ->
               Become(c, [s EXCEPT !.pc = "done", !.result = Refused])
          [] op = "restart" /\ ~DisabledPolicyRefuses(op) ->
               Become(c, [s EXCEPT !.pc = "stop_unit", !.goal = "precheck"])
          [] OTHER ->
               Become(c, [s EXCEPT !.pc = "sample", !.goal = FirstGoal(op)])
    BY <1>1 DEF Begin
  <2> DEFINE s == [cli[c] EXCEPT !.op = op]
  <2>1. s \in Invocations
    BY <1>0 DEF Invocations
  <2>2. FirstGoal(op) \in Goals /\ "precheck" \in Goals
    BY DEF FirstGoal, Goals
  <2>3. {"done", "stop_unit", "sample"} \subseteq Steps
    BY DEF Steps
  <2> HIDE DEF s
  <2>4. /\ [s EXCEPT !.pc = "done", !.result = Refused] \in Invocations
        /\ [s EXCEPT !.pc = "stop_unit", !.goal = "precheck"] \in Invocations
        /\ [s EXCEPT !.pc = "sample", !.goal = FirstGoal(op)] \in Invocations
    BY <2>1, <2>2, <2>3, ResultsTyped DEF Invocations
  <2>5. Typed
    BY <1>0, <2>4, BecomeTyped DEF s
  <2> QED BY <1>1, <1>a, <2>5 DEF Begin
<1>2. CASE Sample(c)
  <2>1. ReadClock(unit) \in Clocks
    BY DEF ReadClock, NoClock, Clocks, UnitTypeOK, Units
  <2>2. [cli[c] EXCEPT !.pc = "get_unit", !.clock = ReadClock(unit)] \in Invocations
    BY <1>0, <2>1 DEF Invocations, Steps
  <2>3. InvalidAddressRow.state \in HealthStates /\ InvalidAddressRow.code \in Codes
    BY DEF InvalidAddressRow, HealthStates, Codes
  <2>4. Typed
    BY <1>0, <1>2, <2>2, <2>3, BecomeTyped, DecideTyped DEF Sample
  <2> QED BY <1>2, <1>a, <2>4 DEF Sample
<1>3. CASE GetUnit(c)
  <2>1. unit # Absent => [cli[c] EXCEPT !.pc = "get_service", !.active = unit.active]
                           \in Invocations
    BY <1>0 DEF Invocations, Steps, UnitTypeOK, Units
  <2>2. Typed
    BY <1>0, <1>3, <2>1, BecomeTyped, GotoTyped DEF GetUnit, Steps
  <2> QED BY <1>3, <1>a, <2>2 DEF GetUnit
<1>4. CASE GetService(c)
  <2>1. NotFound \in Units
    BY EndingsTyped DEF NotFound, Units, ActiveStates
  <2>2. Typed
    BY <1>0, <1>4, <2>1, SnapshotTyped, FinishTyped, ResultsTyped
       DEF GetService, Codes, UnitTypeOK
  <2> QED BY <1>4, <1>a, <2>2 DEF GetService
<1>5. CASE Probe(c)
  <2>1. [cli[c] EXCEPT !.pc = "attribute", !.open = port # None] \in Invocations
    BY <1>0 DEF Invocations, Steps
  <2>2. Typed
    BY <1>0, <1>5, <2>1, BecomeTyped DEF Probe
  <2> QED BY <1>5, <1>a, <2>2 DEF Probe
<1>6. CASE Attribute(c)
  <2>1. PICK listener \in ListenersSeen :
          Decide(c, ReconcileRow(cli[c].obs,
                      [probe    |-> IF cli[c].open THEN "open" ELSE "closed",
                       listener |-> listener]))
    BY <1>6 DEF Attribute
  <2> DEFINE row == ReconcileRow(cli[c].obs,
                      [probe    |-> IF cli[c].open THEN "open" ELSE "closed",
                       listener |-> listener])
  <2>2. cli[c].obs \in Observations
    BY <1>0 DEF Invocations
  <2>3. row.state \in HealthStates /\ row.code \in Codes \cup {NoError}
    BY <2>2, RowTyped DEF Codes
  <2> HIDE DEF row
  <2>4. Typed
    BY <1>0, <2>1, <2>3, DecideTyped DEF row
  <2> QED BY <1>6, <1>a, <2>4 DEF Attribute
<1>7. CASE Prepare(c)
  <2>1. Typed
    BY <1>0, <1>7, FinishTyped, GotoTyped, ResultsTyped DEF Prepare, Steps, Codes
  <2> QED BY <1>7, <1>a, <2>1 DEF Prepare
<1>8. CASE ResetBeforeStart(c) \/ ResetAfterStop(c)
  <2>1. Typed
    BY <1>0, <1>8, GotoTyped DEF ResetBeforeStart, ResetAfterStop, Steps
  <2>2. UnitOK'
    BY <1>0, <1>8, ResetFailedOK
       DEF ResetBeforeStart, ResetAfterStop, BestEffortReset, unitVars, UnitTypeOK,
           UnitConsistent, MainPid, HasProcess
  <2> QED BY <1>8, <1>b, <2>1, <2>2 DEF ResetBeforeStart, ResetAfterStop
<1>9. CASE StartTransient(c)
  <2>1. CASE CreateUnit /\ Observe(c, "wait_start", Polls)
    <3>1. Polls \in 0..Polls /\ "wait_start" \in Goals
      BY PollsAssumption DEF Goals
    <3> QED BY <1>0, <1>9, <1>b, <2>1, <3>1, CreateUnitOK, ObserveTyped DEF StartTransient
  <2>2. CASE Finish(c, Failed("unknown")) /\ UNCHANGED unitVars
    BY <1>0, <1>9, <1>a, <2>2, FinishTyped, ResultsTyped DEF StartTransient, Codes
  <2> QED BY <1>9, <2>1, <2>2 DEF StartTransient
<1>10. CASE StopUnit(c)
  <2>1. /\ [cli[c] EXCEPT !.pc = "poll_stop", !.polls = Polls] \in Invocations
        /\ [cli[c] EXCEPT !.pc = "reset_stopped", !.polls = Polls] \in Invocations
    <3>1. Polls \in 0..Polls /\ {"poll_stop", "reset_stopped"} \subseteq Steps
      BY PollsAssumption DEF Steps
    <3> QED BY <1>0, <3>1 DEF Invocations
  <2>2. Typed
    BY <1>0, <1>10, <2>1, BecomeTyped DEF StopUnit
  <2>3. UnitOK'
    BY <1>0, <1>10, QueueStopOK
       DEF StopUnit, unitVars, UnitTypeOK, UnitConsistent, MainPid, HasProcess
  <2> QED BY <1>10, <1>b, <2>2, <2>3 DEF StopUnit
<1>11. CASE PollStop(c) \/ PollProps(c)
  <2>1. Typed
    BY <1>0, <1>11, JudgeStopTyped, GotoTyped, FinishTyped, ResultsTyped
       DEF PollStop, PollProps, Steps, Codes
  <2> QED BY <1>11, <1>a, <2>1 DEF PollStop, PollProps
<1>12. CASE BusFails(c)
  <2>1. Typed
    BY <1>0, <1>12, FinishTyped, ResultsTyped DEF BusFails, Codes
  <2> QED BY <1>12, <1>a, <2>1 DEF BusFails
<1> QED
  BY <1>1, <1>2, <1>3, <1>4, <1>5, <1>6, <1>7, <1>8, <1>9, <1>10, <1>11, <1>12 DEF Step

\* The initial states are typed.
LEMMA InitTyped == Init => TypeOK
BY FoundWorldsOK, NewInvocationTyped DEF Init, UnitInit, TypeOK, UnitOK

\* Every step keeps the types.
LEMMA NextTyped == TypeOK /\ [Next]_vars => TypeOK'
<1> SUFFICES ASSUME TypeOK, [Next]_vars PROVE TypeOK'
  OBVIOUS
<1>1. CASE World
  BY <1>1, WorldStepOK DEF World, TypeOK, UnitOK
<1>2. ASSUME NEW c \in CLI, Step(c) PROVE TypeOK'
  BY <1>2, StepTyped
<1>3. CASE UNCHANGED vars
  BY <1>3 DEF vars, TypeOK, UnitTypeOK, UnitConsistent, MainPid, HasProcess
<1> QED BY <1>1, <1>2, <1>3 DEF Next

\* Whatever the invocations, systemd, the proxy and other programs do, every
\* record keeps its type, there is one unit at most, the last one created, and
\* a port of ours is held by that unit's live process.
THEOREM TypeCorrect == Spec => []TypeOK
BY InitTyped, NextTyped, PTL DEF Spec

-----------------------------------------------------------------------------
(* The strengthening: how far each subcommand can be, and what a restart   *)
(* that goes on to start knows about the name.                             *)

Looks     == {"sample", "get_unit", "get_service", "probe", "attribute"}
Starting  == {"prepare", "reset_failed", "start_transient"}
Stopping  == {"stop_unit", "reset_stopped", "poll_stop", "poll_props"}
Restarts  == {"restart", "restart_failed"}

\* Nothing is answered before the end; a disabled Connection is refused at
\* once; status only looks, stop never comes to start, and start never to stop.
Phased(s) ==
  /\ s.pc # "done" => s.result = Pending
  /\ s.op \in StartLike /\ ~conn.enabled => s.pc = "done"
  /\ s.op = "none" => s.pc = "idle"
  /\ s.op = "status" =>
       \/ s.pc \in Looks /\ s.goal = "report"
       \/ s.pc = "done"
  /\ s.op = "stop" =>
       \/ s.pc \in Looks /\ s.goal = "stop_check"
       \/ s.pc \in Stopping \cup {"done"}
  /\ s.op = "start" =>
       \/ s.pc \in Looks /\ s.goal \in {"precheck", "wait_start"}
       \/ s.pc \in Starting \cup {"done"}
  /\ s.op \in Restarts =>
       \/ s.pc \in Looks /\ s.goal \in {"precheck", "wait_start", "gather"}
       \/ s.pc \in Starting \cup Stopping \cup {"done"}

\* Once a restart has seen the name free, only a unit created since can be
\* there when it starts.
PastItsStop(s) ==
  /\ s.op \in Restarts
  /\ \/ s.pc \in Starting
     \/ s.pc \in Looks /\ s.goal = "precheck"

OwnsTheName(s) ==
  /\ s.base <= created
  /\ PastItsStop(s) => unit = Absent \/ created > s.base

Sound(c) == Phased(cli[c]) /\ OwnsTheName(cli[c])

IInv == TypeOK /\ \A c \in CLI : Sound(c)

\* A name that was free is taken only by a new unit.
LEMMA NameIsTakenAnew ==
  ASSUME UnitOK,
         WorldStep \/ CreateUnit \/ QueueStop \/ ResetFailed \/ UNCHANGED unitVars
  PROVE  /\ created \in Nat /\ created' \in Nat
         /\ \/ created' = created /\ (unit = Absent => unit' = Absent)
            \/ created' = created + 1
<1> USE DEF UnitOK, UnitTypeOK
<1>1. CASE WorldStep
  BY <1>1 DEF WorldStep, ManagerStep, DispatchStart, ExecSucceeds, ExecFails, Ends,
              BindsPort, ProxyCrashes, ProxyExits, DispatchStop, ClosesPort,
              StopsCleanly, StopFails, Unloads, StartAges, ForeignBinds,
              ForeignLeaves, StateIs, JobIs
<1>2. CASE CreateUnit
  BY <1>2 DEF CreateUnit
<1>3. CASE QueueStop
  BY <1>3 DEF QueueStop
<1>4. CASE ResetFailed
  BY <1>4 DEF ResetFailed, StateIs
<1>5. CASE UNCHANGED unitVars
  BY <1>5 DEF unitVars
<1> QED BY <1>1, <1>2, <1>3, <1>4, <1>5

\* An invocation stays sound while others move.
LEMMA SoundFrame ==
  ASSUME IInv, NEW c \in CLI, cli'[c] = cli[c], conn' = conn,
         WorldStep \/ CreateUnit \/ QueueStop \/ ResetFailed \/ UNCHANGED unitVars
  PROVE  Sound(c)'
<1>1. Sound(c) /\ cli[c].base \in Nat /\ UnitOK
  BY DEF IInv, TypeOK, UnitOK, Invocations
<1>2. (Phased(cli[c]))'
  BY <1>1 DEF Sound, Phased
<1>3. (OwnsTheName(cli[c]))'
  BY <1>1, NameIsTakenAnew DEF Sound, OwnsTheName, PastItsStop
<1> QED BY <1>2, <1>3 DEF Sound

\* An invocation that has an answer is done.
LEMMA FinishSound ==
  ASSUME IInv, NEW c \in CLI, NEW result, Finish(c, result),
         cli[c].op # "none", UNCHANGED <<unitVars, conn>>
  PROVE  Sound(c)' /\ \A d \in CLI \ {c} : cli'[d] = cli[d]
<1>1. cli \in [CLI -> Invocations] /\ TypeOK
  BY DEF IInv, TypeOK
<1>2. /\ cli'[c].pc = "done" /\ cli'[c].op = cli[c].op /\ cli'[c].base = 0
      /\ \A d \in CLI \ {c} : cli'[d] = cli[d]
  BY <1>1 DEF Finish, Become, NewInvocation
<1>3. created' \in Nat
  BY <1>1 DEF TypeOK, UnitTypeOK, unitVars
<1> QED
  BY <1>2, <1>3
     DEF Sound, Phased, OwnsTheName, PastItsStop, Starting, Looks

\* What a move leaves of an invocation, and that it leaves the others alone.
Moves(c, step, goal, base) ==
  /\ cli'[c].pc = step /\ cli'[c].goal = goal /\ cli'[c].base = base
  /\ cli'[c].op = cli[c].op /\ cli'[c].result = cli[c].result
  /\ \A d \in CLI \ {c} : cli'[d] = cli[d]

\* Goto moves the program counter and nothing else that counts.
LEMMA GotoMoves ==
  ASSUME TypeOK, NEW c \in CLI, NEW step, Goto(c, step)
  PROVE  Moves(c, step, cli[c].goal, cli[c].base)
<1>1. cli[c] \in Invocations /\ Forget(cli[c]) \in Invocations
  BY ForgetTyped DEF TypeOK
<1>2. cli'[c] = [Forget(cli[c]) EXCEPT !.pc = step] /\ \A d \in CLI \ {c} : cli'[d] = cli[d]
  BY DEF Goto, Become, TypeOK
<1>3. /\ Forget(cli[c]).op = cli[c].op /\ Forget(cli[c]).goal = cli[c].goal
      /\ Forget(cli[c]).result = cli[c].result /\ Forget(cli[c]).base = cli[c].base
  BY <1>1, ForgetTyped
<1> HIDE DEF Forget
<1> QED BY <1>1, <1>2, <1>3 DEF Moves, Invocations

\* Observe also sets the goal.
LEMMA ObserveMoves ==
  ASSUME TypeOK, NEW c \in CLI, NEW goal, NEW polls, Observe(c, goal, polls)
  PROVE  Moves(c, "sample", goal, cli[c].base)
<1>1. cli[c] \in Invocations /\ Forget(cli[c]) \in Invocations
  BY ForgetTyped DEF TypeOK
<1>2. /\ cli'[c] = [Forget(cli[c]) EXCEPT !.pc = "sample", !.goal = goal, !.polls = polls]
      /\ \A d \in CLI \ {c} : cli'[d] = cli[d]
  BY DEF Observe, Become, TypeOK
<1>3. /\ Forget(cli[c]).op = cli[c].op
      /\ Forget(cli[c]).result = cli[c].result /\ Forget(cli[c]).base = cli[c].base
  BY <1>1, ForgetTyped
<1> QED BY <1>1, <1>2, <1>3 DEF Moves, Invocations

\* So does a completed snapshot.
LEMMA SnapshotMoves ==
  ASSUME TypeOK, NEW c \in CLI, NEW u \in Units, Snapshot(c, u)
  PROVE  Moves(c, "probe", cli[c].goal, cli[c].base)
<1> DEFINE obs == UnitObservation(
                    MapActiveState(cli[c].active, u.ending.result, u.ending.exec),
                    MainPid, AgeOf(u, cli[c].clock))
<1>1. Become(c, [Forget(cli[c]) EXCEPT !.pc = "probe", !.obs = obs])
  BY DEF Snapshot
<1>2. /\ cli[c] \in Invocations /\ Forget(cli[c]) \in Invocations
      /\ Forget(cli[c]).op = cli[c].op /\ Forget(cli[c]).goal = cli[c].goal
      /\ Forget(cli[c]).result = cli[c].result /\ Forget(cli[c]).base = cli[c].base
  BY ForgetTyped DEF TypeOK
<1> HIDE DEF obs
<1>3. /\ cli'[c] = [Forget(cli[c]) EXCEPT !.pc = "probe", !.obs = obs]
      /\ \A d \in CLI \ {c} : cli'[d] = cli[d]
  BY <1>1 DEF Become, TypeOK
<1> QED BY <1>2, <1>3 DEF Moves, Invocations

\* Judging a row keeps an invocation sound: only a look made for a start goes
\* on to start.
LEMMA DecideSound ==
  ASSUME IInv, NEW c \in CLI, NEW row, cli[c].pc \in Looks, Decide(c, row),
         UNCHANGED <<unitVars, conn>>
  PROVE  Sound(c)' /\ \A d \in CLI \ {c} : cli'[d] = cli[d]
<1> DEFINE Kept == Sound(c)' /\ \A d \in CLI \ {c} : cli'[d] = cli[d]
<1>1. TypeOK /\ Phased(cli[c]) /\ OwnsTheName(cli[c])
  BY DEF IInv, Sound
<1>2. cli[c].op # "none" /\ cli[c].pc # "done"
  BY <1>1 DEF Phased, Looks
<1>3. unit' = unit /\ created' = created /\ conn' = conn
  BY DEF unitVars
<1>4. ASSUME NEW result, Finish(c, result) PROVE Kept
  BY <1>2, <1>4, FinishSound
<1>5. ASSUME Goto(c, "stop_unit"), cli[c].op \in Restarts \cup {"stop"} PROVE Kept
  <2>1. Moves(c, "stop_unit", cli[c].goal, cli[c].base)
    BY <1>1, <1>5, GotoMoves
  <2> QED
    BY <1>1, <1>2, <1>3, <1>5, <2>1
       DEF Moves, Sound, Phased, OwnsTheName, PastItsStop, StartLike, Restarts, Looks,
           Starting, Stopping
<1>6. ASSUME Observe(c, "wait_start", Polls) \/ Observe(c, "wait_start", cli[c].polls - 1),
             cli[c].op \in StartLike
      PROVE  Kept
  <2>1. Moves(c, "sample", "wait_start", cli[c].base)
    BY <1>1, <1>6, ObserveMoves
  <2> QED
    BY <1>1, <1>2, <1>3, <1>6, <2>1
       DEF Moves, Sound, Phased, OwnsTheName, PastItsStop, StartLike, Restarts, Looks,
           Starting, Stopping
<1>7. ASSUME Goto(c, "prepare"), cli[c].op \in StartLike, cli[c].goal = "precheck" PROVE Kept
  <2>1. Moves(c, "prepare", cli[c].goal, cli[c].base)
    BY <1>1, <1>7, GotoMoves
  <2> QED
    BY <1>1, <1>2, <1>3, <1>7, <2>1
       DEF Moves, Sound, Phased, OwnsTheName, PastItsStop, StartLike, Restarts, Looks,
           Starting, Stopping
<1>8. CASE cli[c].goal = "report"
  BY <1>4, <1>8 DEF Decide
<1>9. cli[c].op \in Ops \cup {"none"} /\ cli[c].goal \in Goals
  BY <1>1 DEF TypeOK, Invocations
<1>10. /\ cli[c].goal \in {"precheck", "wait_start", "gather"} => cli[c].op \in StartLike
       /\ cli[c].goal = "stop_check" => cli[c].op = "stop"
       /\ cli[c].goal = "gather" => cli[c].op \in Restarts
  BY <1>1, <1>2, <1>9, OpsAssumption
     DEF Phased, StartLike, Restarts, Looks, Starting, Stopping
<1>11. CASE cli[c].goal = "gather"
  BY <1>4, <1>5, <1>10, <1>11 DEF Decide, RestartFailedOnly
<1>12. CASE cli[c].goal = "stop_check"
  BY <1>4, <1>5, <1>10, <1>12 DEF Decide, TryStop
<1>13. CASE cli[c].goal = "precheck"
  BY <1>4, <1>6, <1>7, <1>10, <1>13 DEF Decide, TryStart
<1>14. CASE cli[c].goal = "wait_start"
  BY <1>4, <1>6, <1>10, <1>14 DEF Decide, WaitStep
<1> QED BY <1>8, <1>9, <1>11, <1>12, <1>13, <1>14 DEF Goals

\* Once the stop is through, a restart looks again, and now owns the name.
LEMMA JudgeStopSound ==
  ASSUME IInv, NEW c \in CLI, NEW u \in Units \cup {Absent}, u = Absent => unit = Absent,
         cli[c].pc \in {"poll_stop", "poll_props"}, JudgeStop(c, u),
         UNCHANGED <<unitVars, conn>>
  PROVE  Sound(c)' /\ \A d \in CLI \ {c} : cli'[d] = cli[d]
<1>1. TypeOK /\ Phased(cli[c]) /\ OwnsTheName(cli[c]) /\ cli[c] \in Invocations
  BY DEF IInv, Sound, TypeOK
<1>2. cli[c].op # "none" /\ cli[c].pc # "done" /\ cli[c].op # "status"
  BY <1>1 DEF Phased, Looks
<1>3. unit' = unit /\ created' = created /\ conn' = conn /\ created \in Nat
  BY <1>1 DEF unitVars, TypeOK, UnitTypeOK
<1>4. CASE Finish(c, Succeeded) \/ Finish(c, Failed("unknown"))
  BY <1>2, <1>4, FinishSound
<1>5. CASE /\ cli[c].polls > 0
           /\ Become(c, [cli[c] EXCEPT !.pc = "poll_stop", !.polls = @ - 1])
  <2>0. /\ cli'[c] = [cli[c] EXCEPT !.pc = "poll_stop", !.polls = @ - 1]
        /\ \A d \in CLI \ {c} : cli'[d] = cli[d]
    BY <1>1, <1>5 DEF Become, TypeOK
  <2>1. Moves(c, "poll_stop", cli[c].goal, cli[c].base)
    BY <1>1, <2>0 DEF Moves, Invocations
  <2> QED
    BY <1>1, <1>2, <1>3, <2>1
       DEF Moves, Sound, Phased, OwnsTheName, PastItsStop, StartLike, Restarts, Looks,
           Starting, Stopping
<1>6. CASE /\ UnitSafelyRecreatable(u)
           /\ cli[c].op # "stop"
           /\ Become(c, [cli[c] EXCEPT !.pc = "sample", !.goal = "precheck",
                                       !.polls = Polls, !.base = created])
  <2>0. /\ cli'[c] = [cli[c] EXCEPT !.pc = "sample", !.goal = "precheck",
                                    !.polls = Polls, !.base = created]
        /\ \A d \in CLI \ {c} : cli'[d] = cli[d]
    BY <1>1, <1>6 DEF Become, TypeOK
  <2>1. Moves(c, "sample", "precheck", created)
    BY <1>1, <2>0 DEF Moves, Invocations
  <2>2. unit' = Absent
    BY <1>3, <1>6 DEF UnitSafelyRecreatable
  <2> QED
    BY <1>1, <1>2, <1>3, <1>6, <2>1, <2>2
       DEF Moves, Sound, Phased, OwnsTheName, PastItsStop, StartLike, Restarts, Looks,
           Starting, Stopping
<1> QED BY <1>4, <1>5, <1>6 DEF JudgeStop, Stopped

\* A move inside the looks keeps its goal.
LEMMA LookSound ==
  ASSUME IInv, NEW c \in CLI, NEW step \in Looks, cli[c].pc \in Looks,
         Moves(c, step, cli[c].goal, cli[c].base), UNCHANGED <<unitVars, conn>>
  PROVE  Sound(c)' /\ \A d \in CLI \ {c} : cli'[d] = cli[d]
<1>1. TypeOK /\ Phased(cli[c]) /\ OwnsTheName(cli[c])
  BY DEF IInv, Sound
<1>2. unit' = unit /\ created' = created /\ conn' = conn
  BY DEF unitVars
<1> QED
  BY <1>1, <1>2
     DEF Moves, Sound, Phased, OwnsTheName, PastItsStop, StartLike, Restarts, Looks,
         Starting, Stopping

\* One step of one invocation, case by case.
LEMMA StepSound ==
  ASSUME IInv, NEW c \in CLI, Step(c)
  PROVE  /\ Sound(c)' /\ conn' = conn
         /\ \A d \in CLI \ {c} : cli'[d] = cli[d]
         /\ CreateUnit \/ QueueStop \/ ResetFailed \/ UNCHANGED unitVars
<1> DEFINE Kept == Sound(c)' /\ \A d \in CLI \ {c} : cli'[d] = cli[d]
<1>0. TypeOK /\ Phased(cli[c]) /\ OwnsTheName(cli[c]) /\ cli[c] \in Invocations
  BY DEF IInv, Sound, TypeOK
<1>a. cli[c].op \in Ops \cup {"none"} /\ cli[c].pc \in Steps
  BY <1>0 DEF Invocations
<1>b. created \in Nat
  BY <1>0 DEF TypeOK, UnitTypeOK
<1>1. CASE Begin(c)
  <2>1. PICK op \in Ops :
        LET s == [cli[c] EXCEPT !.op = op] IN
        CASE DisabledPolicyRefuses(op) ->
               Become(c, [s EXCEPT !.pc = "done", !.result = Refused])
          [] op = "restart" /\ ~DisabledPolicyRefuses(op) ->
               Become(c, [s EXCEPT !.pc = "stop_unit", !.goal = "precheck"])
          [] OTHER ->
               Become(c, [s EXCEPT !.pc = "sample", !.goal = FirstGoal(op)])
    BY <1>1 DEF Begin
  <2>2. cli[c].pc = "idle" /\ cli[c].result = Pending /\ UNCHANGED <<unitVars, conn>>
    BY <1>0, <1>1 DEF Begin, At, Phased
  <2>3. unit' = unit /\ created' = created /\ conn' = conn
    BY <2>2 DEF unitVars
  <2> DEFINE s == [cli[c] EXCEPT !.op = op]
  <2>4. /\ s.op = op /\ s.pc = "idle" /\ s.result = Pending /\ s.base = cli[c].base
        /\ s \in Invocations
    BY <1>0, <2>2 DEF Invocations
  <2> HIDE DEF s
  <2>5. CASE DisabledPolicyRefuses(op)
    <3>1. Become(c, [s EXCEPT !.pc = "done", !.result = Refused])
      BY <2>1, <2>5 DEF s
    <3>a. /\ cli'[c] = [s EXCEPT !.pc = "done", !.result = Refused]
          /\ \A d \in CLI \ {c} : cli'[d] = cli[d]
      BY <1>0, <3>1 DEF Become, TypeOK
    <3>2. /\ cli'[c].pc = "done" /\ cli'[c].op = op /\ cli'[c].base = cli[c].base
          /\ \A d \in CLI \ {c} : cli'[d] = cli[d]
      BY <2>4, <3>a DEF Invocations
    <3> QED
      BY <1>0, <1>1, <2>2, <2>3, <3>2, OpsAssumption
         DEF Sound, Phased, OwnsTheName, PastItsStop, Looks, Starting
  <2>6. CASE ~DisabledPolicyRefuses(op) /\ op = "restart"
    <3>1. Become(c, [s EXCEPT !.pc = "stop_unit", !.goal = "precheck"])
      BY <2>1, <2>6 DEF s
    <3>a. /\ cli'[c] = [s EXCEPT !.pc = "stop_unit", !.goal = "precheck"]
          /\ \A d \in CLI \ {c} : cli'[d] = cli[d]
      BY <1>0, <3>1 DEF Become, TypeOK
    <3>2. /\ cli'[c].pc = "stop_unit" /\ cli'[c].op = op /\ cli'[c].base = cli[c].base
          /\ cli'[c].result = Pending
          /\ \A d \in CLI \ {c} : cli'[d] = cli[d]
      BY <2>4, <3>a DEF Invocations
    <3> QED
      BY <1>0, <1>1, <2>2, <2>3, <2>6, <3>2
         DEF Sound, Phased, OwnsTheName, PastItsStop, Looks, Starting, Stopping,
             DisabledPolicyRefuses, StartLike
  <2>7. CASE ~DisabledPolicyRefuses(op) /\ op # "restart"
    <3>1. Become(c, [s EXCEPT !.pc = "sample", !.goal = FirstGoal(op)])
      BY <2>1, <2>7 DEF s
    <3>a. /\ cli'[c] = [s EXCEPT !.pc = "sample", !.goal = FirstGoal(op)]
          /\ \A d \in CLI \ {c} : cli'[d] = cli[d]
      BY <1>0, <3>1 DEF Become, TypeOK
    <3>2. /\ cli'[c].pc = "sample" /\ cli'[c].goal = FirstGoal(op)
          /\ cli'[c].op = op /\ cli'[c].base = cli[c].base /\ cli'[c].result = Pending
          /\ \A d \in CLI \ {c} : cli'[d] = cli[d]
      BY <2>4, <3>a DEF Invocations
    <3>3. Phased(cli[c])'
      BY <2>3, <2>7, <3>2, OpsAssumption
         DEF Phased, Looks, Starting, Stopping, DisabledPolicyRefuses, StartLike, Restarts,
             FirstGoal
    <3>4. PastItsStop(cli[c])' => cli'[c].op = "restart_failed" /\ FirstGoal(op) = "precheck"
      BY <2>7, <3>2 DEF PastItsStop, Restarts, Starting, Looks
    <3> QED
      BY <1>0, <1>1, <2>2, <2>3, <2>7, <3>2, <3>3, <3>4
         DEF Sound, OwnsTheName, FirstGoal
  <2> QED BY <2>2, <2>5, <2>6, <2>7
<1>2. CASE Sample(c)
  <2>1. cli[c].pc \in Looks /\ "get_unit" \in Looks /\ UNCHANGED <<unitVars, conn>>
    BY <1>2 DEF Sample, At, Looks
  <2>2. CASE Become(c, [cli[c] EXCEPT !.pc = "get_unit", !.clock = ReadClock(unit)])
    <3>0. /\ cli'[c] = [cli[c] EXCEPT !.pc = "get_unit", !.clock = ReadClock(unit)]
          /\ \A d \in CLI \ {c} : cli'[d] = cli[d]
      BY <1>0, <2>2 DEF Become, TypeOK
    <3>1. Moves(c, "get_unit", cli[c].goal, cli[c].base)
      BY <1>0, <3>0 DEF Moves, Invocations
    <3> QED BY <2>1, <3>1, LookSound
  <2>3. CASE Decide(c, InvalidAddressRow)
    BY <2>1, <2>3, DecideSound
  <2> QED BY <1>2, <2>1, <2>2, <2>3 DEF Sample
<1>3. CASE GetUnit(c)
  <2>1. /\ cli[c].pc \in Looks /\ UNCHANGED <<unitVars, conn>>
        /\ "probe" \in Looks /\ "get_service" \in Looks
    BY <1>3 DEF GetUnit, At, Looks
  <2>2. CASE Goto(c, "probe")
    BY <1>0, <2>1, <2>2, GotoMoves, LookSound
  <2>3. CASE Become(c, [cli[c] EXCEPT !.pc = "get_service", !.active = unit.active])
    <3>0. /\ cli'[c] = [cli[c] EXCEPT !.pc = "get_service", !.active = unit.active]
          /\ \A d \in CLI \ {c} : cli'[d] = cli[d]
      BY <1>0, <2>3 DEF Become, TypeOK
    <3>1. Moves(c, "get_service", cli[c].goal, cli[c].base)
      BY <1>0, <3>0 DEF Moves, Invocations
    <3> QED BY <2>1, <3>1, LookSound
  <2> QED BY <1>3, <2>1, <2>2, <2>3 DEF GetUnit
<1>4. CASE GetService(c)
  <2>1. /\ cli[c].pc \in Looks /\ UNCHANGED <<unitVars, conn>> /\ "probe" \in Looks
        /\ cli[c].op # "none"
    BY <1>0, <1>4 DEF GetService, At, Looks, Phased
  <2>2. CASE Finish(c, Failed("unknown"))
    BY <2>1, <2>2, FinishSound
  <2>3. ASSUME NEW u \in Units, Snapshot(c, u) PROVE Kept
    <3>1. Moves(c, "probe", cli[c].goal, cli[c].base)
      BY <1>0, <2>3, SnapshotMoves
    <3> QED BY <2>1, <3>1, LookSound
  <2>4. NotFound \in Units /\ (unit # Absent => unit \in Units)
    BY <1>0, EndingsTyped DEF NotFound, Units, ActiveStates, TypeOK, UnitTypeOK
  <2> QED BY <1>4, <2>1, <2>2, <2>3, <2>4 DEF GetService
<1>5. CASE Probe(c)
  <2>1. cli[c].pc \in Looks /\ "attribute" \in Looks /\ UNCHANGED <<unitVars, conn>>
    BY <1>5 DEF Probe, At, Looks
  <2>a. /\ cli'[c] = [cli[c] EXCEPT !.pc = "attribute", !.open = port # None]
        /\ \A d \in CLI \ {c} : cli'[d] = cli[d]
    BY <1>0, <1>5 DEF Probe, Become, TypeOK
  <2>2. Moves(c, "attribute", cli[c].goal, cli[c].base)
    BY <1>0, <2>a DEF Moves, Invocations
  <2> QED BY <2>1, <2>2, LookSound
<1>6. CASE Attribute(c)
  <2>1. cli[c].pc \in Looks /\ UNCHANGED <<unitVars, conn>>
    BY <1>6 DEF Attribute, At, Looks
  <2> QED BY <1>6, <2>1, DecideSound DEF Attribute
<1>7. CASE Prepare(c)
  <2>1. /\ cli[c].pc = "prepare" /\ UNCHANGED <<unitVars, conn>> /\ cli[c].op # "none"
    BY <1>0, <1>7 DEF Prepare, At, Phased
  <2>2. CASE Goto(c, "reset_failed")
    <3>1. Moves(c, "reset_failed", cli[c].goal, cli[c].base)
      BY <1>0, <2>2, GotoMoves
    <3> QED
      BY <1>0, <2>1, <3>1
         DEF Moves, Sound, Phased, OwnsTheName, PastItsStop, StartLike, Restarts,
             Looks, Starting,
             Stopping, unitVars
  <2> QED BY <1>7, <2>1, <2>2, FinishSound DEF Prepare
<1>8. CASE ResetBeforeStart(c)
  <2>1. /\ cli[c].pc = "reset_failed" /\ conn' = conn
        /\ Moves(c, "start_transient", cli[c].goal, cli[c].base)
        /\ ResetFailed \/ UNCHANGED unitVars
    BY <1>0, <1>8, GotoMoves DEF ResetBeforeStart, BestEffortReset, At
  <2>2. created' = created /\ (unit = Absent => unit' = Absent)
    BY <2>1 DEF ResetFailed, StateIs, unitVars
  <2> QED
    BY <1>0, <2>1, <2>2
       DEF Moves, Sound, Phased, OwnsTheName, PastItsStop, StartLike, Restarts, Looks,
           Starting, Stopping
<1>9. CASE StartTransient(c)
  <2>1. cli[c].pc = "start_transient" /\ conn' = conn /\ cli[c].op # "none"
    BY <1>0, <1>9 DEF StartTransient, At, Phased
  <2>2. CASE CreateUnit /\ Observe(c, "wait_start", Polls)
    <3>1. Moves(c, "sample", "wait_start", cli[c].base)
      BY <1>0, <2>2, ObserveMoves
    <3>2. created' = created + 1 /\ cli[c].base \in Nat
      BY <1>0, <2>2 DEF CreateUnit, Invocations
    <3> QED
      BY <1>0, <1>b, <2>1, <2>2, <3>1, <3>2
         DEF Moves, Sound, Phased, OwnsTheName, PastItsStop, StartLike, Restarts,
             Looks, Starting,
             Stopping
  <2>3. CASE Finish(c, Failed("unknown")) /\ UNCHANGED unitVars
    BY <2>1, <2>3, FinishSound
  <2> QED BY <1>9, <2>1, <2>2, <2>3 DEF StartTransient
<1>10. CASE StopUnit(c)
  <2>1. cli[c].pc = "stop_unit" /\ conn' = conn
    BY <1>10 DEF StopUnit, At
  <2>2. PICK step \in {"poll_stop", "reset_stopped"} :
          Become(c, [cli[c] EXCEPT !.pc = step, !.polls = Polls])
    BY <1>10 DEF StopUnit
  <2>a. /\ cli'[c] = [cli[c] EXCEPT !.pc = step, !.polls = Polls]
        /\ \A d \in CLI \ {c} : cli'[d] = cli[d]
    BY <1>0, <2>2 DEF Become, TypeOK
  <2>3. Moves(c, step, cli[c].goal, cli[c].base)
    BY <1>0, <2>a DEF Moves, Invocations
  <2>4. created' = created /\ (QueueStop \/ UNCHANGED unitVars)
    BY <1>10 DEF StopUnit, QueueStop, unitVars
  <2> QED
    BY <1>0, <2>1, <2>3, <2>4
       DEF Moves, Sound, Phased, OwnsTheName, PastItsStop, StartLike, Restarts, Looks,
           Starting, Stopping
<1>11. CASE ResetAfterStop(c)
  <2>1. /\ cli[c].pc = "reset_stopped" /\ conn' = conn
        /\ Moves(c, "poll_stop", cli[c].goal, cli[c].base)
        /\ ResetFailed \/ UNCHANGED unitVars
    BY <1>0, <1>11, GotoMoves DEF ResetAfterStop, BestEffortReset, At
  <2>2. created' = created
    BY <2>1 DEF ResetFailed, unitVars
  <2> QED
    BY <1>0, <2>1, <2>2
       DEF Moves, Sound, Phased, OwnsTheName, PastItsStop, StartLike, Restarts, Looks,
           Starting, Stopping
<1>12. CASE PollStop(c)
  <2>1. cli[c].pc = "poll_stop" /\ UNCHANGED <<unitVars, conn>>
    BY <1>12 DEF PollStop, At
  <2>2. CASE unit = Absent /\ JudgeStop(c, Absent)
    BY <2>1, <2>2, JudgeStopSound
  <2>3. CASE Goto(c, "poll_props")
    <3>1. Moves(c, "poll_props", cli[c].goal, cli[c].base)
      BY <1>0, <2>3, GotoMoves
    <3> QED
      BY <1>0, <2>1, <3>1
         DEF Moves, Sound, Phased, OwnsTheName, PastItsStop, StartLike, Restarts,
             Looks, Starting,
             Stopping, unitVars
  <2> QED BY <1>12, <2>1, <2>2, <2>3 DEF PollStop
<1>13. CASE PollProps(c)
  <2>1. /\ cli[c].pc = "poll_props" /\ UNCHANGED <<unitVars, conn>> /\ cli[c].op # "none"
    BY <1>0, <1>13 DEF PollProps, At, Phased
  <2>2. NotFound \in Units /\ unit \in Units \cup {Absent}
    BY <1>0, EndingsTyped DEF NotFound, Units, ActiveStates, TypeOK, UnitTypeOK
  <2>3. NotFound # Absent
    BY <2>2, AbsentAssumption
  <2>4. CASE unit # Absent /\ JudgeStop(c, unit)
    BY <2>1, <2>2, <2>4, JudgeStopSound
  <2>5. CASE JudgeStop(c, NotFound)
    BY <2>1, <2>2, <2>3, <2>5, JudgeStopSound
  <2>6. CASE Finish(c, Failed("unknown"))
    BY <2>1, <2>6, FinishSound
  <2> QED BY <1>13, <2>1, <2>4, <2>5, <2>6 DEF PollProps
<1>14. CASE BusFails(c)
  <2>1. cli[c].pc # "idle" /\ UNCHANGED <<unitVars, conn>>
    BY <1>14 DEF BusFails, Connects, Calls
  <2>2. cli[c].op # "none"
    BY <1>0, <2>1 DEF Phased
  <2> QED BY <1>14, <2>1, <2>2, FinishSound DEF BusFails
<1> QED
  BY <1>1, <1>2, <1>3, <1>4, <1>5, <1>6, <1>7, <1>8, <1>9, <1>10, <1>11, <1>12,
     <1>13, <1>14 DEF Step

\* The strengthened invariant holds initially.
LEMMA IInvInit == Init => IInv
<1> SUFFICES ASSUME Init PROVE IInv
  OBVIOUS
<1>1. \A c \in CLI : cli[c] = NewInvocation
  BY DEF Init
<1>2. created \in Nat
  BY InitTyped DEF TypeOK, UnitTypeOK
<1> QED
  BY <1>1, <1>2, InitTyped
     DEF IInv, Sound, Phased, OwnsTheName, PastItsStop, NewInvocation, StartLike, Restarts

\* Every step keeps it.
LEMMA IInvNext == IInv /\ [Next]_vars => IInv'
<1> SUFFICES ASSUME IInv, [Next]_vars PROVE IInv'
  OBVIOUS
<1>1. TypeOK'
  BY NextTyped DEF IInv
<1>2. CASE World \/ UNCHANGED vars
  <2>1. /\ cli' = cli /\ conn' = conn
        /\ WorldStep \/ UNCHANGED unitVars
    BY <1>2 DEF World, vars, unitVars
  <2> QED BY <1>1, <2>1, SoundFrame DEF IInv
<1>3. ASSUME NEW c \in CLI, Step(c) PROVE IInv'
  <2>1. /\ Sound(c)' /\ conn' = conn
        /\ \A d \in CLI \ {c} : cli'[d] = cli[d]
        /\ CreateUnit \/ QueueStop \/ ResetFailed \/ UNCHANGED unitVars
    BY <1>3, StepSound
  <2>2. \A d \in CLI \ {c} : Sound(d)'
    BY <2>1, SoundFrame
  <2> QED BY <1>1, <2>1, <2>2 DEF IInv
<1> QED BY <1>2, <1>3 DEF Next

\* The strengthened invariant holds in every reachable state.
THEOREM Invariance == Spec => []IInv
BY IInvInit, IInvNext, PTL DEF Spec

-----------------------------------------------------------------------------
(* What follows from the invariant.                                        *)

\* A restart that finds the name taken has lost it to a unit created after its
\* own stop (src/commands/mutate.rs:408-428).
THEOREM RestartConflict == Spec => []RestartConflictMeansRival
<1>1. IInv => RestartConflictMeansRival
  BY DEF IInv, Sound, OwnsTheName, PastItsStop, RestartConflictMeansRival, At, Starting,
         Restarts
<1> QED BY <1>1, Invariance, PTL

\* Only `stop` reaches systemd on a disabled Connection
\* (disabled_policy, src/commands/mutate.rs:157-170).
THEOREM DisabledOnlyStopped == Spec => DisabledIsOnlyStopped
<1> DEFINE Respects ==
      \A c \in CLI :
        /\ ~conn.enabled
        /\ cli'[c] # cli[c]
        /\ unitVars' # unitVars
        => cli[c].op = "stop"
<1>1. IInv /\ [Next]_vars => [Respects]_vars
  <2> SUFFICES ASSUME IInv, Next, NEW c \in CLI, ~conn.enabled, cli'[c] # cli[c],
                      unitVars' # unitVars
               PROVE  cli[c].op = "stop"
    BY DEF vars
  <2>1. PICK d \in CLI : Step(d)
    BY DEF Next, World
  <2>2. d = c
    BY <2>1, StepSound
  <2>3. cli[c].pc \in Starting \cup Stopping
    BY <2>1, <2>2
       DEF Step, Begin, Sample, GetUnit, GetService, Probe, Attribute, Prepare,
           ResetBeforeStart, StartTransient, StopUnit, ResetAfterStop, PollStop,
           PollProps, BusFails, At, Starting, Stopping
  <2>4. Phased(cli[c]) /\ cli[c].op \in Ops \cup {"none"}
    BY DEF IInv, Sound, TypeOK, Invocations
  <2> QED
    BY <2>3, <2>4, OpsAssumption DEF Phased, Starting, Stopping, Looks, StartLike
<1>2. IInv /\ [Next]_vars => IInv'
  BY IInvNext
<1> QED BY <1>1, Invariance, PTL DEF Spec, DisabledIsOnlyStopped

\* Until it is done an invocation has given no answer, so an answer comes from
\* its own step.
LEMMA AnswerIsOwnStep ==
  ASSUME IInv, Next, NEW c \in CLI, cli[c].pc # "done", cli'[c].result # Pending
  PROVE  Step(c)
<1>1. cli'[c] # cli[c]
  BY DEF IInv, Sound, Phased
<1>2. PICK d \in CLI : Step(d)
  BY <1>1 DEF Next, World
<1> QED BY <1>1, <1>2, StepSound

\* A stop that called StopUnit succeeds only once the unit is unloaded and its
\* process has let go of the port (wait_for_stop, src/commands/mutate.rs:430-461).
THEOREM StopWaits == Spec => StopWaitsForUnload
<1> DEFINE Waits ==
      \A c \in CLI :
        /\ cli[c].op = "stop"
        /\ cli[c].pc \in {"poll_stop", "poll_props"}
        /\ cli'[c].result = Succeeded
        => unit = Absent /\ port \notin Nat
<1>1. IInv /\ [Next]_vars => [Waits]_vars
  <2> SUFFICES ASSUME IInv, Next, NEW c \in CLI, cli[c].op = "stop",
                      cli[c].pc \in {"poll_stop", "poll_props"},
                      cli'[c].result = Succeeded
               PROVE  unit = Absent /\ port \notin Nat
    BY DEF vars
  <2>0. TypeOK /\ UnitOK /\ cli[c] \in Invocations /\ cli[c].result = Pending
    BY DEF IInv, TypeOK, UnitOK, Sound, Phased
  <2>1. Step(c)
    BY AnswerIsOwnStep DEF Succeeded, Pending, Result
  <2>2. ASSUME NEW step, Goto(c, step) PROVE FALSE
    BY <2>0, <2>2, GotoMoves DEF Moves, Succeeded, Pending, Result
  <2>3. ASSUME NEW result, Finish(c, result), result # Succeeded PROVE FALSE
    <3>1. cli'[c].result = result
      BY <2>0, <2>3 DEF Finish, Become, NewInvocation, TypeOK
    <3> QED BY <2>3, <3>1
  <2>4. Failed("unknown") # Succeeded /\ Dependency # Succeeded
    BY DEF Failed, Succeeded, Dependency, Result
  <2>5. ASSUME NEW u, JudgeStop(c, u) PROVE u = Absent
    <3>1. CASE cli[c].polls > 0
               /\ Become(c, [cli[c] EXCEPT !.pc = "poll_stop", !.polls = @ - 1])
      <4>1. cli'[c] = [cli[c] EXCEPT !.pc = "poll_stop", !.polls = @ - 1]
        BY <2>0, <3>1 DEF Become, TypeOK
      <4>2. cli'[c].result = Pending
        BY <2>0, <4>1 DEF Invocations
      <4> QED BY <4>2 DEF Succeeded, Pending, Result
    <3> QED BY <2>3, <2>4, <2>5, <3>1 DEF JudgeStop, UnitSafelyRecreatable
  <2>6. PollStop(c) \/ PollProps(c) \/ BusFails(c)
    BY <2>1
       DEF Step, Begin, Sample, GetUnit, GetService, Probe, Attribute, Prepare,
           ResetBeforeStart, StartTransient, StopUnit, ResetAfterStop, At
  <2>7. NotFound # Absent
    <3>1. NotFound \in Units
      BY EndingsTyped DEF NotFound, Units, ActiveStates
    <3> QED BY <3>1, AbsentAssumption
  <2>8. unit = Absent
    BY <2>2, <2>3, <2>4, <2>5, <2>6, <2>7 DEF PollStop, PollProps, BusFails
  <2>9. port \notin Nat
    BY <2>0, <2>8, NoneAssumption DEF UnitOK, UnitConsistent, MainPid, HasProcess
  <2> QED BY <2>8, <2>9
<1> QED BY <1>1, Invariance, PTL DEF Spec, StopWaitsForUnload

\* A running row that is no leftover of a stopping unit names a listener that
\* is unknown or the unit's own process (src/reconcile.rs:402-411).
LEMMA RunningIsOursOrUnknown ==
  ASSUME NEW obs \in Observations, NEW probe, NEW listener,
         obs.state # "deactivating",
         IsRunning(ReconcileRow(obs, [probe |-> probe, listener |-> listener]))
  PROVE  listener \in {obs.pid, None}
<1> DEFINE seen == [probe |-> probe, listener |-> listener]
<1>1. Classify(obs, seen).state = "running"
  BY DEF IsRunning, ReconcileRow
<1>2. ListenerMatchesUnit(obs.pid, listener)
  BY <1>1 DEF Classify, ClassifyInactive, ClassifyActivating, ClassifyActive,
              ClassifyFailed, OpenUnderUnit, Outcome, Observations
<1> QED BY <1>2 DEF ListenerMatchesUnit

\* A start or restart that reports success after a look has seen a running row.
LEMMA SuccessIsRunning ==
  ASSUME IInv, Next, NEW c \in CLI, At(c, "attribute"), cli[c].op \in StartLike,
         cli'[c].result = Succeeded
  PROVE  /\ cli[c].goal \in {"precheck", "wait_start"}
         /\ \E listener \in ListenersSeen :
              IsRunning(ReconcileRow(cli[c].obs,
                [probe |-> IF cli[c].open THEN "open" ELSE "closed", listener |-> listener]))
<1>0. /\ TypeOK /\ cli[c] \in Invocations /\ cli[c].result = Pending
      /\ cli[c].goal \in {"precheck", "wait_start", "gather"}
  BY DEF IInv, TypeOK, Sound, Phased, At, Starting, Stopping, StartLike, Restarts
<1>1. Step(c)
  BY AnswerIsOwnStep DEF At, Succeeded, Pending, Result
<1>2. Attribute(c)
  BY <1>1
     DEF Step, Begin, Sample, GetUnit, GetService, Probe, PollStop, PollProps, Prepare,
         ResetBeforeStart, StartTransient, StopUnit, ResetAfterStop, BusFails, Calls,
         Connects, At
<1> DEFINE probe         == IF cli[c].open THEN "open" ELSE "closed"
           row(listener) == ReconcileRow(cli[c].obs, [probe |-> probe, listener |-> listener])
<1>3. PICK listener \in ListenersSeen : Decide(c, row(listener))
  BY <1>2 DEF Attribute
<1>4. ASSUME NEW step, Goto(c, step) PROVE FALSE
  BY <1>0, <1>4, GotoMoves DEF Moves, Succeeded, Pending, Result
<1>5. ASSUME NEW goal, NEW polls, Observe(c, goal, polls) PROVE FALSE
  BY <1>0, <1>5, ObserveMoves DEF Moves, Succeeded, Pending, Result
<1>6. ASSUME NEW result, Finish(c, result), result # Succeeded PROVE FALSE
  <2>1. cli'[c].result = result
    BY <1>0, <1>6 DEF Finish, Become, NewInvocation, TypeOK
  <2> QED BY <1>6, <2>1
<1>7. Unselected # Succeeded /\ \A code : Failed(code) # Succeeded
  BY DEF Failed, Succeeded, Unselected, Result
<1> HIDE DEF row
<1>8. cli[c].goal # "gather"
  BY <1>3, <1>4, <1>6, <1>7 DEF Decide, RestartFailedOnly
<1>9. IsRunning(row(listener))
  <2>1. CASE cli[c].goal = "precheck"
    BY <1>3, <1>4, <1>5, <1>6, <1>7, <2>1 DEF Decide, TryStart
  <2>2. CASE cli[c].goal = "wait_start"
    BY <1>3, <1>5, <1>6, <1>7, <2>2 DEF Decide, WaitStep
  <2> QED BY <1>0, <1>8, <2>1, <2>2
<1> QED BY <1>0, <1>8, <1>9 DEF row

\* A start reports success only on a unit whose own process holds the port, or
\* has just let it go (src/reconcile.rs:402-411, src/commands/mutate.rs:627).
THEOREM NoStrangerCredited == Spec => StartNeverCreditsStranger
<1> DEFINE Credits ==
      \A c \in CLI :
        /\ ~Ambiguous
        /\ At(c, "attribute")
        /\ cli[c].op \in StartLike
        /\ cli[c].obs.state # "deactivating"
        /\ cli'[c].result = Succeeded
        => port \in {cli[c].obs.pid, None}
<1>1. IInv /\ [Next]_vars => [Credits]_vars
  <2> SUFFICES ASSUME IInv, Next, NEW c \in CLI, ~Ambiguous, At(c, "attribute"),
                      cli[c].op \in StartLike, cli[c].obs.state # "deactivating",
                      cli'[c].result = Succeeded
               PROVE  port \in {cli[c].obs.pid, None}
    BY DEF vars
  <2>1. cli[c].obs \in Observations
    BY DEF IInv, TypeOK, Invocations
  <2>2. IsRunning(ReconcileRow(cli[c].obs,
          [probe |-> IF cli[c].open THEN "open" ELSE "closed", listener |-> port]))
    BY SuccessIsRunning DEF ListenersSeen
  <2> QED BY <2>1, <2>2, RunningIsOursOrUnknown
<1> QED BY <1>1, Invariance, PTL DEF Spec, StartNeverCreditsStranger

-----------------------------------------------------------------------------
(* What a restart reports is about a unit created since its own stop.      *)

\* A look of a restart that has seen a unit since it found the name free.
SawAUnit(s) ==
  /\ s.op \in Restarts
  /\ \/ s.pc \in Looks /\ s.goal = "wait_start"
     \/ s.pc = "get_service" /\ s.goal = "precheck"
     \/ s.pc \in {"probe", "attribute"} /\ s.goal = "precheck" /\ s.obs.state # "idle"

\* That unit, and the process it was seen with, are newer than the stop.
Fresh(s) ==
  /\ SawAUnit(s) => created > s.base
  /\ /\ s.op \in Restarts
     /\ s.pc \in {"probe", "attribute"}
     /\ s.goal \in {"precheck", "wait_start"}
     => s.obs.pid \notin 0..s.base

FreshInv == IInv /\ \A c \in CLI : Fresh(cli[c])

\* Only a unit that is loaded makes a row running or starting.
LEMMA LifeNeedsAUnit ==
  ASSUME NEW obs \in Observations, NEW probe, NEW listener,
         ReconcileRow(obs, [probe |-> probe, listener |-> listener]).state
           \in {"running", "starting"}
  PROVE  obs.state # "idle"
<1> DEFINE seen == [probe |-> probe, listener |-> listener]
<1>1. Classify(obs, seen).state \in {"running", "starting"}
  BY DEF ReconcileRow
<1> QED BY <1>1 DEF Classify, ClassifyInactive, Outcome

\* What a step leaves of the readings, where it matters.
LEMMA ReadingsAfter ==
  ASSUME TypeOK, NEW c \in CLI
  PROVE  /\ \A step : Goto(c, step) => cli'[c].obs = IdleObservation
         /\ \A u : Snapshot(c, u) => cli'[c].obs.pid = MainPid
<1> DEFINE f == Forget(cli[c])
<1>a. cli[c] \in Invocations /\ f \in Invocations
  BY ForgetTyped DEF TypeOK
<1>b. f.obs = IdleObservation
  BY <1>a DEF Forget, Invocations
<1>1. f \in Invocations /\ f.obs = IdleObservation
  BY <1>a, <1>b
<1>2. \A s : Become(c, s) => cli'[c] = s
  BY DEF Become, TypeOK
<1> HIDE DEF f
<1>3. ASSUME NEW step, cli'[c] = [f EXCEPT !.pc = step]
      PROVE  cli'[c].obs = IdleObservation
  BY <1>1, <1>3 DEF Invocations
<1>4. ASSUME NEW unitState, NEW age,
             cli'[c] = [f EXCEPT !.pc = "probe",
                                 !.obs = UnitObservation(unitState, MainPid, age)]
      PROVE  cli'[c].obs.pid = MainPid
  BY <1>1, <1>4 DEF Invocations, UnitObservation
<1>5. \A step : Goto(c, step) => cli'[c].obs = IdleObservation
  BY <1>2, <1>3, Zenon DEF Goto, f
<1>6. \A u : Snapshot(c, u) => cli'[c].obs.pid = MainPid
  BY <1>2, <1>4, Zenon DEF Snapshot, f
<1> QED BY <1>5, <1>6

\* It stays fresh while others move.
LEMMA FreshFrame ==
  ASSUME IInv, NEW c \in CLI, Fresh(cli[c]), cli'[c] = cli[c],
         WorldStep \/ CreateUnit \/ QueueStop \/ ResetFailed \/ UNCHANGED unitVars
  PROVE  Fresh(cli[c])'
<1>1. UnitOK /\ cli[c].base \in Nat
  BY DEF IInv, TypeOK, UnitOK, Invocations
<1>2. created \in Nat /\ created' \in Nat /\ created' >= created
  BY <1>1, NameIsTakenAnew
<1> QED BY <1>1, <1>2 DEF Fresh, SawAUnit

\* And when it judges a row: it waits only for a unit it has seen.
LEMMA DecideFresh ==
  ASSUME IInv, NEW c \in CLI, Fresh(cli[c]), cli[c].pc \in Looks, NEW row, Decide(c, row),
         cli[c].pc # "attribute" \/ cli[c].obs.state = "idle" => row.state # "starting",
         UNCHANGED unitVars
  PROVE  Fresh(cli[c])'
<1>0. /\ TypeOK /\ cli[c] \in Invocations /\ created' = created
      /\ cli[c].op \in StartLike => cli[c].goal \in {"precheck", "wait_start", "gather"}
      /\ cli[c].goal \in {"precheck", "wait_start", "gather"} =>
           cli[c].op \in StartLike
  BY OpsAssumption
     DEF IInv, TypeOK, Sound, Phased, Invocations, unitVars, Looks, Starting, Stopping,
         StartLike, Restarts
<1>1. ASSUME NEW result, Finish(c, result) PROVE Fresh(cli[c])'
  <2>1. cli'[c].pc = "done"
    BY <1>0, <1>1 DEF Finish, Become, NewInvocation, TypeOK
  <2> QED BY <2>1 DEF Fresh, SawAUnit, Looks
<1>2. ASSUME NEW step \in {"prepare", "stop_unit"}, Goto(c, step) PROVE Fresh(cli[c])'
  <2>1. cli'[c].pc = step
    BY <1>0, <1>2, GotoMoves DEF Moves
  <2> QED BY <2>1 DEF Fresh, SawAUnit, Looks
<1>3. ASSUME NEW polls, Observe(c, "wait_start", polls), SawAUnit(cli[c]) \/ cli[c].op = "start"
      PROVE  Fresh(cli[c])'
  <2>1. Moves(c, "sample", "wait_start", cli[c].base)
    BY <1>0, <1>3, ObserveMoves
  <2> QED BY <1>0, <1>3, <2>1 DEF Moves, Fresh, SawAUnit, Restarts
<1>4. CASE cli[c].goal = "report"
  BY <1>1, <1>4 DEF Decide
<1>5. CASE cli[c].goal = "gather"
  BY <1>1, <1>2, <1>5 DEF Decide, RestartFailedOnly
<1>6. CASE cli[c].goal = "stop_check"
  BY <1>1, <1>2, <1>6 DEF Decide, TryStop
<1>7. CASE cli[c].goal = "precheck"
  <2>1. row.state = "starting" => SawAUnit(cli[c]) \/ cli[c].op = "start"
    BY <1>0, <1>7 DEF SawAUnit, StartLike, Restarts
  <2>2. TryStart(c, row)
    BY <1>7 DEF Decide
  <2> QED BY <1>1, <1>2, <1>3, <2>1, <2>2 DEF TryStart
<1>8. CASE cli[c].goal = "wait_start"
  <2>1. SawAUnit(cli[c]) \/ cli[c].op = "start"
    BY <1>0, <1>8 DEF SawAUnit, StartLike, Restarts
  <2>2. WaitStep(c, row)
    BY <1>8 DEF Decide
  <2> QED BY <1>1, <1>3, <2>1, <2>2 DEF WaitStep
<1>9. cli[c].goal \in Goals
  BY <1>0 DEF Invocations
<1> QED BY <1>4, <1>5, <1>6, <1>7, <1>8, <1>9 DEF Goals

\* And when it takes a step of its own.
LEMMA FreshStep ==
  ASSUME IInv, NEW c \in CLI, Fresh(cli[c]), Step(c)
  PROVE  Fresh(cli[c])'
<1>0. /\ TypeOK /\ UnitOK /\ OwnsTheName(cli[c]) /\ cli \in [CLI -> Invocations]
      /\ cli[c] \in Invocations /\ cli[c].base \in Nat /\ created \in Nat
  BY DEF IInv, Sound, TypeOK, UnitOK, UnitTypeOK, Invocations
<1>a. ASSUME cli'[c].pc \notin Looks PROVE Fresh(cli[c])'
  BY <1>a DEF Fresh, SawAUnit, Looks
<1>b. ASSUME NEW result, Finish(c, result) PROVE Fresh(cli[c])'
  <2>1. cli'[c].pc = "done"
    BY <1>0, <1>b DEF Finish, Become, NewInvocation, TypeOK
  <2> QED BY <1>a, <2>1 DEF Looks
<1>c. ASSUME NEW step \in Starting \cup Stopping, Goto(c, step) PROVE Fresh(cli[c])'
  BY <1>0, <1>a, <1>c, GotoMoves DEF Moves, Looks, Starting, Stopping
<1>d. ASSUME NEW u, JudgeStop(c, u) PROVE Fresh(cli[c])'
  <2>1. CASE Become(c, [cli[c] EXCEPT !.pc = "poll_stop", !.polls = @ - 1])
    <3>1. cli'[c] = [cli[c] EXCEPT !.pc = "poll_stop", !.polls = @ - 1]
      BY <1>0, <2>1 DEF Become
    <3>2. cli'[c].pc = "poll_stop"
      BY <1>0, <3>1 DEF Invocations
    <3> QED BY <1>a, <3>2 DEF Looks
  <2>2. CASE Become(c, [cli[c] EXCEPT !.pc = "sample", !.goal = "precheck",
                                      !.polls = Polls, !.base = created])
    <3>1. cli'[c] = [cli[c] EXCEPT !.pc = "sample", !.goal = "precheck",
                                   !.polls = Polls, !.base = created]
      BY <1>0, <2>2 DEF Become
    <3>2. cli'[c].pc = "sample" /\ cli'[c].goal = "precheck"
      BY <1>0, <3>1 DEF Invocations
    <3> QED BY <3>2 DEF Fresh, SawAUnit
  <2> QED BY <1>b, <1>d, <2>1, <2>2 DEF JudgeStop, Stopped
<1>1. CASE Begin(c)
  <2>1. PICK op \in Ops :
        LET s == [cli[c] EXCEPT !.op = op] IN
        CASE DisabledPolicyRefuses(op) ->
               Become(c, [s EXCEPT !.pc = "done", !.result = Refused])
          [] op = "restart" /\ ~DisabledPolicyRefuses(op) ->
               Become(c, [s EXCEPT !.pc = "stop_unit", !.goal = "precheck"])
          [] OTHER ->
               Become(c, [s EXCEPT !.pc = "sample", !.goal = FirstGoal(op)])
    BY <1>1, Zenon DEF Begin
  <2> DEFINE s == [cli[c] EXCEPT !.op = op]
  <2>2. s \in Invocations
    BY <1>0 DEF Invocations
  <2> HIDE DEF s
  <2>3. CASE Become(c, [s EXCEPT !.pc = "done", !.result = Refused])
    <3>1. cli'[c].pc = "done"
      BY <1>0, <2>2, <2>3 DEF Become, Invocations
    <3> QED BY <1>a, <3>1 DEF Looks
  <2>4. CASE Become(c, [s EXCEPT !.pc = "stop_unit", !.goal = "precheck"])
    <3>1. cli'[c].pc = "stop_unit"
      BY <1>0, <2>2, <2>4 DEF Become, Invocations
    <3> QED BY <1>a, <3>1 DEF Looks
  <2>5. CASE Become(c, [s EXCEPT !.pc = "sample", !.goal = FirstGoal(op)])
    <3>1. cli'[c].pc = "sample" /\ cli'[c].goal = FirstGoal(op)
      BY <1>0, <2>2, <2>5 DEF Become, Invocations
    <3>2. FirstGoal(op) # "wait_start"
      BY OpsAssumption DEF FirstGoal
    <3> QED BY <3>1, <3>2 DEF Fresh, SawAUnit
  <2> QED BY <2>1, <2>3, <2>4, <2>5 DEF s
<1>2. CASE Sample(c)
  <2>1. cli[c].pc = "sample" /\ unit' = unit /\ created' = created /\ UNCHANGED unitVars
    BY <1>2 DEF Sample, At, unitVars
  <2>2. CASE Become(c, [cli[c] EXCEPT !.pc = "get_unit", !.clock = ReadClock(unit)])
    <3>1. cli'[c] = [cli[c] EXCEPT !.pc = "get_unit", !.clock = ReadClock(unit)]
      BY <1>0, <2>2 DEF Become
    <3>2. /\ cli'[c].pc = "get_unit" /\ cli'[c].goal = cli[c].goal
          /\ cli'[c].op = cli[c].op /\ cli'[c].base = cli[c].base
      BY <1>0, <3>1 DEF Invocations
    <3> QED BY <2>1, <3>2 DEF Fresh, SawAUnit, Looks
  <2>3. CASE Decide(c, InvalidAddressRow)
    <3>1. InvalidAddressRow.state # "starting" /\ cli[c].pc \in Looks
      BY <2>1 DEF InvalidAddressRow, Looks
    <3> QED BY <2>1, <2>3, <3>1, DecideFresh
  <2> QED BY <1>2, <2>2, <2>3 DEF Sample
<1>3. CASE GetUnit(c)
  <2>1. cli[c].pc = "get_unit" /\ unit' = unit /\ created' = created
    BY <1>3 DEF GetUnit, At, unitVars
  <2>2. CASE Goto(c, "probe")
    <3>1. Moves(c, "probe", cli[c].goal, cli[c].base) /\ cli'[c].obs = IdleObservation
      BY <1>0, <2>2, GotoMoves, ReadingsAfter
    <3>2. cli'[c].obs.state = "idle" /\ cli'[c].obs.pid \notin Nat
      BY <3>1, NoneAssumption DEF IdleObservation, UnitObservation
    <3> QED BY <1>0, <2>1, <3>1, <3>2 DEF Moves, Fresh, SawAUnit, Looks
  <2>3. CASE unit # Absent
             /\ Become(c, [cli[c] EXCEPT !.pc = "get_service", !.active = unit.active])
    <3>1. cli'[c] = [cli[c] EXCEPT !.pc = "get_service", !.active = unit.active]
      BY <1>0, <2>3 DEF Become
    <3>2. /\ cli'[c].pc = "get_service" /\ cli'[c].goal = cli[c].goal
          /\ cli'[c].op = cli[c].op /\ cli'[c].base = cli[c].base
      BY <1>0, <3>1 DEF Invocations
    <3>3. SawAUnit(cli[c])' => created > cli[c].base
      BY <1>0, <2>1, <2>3, <3>2 DEF Fresh, SawAUnit, OwnsTheName, PastItsStop, Looks
    <3> QED BY <2>1, <3>2, <3>3 DEF Fresh
  <2> QED BY <1>3, <2>2, <2>3 DEF GetUnit
<1>4. CASE GetService(c)
  <2>1. cli[c].pc = "get_service" /\ unit' = unit /\ created' = created
    BY <1>4 DEF GetService, At, unitVars
  <2>2. ASSUME NEW u \in Units, Snapshot(c, u) PROVE Fresh(cli[c])'
    <3>1. Moves(c, "probe", cli[c].goal, cli[c].base) /\ cli'[c].obs.pid = MainPid
      BY <1>0, <2>2, SnapshotMoves, ReadingsAfter
    <3>2. MainPid \in {created, None}
      BY <1>0 DEF MainPid, HasProcess, UnitOK, UnitConsistent
    <3>3. cli[c].op \in Restarts /\ cli[c].goal \in {"precheck", "wait_start"}
            => created > cli[c].base
      BY <2>1 DEF Fresh, SawAUnit, Looks
    <3>4. cli[c].op \in Restarts /\ cli[c].goal \in {"precheck", "wait_start"}
            => MainPid \notin 0..cli[c].base
      BY <1>0, <3>2, <3>3, NoneAssumption
    <3>5. /\ cli'[c].pc = "probe" /\ cli'[c].goal = cli[c].goal
          /\ cli'[c].op = cli[c].op /\ cli'[c].base = cli[c].base
      BY <3>1 DEF Moves
    <3> QED BY <2>1, <3>1, <3>3, <3>4, <3>5 DEF Fresh, SawAUnit
  <2>3. NotFound \in Units /\ (unit # Absent => unit \in Units)
    BY <1>0, EndingsTyped DEF NotFound, Units, ActiveStates, TypeOK, UnitTypeOK
  <2> QED BY <1>4, <1>b, <2>2, <2>3 DEF GetService
<1>5. CASE Probe(c)
  <2>1. cli[c].pc = "probe" /\ unit' = unit /\ created' = created
    BY <1>5 DEF Probe, At, unitVars
  <2>2. cli'[c] = [cli[c] EXCEPT !.pc = "attribute", !.open = port # None]
    BY <1>0, <1>5 DEF Probe, Become
  <2>3. /\ cli'[c].pc = "attribute" /\ cli'[c].goal = cli[c].goal /\ cli'[c].op = cli[c].op
        /\ cli'[c].base = cli[c].base /\ cli'[c].obs = cli[c].obs
    BY <1>0, <2>2 DEF Invocations
  <2> QED BY <2>1, <2>3 DEF Fresh, SawAUnit, Looks
<1>6. CASE Attribute(c)
  <2>1. cli[c].pc \in Looks /\ UNCHANGED unitVars /\ cli[c].pc = "attribute"
    BY <1>6 DEF Attribute, At, Looks
  <2>2. PICK listener \in ListenersSeen :
          Decide(c, ReconcileRow(cli[c].obs,
            [probe |-> IF cli[c].open THEN "open" ELSE "closed", listener |-> listener]))
    BY <1>6 DEF Attribute
  <2>3. cli[c].obs \in Observations
    BY <1>0 DEF Invocations
  <2> DEFINE row == ReconcileRow(cli[c].obs,
                      [probe |-> IF cli[c].open THEN "open" ELSE "closed",
                       listener |-> listener])
  <2>4. row.state = "starting" => cli[c].obs.state # "idle"
    BY <2>3, LifeNeedsAUnit
  <2> HIDE DEF row
  <2>5. Decide(c, row)
    BY <2>2 DEF row
  <2> QED BY <2>1, <2>4, <2>5, DecideFresh
<1>7. CASE Prepare(c)
  BY <1>7, <1>b, <1>c DEF Prepare, Starting
<1>8. CASE ResetBeforeStart(c)
  BY <1>8, <1>c DEF ResetBeforeStart, Starting
<1>9. CASE StartTransient(c)
  <2>1. CASE CreateUnit /\ Observe(c, "wait_start", Polls)
    <3>1. Moves(c, "sample", "wait_start", cli[c].base)
      BY <1>0, <2>1, ObserveMoves
    <3>2. created' = created + 1 /\ cli[c].base <= created
      BY <1>0, <2>1 DEF CreateUnit, OwnsTheName
    <3> QED BY <1>0, <3>1, <3>2 DEF Moves, Fresh, SawAUnit
  <2> QED BY <1>9, <1>b, <2>1 DEF StartTransient
<1>10. CASE StopUnit(c)
  <2>1. PICK step \in {"poll_stop", "reset_stopped"} :
          Become(c, [cli[c] EXCEPT !.pc = step, !.polls = Polls])
    BY <1>10 DEF StopUnit
  <2>2. cli'[c] = [cli[c] EXCEPT !.pc = step, !.polls = Polls]
    BY <1>0, <2>1 DEF Become
  <2>3. cli'[c].pc = step
    BY <1>0, <2>2 DEF Invocations
  <2> QED BY <1>a, <2>3 DEF Looks
<1>11. CASE ResetAfterStop(c)
  BY <1>11, <1>c DEF ResetAfterStop, Stopping
<1>12. CASE PollStop(c)
  BY <1>12, <1>c, <1>d DEF PollStop, Stopping
<1>13. CASE PollProps(c)
  BY <1>13, <1>b, <1>d DEF PollProps
<1>14. CASE BusFails(c)
  BY <1>14, <1>b DEF BusFails
<1> QED
  BY <1>1, <1>2, <1>3, <1>4, <1>5, <1>6, <1>7, <1>8, <1>9, <1>10, <1>11, <1>12,
     <1>13, <1>14 DEF Step

\* Every look of a restart stays fresh.
LEMMA FreshInvariance == Spec => []FreshInv
<1>1. Init => FreshInv
  BY IInvInit DEF FreshInv, Init, NewInvocation, Fresh, SawAUnit, Restarts
<1>2. FreshInv /\ [Next]_vars => FreshInv'
  <2> SUFFICES ASSUME FreshInv, [Next]_vars PROVE FreshInv'
    OBVIOUS
  <2>1. IInv'
    BY IInvNext DEF FreshInv
  <2>2. CASE World \/ UNCHANGED vars
    <3>1. cli' = cli /\ (WorldStep \/ UNCHANGED unitVars)
      BY <2>2 DEF World, vars, unitVars
    <3> QED BY <2>1, <3>1, FreshFrame DEF FreshInv
  <2>3. ASSUME NEW c \in CLI, Step(c) PROVE FreshInv'
    <3>1. /\ \A d \in CLI \ {c} : cli'[d] = cli[d]
          /\ CreateUnit \/ QueueStop \/ ResetFailed \/ UNCHANGED unitVars
      BY <2>3, StepSound DEF FreshInv
    <3>2. \A d \in CLI \ {c} : Fresh(cli[d])'
      BY <3>1, FreshFrame DEF FreshInv
    <3>3. Fresh(cli[c])'
      BY <2>3, FreshStep DEF FreshInv
    <3> QED BY <2>1, <3>2, <3>3 DEF FreshInv
  <2> QED BY <2>2, <2>3 DEF Next
<1> QED BY <1>1, <1>2, PTL DEF Spec

\* A restart's success is about a unit created since its own stop, never the
\* old proxy (src/commands/mutate.rs:383-428, 505-527).
THEOREM RestartBringsUpANewOne == Spec => RestartIsANewProcess
<1> DEFINE New ==
      \A c \in CLI :
        /\ At(c, "attribute")
        /\ cli[c].op \in {"restart", "restart_failed"}
        /\ cli'[c].result = Succeeded
        => /\ created > cli[c].base
           /\ cli[c].obs.pid \notin 0..cli[c].base
<1>1. FreshInv /\ [Next]_vars => [New]_vars
  <2> SUFFICES ASSUME FreshInv, Next, NEW c \in CLI, At(c, "attribute"),
                      cli[c].op \in {"restart", "restart_failed"},
                      cli'[c].result = Succeeded
               PROVE  created > cli[c].base /\ cli[c].obs.pid \notin 0..cli[c].base
    BY DEF vars
  <2>1. IInv /\ Fresh(cli[c]) /\ cli[c].obs \in Observations /\ cli[c].op \in StartLike
    BY DEF FreshInv, IInv, TypeOK, Invocations, StartLike
  <2>2. PICK listener \in ListenersSeen :
          /\ cli[c].goal \in {"precheck", "wait_start"}
          /\ IsRunning(ReconcileRow(cli[c].obs,
               [probe |-> IF cli[c].open THEN "open" ELSE "closed", listener |-> listener]))
    BY <2>1, SuccessIsRunning
  <2>3. cli[c].obs.state # "idle"
    BY <2>1, <2>2, LifeNeedsAUnit DEF IsRunning
  <2> QED BY <2>1, <2>2, <2>3 DEF Fresh, SawAUnit, Restarts, Looks, At
<1> QED BY <1>1, FreshInvariance, PTL DEF Spec, RestartIsANewProcess

-----------------------------------------------------------------------------
(* No invocation goes on for ever: each step uses up one of those that were *)
(* left, for any poll budget.                                              *)

\* What is left in numbers, by the next call.
LEMMA LeftInNumbers ==
  ASSUME NEW s
  PROVE  /\ s.pc = "idle"            => StepsLeft(s) = 23 + 7 * Polls
         /\ s.pc = "sample"          => StepsLeft(s) = 5 + LeftAfterLook(s)
         /\ s.pc = "get_unit"        => StepsLeft(s) = 4 + LeftAfterLook(s)
         /\ s.pc = "get_service"     => StepsLeft(s) = 3 + LeftAfterLook(s)
         /\ s.pc = "probe"           => StepsLeft(s) = 2 + LeftAfterLook(s)
         /\ s.pc = "attribute"       => StepsLeft(s) = 1 + LeftAfterLook(s)
         /\ s.pc = "prepare"         => StepsLeft(s) = 8 + 5 * Polls
         /\ s.pc = "reset_failed"    => StepsLeft(s) = 7 + 5 * Polls
         /\ s.pc = "start_transient" => StepsLeft(s) = 6 + 5 * Polls
         /\ s.pc = "stop_unit"       => StepsLeft(s) = 17 + 7 * Polls
         /\ s.pc = "reset_stopped"   => StepsLeft(s) = 3 + 2 * s.polls + 5 + (8 + 5 * Polls)
         /\ s.pc = "poll_stop"       => StepsLeft(s) = 2 + 2 * s.polls + 5 + (8 + 5 * Polls)
         /\ s.pc = "poll_props"      => StepsLeft(s) = 1 + 2 * s.polls + 5 + (8 + 5 * Polls)
         /\ s.pc = "done"            => StepsLeft(s) = 0
<1>1. /\ StartLength = 8 + 5 * Polls /\ RestartLength = 17 + 7 * Polls /\ LookLength = 5
  BY PollsAssumption DEF StartLength, RestartLength, LookLength, StopLength
<1>2. /\ StartLength - 1 = 7 + 5 * Polls /\ StartLength - 2 = 6 + 5 * Polls
      /\ 1 + LookLength + RestartLength = 23 + 7 * Polls
  BY <1>1, PollsAssumption
<1>3. /\ DOMAIN StepsOfLook = {"sample", "get_unit", "get_service", "probe", "attribute"}
      /\ StepsOfLook["sample"] = 5 /\ StepsOfLook["get_unit"] = 4
      /\ StepsOfLook["get_service"] = 3 /\ StepsOfLook["probe"] = 2
      /\ StepsOfLook["attribute"] = 1
  BY DEF StepsOfLook
<1> HIDE DEF StepsOfLook
<1> QED BY <1>1, <1>2, <1>3 DEF StepsLeft

\* And by what a look is for.
LEMMA AfterLookInNumbers ==
  ASSUME NEW s
  PROVE  /\ s.goal = "report"                   => LeftAfterLook(s) = 0
         /\ s.goal = "wait_start"               => LeftAfterLook(s) = 5 * s.polls
         /\ s.goal = "precheck"                 => LeftAfterLook(s) = 8 + 5 * Polls
         /\ s.goal \in {"gather", "stop_check"} => LeftAfterLook(s) = 17 + 7 * Polls
<1>1. StartLength = 8 + 5 * Polls /\ RestartLength = 17 + 7 * Polls /\ LookLength = 5
  BY PollsAssumption DEF StartLength, RestartLength, LookLength, StopLength
<1> QED BY <1>1 DEF LeftAfterLook

\* There is always a number left, and none only at the end.
LEMMA LeftTyped ==
  ASSUME NEW s \in Invocations
  PROVE  /\ StepsLeft(s) \in Nat
         /\ s.pc # "done" => StepsLeft(s) > 0
<1>1. s.polls \in Nat /\ Polls \in Nat /\ s.pc \in Steps /\ s.goal \in Goals
  BY PollsAssumption DEF Invocations
<1>2. LeftAfterLook(s) \in Nat
  BY <1>1, AfterLookInNumbers DEF Goals
<1> QED BY <1>1, <1>2, LeftInNumbers DEF Steps

\* Where a move leaves an invocation.
Stands(c, step, goal, polls) ==
  cli'[c].pc = step /\ cli'[c].goal = goal /\ cli'[c].polls = polls

LEMMA MovesStand ==
  ASSUME TypeOK, NEW c \in CLI
  PROVE  /\ \A step : Goto(c, step) => Stands(c, step, cli[c].goal, cli[c].polls)
         /\ \A goal, polls : Observe(c, goal, polls) => Stands(c, "sample", goal, polls)
         /\ \A result : Finish(c, result) => cli'[c].pc = "done"
         /\ \A u : Snapshot(c, u) => Stands(c, "probe", cli[c].goal, cli[c].polls)
<1> DEFINE f == Forget(cli[c])
<1>1. /\ cli[c] \in Invocations /\ f \in Invocations
      /\ f.goal = cli[c].goal /\ f.polls = cli[c].polls
  BY ForgetTyped DEF TypeOK
<1>2. \A s : Become(c, s) => cli'[c] = s
  BY DEF Become, TypeOK
<1> HIDE DEF f
<1>3. ASSUME NEW step, cli'[c] = [f EXCEPT !.pc = step]
      PROVE  Stands(c, step, cli[c].goal, cli[c].polls)
  BY <1>1, <1>3 DEF Stands, Invocations
<1>4. ASSUME NEW goal, NEW polls,
             cli'[c] = [f EXCEPT !.pc = "sample", !.goal = goal, !.polls = polls]
      PROVE  Stands(c, "sample", goal, polls)
  BY <1>1, <1>4 DEF Stands, Invocations
<1>5. ASSUME NEW obs, cli'[c] = [f EXCEPT !.pc = "probe", !.obs = obs]
      PROVE  Stands(c, "probe", cli[c].goal, cli[c].polls)
  BY <1>1, <1>5 DEF Stands, Invocations
<1>6. ASSUME NEW result,
             cli'[c] = [NewInvocation EXCEPT !.op = cli[c].op, !.pc = "done", !.result = result]
      PROVE  cli'[c].pc = "done"
  BY <1>6 DEF NewInvocation
<1>7. \A step : Goto(c, step) => Stands(c, step, cli[c].goal, cli[c].polls)
  BY <1>2, <1>3, Zenon DEF Goto, f
<1>8. \A goal, polls : Observe(c, goal, polls) => Stands(c, "sample", goal, polls)
  BY <1>2, <1>4, Zenon DEF Observe, f
<1>9. \A result : Finish(c, result) => cli'[c].pc = "done"
  BY <1>2, <1>6, Zenon DEF Finish
<1>10. \A u : Snapshot(c, u) => Stands(c, "probe", cli[c].goal, cli[c].polls)
  BY <1>2, <1>5, Zenon DEF Snapshot, f
<1> QED BY <1>7, <1>8, <1>9, <1>10

\* Judging a row, whatever it is for, leaves less than the look had.
LEMMA DecideUsesUp ==
  ASSUME TypeOK, NEW c \in CLI, cli'[c] \in Invocations, NEW row, Decide(c, row),
         cli[c].pc \in {"sample", "attribute"}
  PROVE  StepsLeft(cli'[c]) < StepsLeft(cli[c])
<1>1. /\ cli[c] \in Invocations /\ Polls \in Nat /\ cli[c].goal \in Goals
      /\ cli[c].polls \in Nat /\ cli[c].polls <= Polls
      /\ cli[c].pc # "done" /\ StepsLeft(cli[c]) \in Nat /\ StepsLeft(cli[c]) > 0
  BY PollsAssumption, LeftTyped DEF TypeOK, Invocations
<1>2. LeftAfterLook(cli[c]) \in Nat
  BY <1>1, AfterLookInNumbers DEF Goals
<1>3. StepsLeft(cli[c]) >= 1 + LeftAfterLook(cli[c])
  BY <1>2, LeftInNumbers
<1>4. ASSUME NEW result, Finish(c, result) PROVE StepsLeft(cli'[c]) < StepsLeft(cli[c])
  BY <1>1, <1>4, MovesStand, LeftInNumbers
<1>5. ASSUME Goto(c, "stop_unit"), cli[c].goal \in {"gather", "stop_check"}
      PROVE  StepsLeft(cli'[c]) < StepsLeft(cli[c])
  <2>1. StepsLeft(cli'[c]) = 17 + 7 * Polls
    BY <1>5, MovesStand, LeftInNumbers DEF Stands
  <2> QED BY <1>1, <1>3, <1>5, <2>1, AfterLookInNumbers
<1>6. ASSUME NEW polls \in Nat, Observe(c, "wait_start", polls)
      PROVE  StepsLeft(cli'[c]) = 5 + 5 * polls
  BY <1>6, MovesStand, LeftInNumbers, AfterLookInNumbers DEF Stands
<1>7. CASE cli[c].goal = "report"
  BY <1>4, <1>7 DEF Decide
<1>8. CASE cli[c].goal = "gather"
  BY <1>4, <1>5, <1>8 DEF Decide, RestartFailedOnly
<1>9. CASE cli[c].goal = "stop_check"
  BY <1>4, <1>5, <1>9 DEF Decide, TryStop
<1>10. CASE cli[c].goal = "precheck"
  <2>1. \/ \E result : Finish(c, result)
        \/ Observe(c, "wait_start", Polls)
        \/ Goto(c, "prepare")
    BY <1>10 DEF Decide, TryStart
  <2>2. StepsLeft(cli[c]) >= 9 + 5 * Polls
    BY <1>1, <1>3, <1>10, AfterLookInNumbers
  <2>3. Goto(c, "prepare") => StepsLeft(cli'[c]) = 8 + 5 * Polls
    BY MovesStand, LeftInNumbers DEF Stands
  <2> QED BY <1>1, <1>4, <1>6, <2>1, <2>2, <2>3
<1>11. CASE cli[c].goal = "wait_start"
  <2>1. \/ \E result : Finish(c, result)
        \/ cli[c].polls > 0 /\ Observe(c, "wait_start", cli[c].polls - 1)
    BY <1>11 DEF Decide, WaitStep
  <2>2. StepsLeft(cli[c]) >= 1 + 5 * cli[c].polls
    BY <1>1, <1>3, <1>11, AfterLookInNumbers
  <2>3. ASSUME cli[c].polls > 0, Observe(c, "wait_start", cli[c].polls - 1)
        PROVE  StepsLeft(cli'[c]) < StepsLeft(cli[c])
    <3>1. cli[c].polls - 1 \in Nat
      BY <1>1, <2>3
    <3>2. StepsLeft(cli'[c]) = 5 + 5 * (cli[c].polls - 1)
      BY <1>6, <2>3, <3>1
    <3> QED BY <1>1, <2>2, <3>2
  <2> QED BY <1>4, <2>1, <2>3
<1> QED BY <1>1, <1>7, <1>8, <1>9, <1>10, <1>11 DEF Goals

\* So does a turn of wait_for_stop.
LEMMA JudgeStopUsesUp ==
  ASSUME TypeOK, NEW c \in CLI, NEW u, JudgeStop(c, u),
         cli[c].pc \in {"poll_stop", "poll_props"}
  PROVE  StepsLeft(cli'[c]) < StepsLeft(cli[c])
<1>1. /\ cli[c] \in Invocations /\ Polls \in Nat /\ cli[c].polls \in Nat
      /\ StepsLeft(cli[c]) \in Nat /\ StepsLeft(cli[c]) > 0
  BY PollsAssumption, LeftTyped DEF TypeOK, Invocations
<1>2. StepsLeft(cli[c]) >= 1 + 2 * cli[c].polls + 5 + (8 + 5 * Polls)
  BY <1>1, LeftInNumbers
<1>3. ASSUME NEW result, Finish(c, result) PROVE StepsLeft(cli'[c]) < StepsLeft(cli[c])
  BY <1>1, <1>3, MovesStand, LeftInNumbers
<1>4. CASE Become(c, [cli[c] EXCEPT !.pc = "sample", !.goal = "precheck",
                                     !.polls = Polls, !.base = created])
  <2>1. cli'[c] = [cli[c] EXCEPT !.pc = "sample", !.goal = "precheck",
                                 !.polls = Polls, !.base = created]
    BY <1>4 DEF Become, TypeOK
  <2>2. cli'[c].pc = "sample" /\ cli'[c].goal = "precheck"
    BY <1>1, <2>1 DEF Invocations
  <2>3. StepsLeft(cli'[c]) = 13 + 5 * Polls
    BY <1>1, <2>2, LeftInNumbers, AfterLookInNumbers
  <2> QED BY <1>1, <1>2, <2>3
<1>5. CASE /\ cli[c].polls > 0
           /\ Become(c, [cli[c] EXCEPT !.pc = "poll_stop", !.polls = @ - 1])
  <2>1. cli'[c] = [cli[c] EXCEPT !.pc = "poll_stop", !.polls = cli[c].polls - 1]
    BY <1>1, <1>5 DEF Become, TypeOK, Invocations
  <2>2. cli'[c].pc = "poll_stop" /\ cli'[c].polls = cli[c].polls - 1
    BY <1>1, <2>1 DEF Invocations
  <2>3. StepsLeft(cli'[c]) = 2 + 2 * (cli[c].polls - 1) + 5 + (8 + 5 * Polls)
    BY <2>2, LeftInNumbers
  <2> QED BY <1>1, <1>2, <1>5, <2>3
<1> QED BY <1>3, <1>4, <1>5 DEF JudgeStop, Stopped

\* So does every step of an invocation.
LEMMA StepUsesUp ==
  ASSUME TypeOK, NEW c \in CLI, Step(c), cli'[c] \in Invocations
  PROVE  StepsLeft(cli'[c]) < StepsLeft(cli[c])
<1> DEFINE UsesUp == StepsLeft(cli'[c]) < StepsLeft(cli[c])
<1>1. /\ cli[c] \in Invocations /\ Polls \in Nat
      /\ cli[c].polls \in Nat /\ cli[c].polls <= Polls
      /\ StepsLeft(cli[c]) \in Nat /\ (cli[c].pc # "done" => StepsLeft(cli[c]) > 0)
  BY PollsAssumption, LeftTyped DEF TypeOK, Invocations
<1>2. LeftAfterLook(cli[c]) \in Nat /\ cli'[c].goal \in Goals
  BY <1>1, AfterLookInNumbers DEF Goals, Invocations
<1>3. ASSUME NEW result, Finish(c, result), cli[c].pc # "done" PROVE UsesUp
  BY <1>1, <1>3, MovesStand, LeftInNumbers
<1>4. \A s : Become(c, s) => cli'[c] = s
  BY DEF Become, TypeOK
<1>5. \A t \in Invocations : t.goal = cli[c].goal /\ t.polls = cli[c].polls
                               => LeftAfterLook(t) = LeftAfterLook(cli[c])
  BY DEF LeftAfterLook
<1>6. CASE Begin(c)
  <2>0. cli[c].pc = "idle" /\ StepsLeft(cli[c]) = 23 + 7 * Polls
    BY <1>6, LeftInNumbers DEF Begin, At
  <2>1. PICK op \in Ops :
          LET s == [cli[c] EXCEPT !.op = op] IN
          CASE DisabledPolicyRefuses(op) ->
                 Become(c, [s EXCEPT !.pc = "done", !.result = Refused])
            [] op = "restart" /\ ~DisabledPolicyRefuses(op) ->
                 Become(c, [s EXCEPT !.pc = "stop_unit", !.goal = "precheck"])
            [] OTHER ->
                 Become(c, [s EXCEPT !.pc = "sample", !.goal = FirstGoal(op)])
    BY <1>6, Zenon DEF Begin
  <2> DEFINE s == [cli[c] EXCEPT !.op = op]
  <2>2. \/ cli'[c] = [s EXCEPT !.pc = "done", !.result = Refused]
        \/ cli'[c] = [s EXCEPT !.pc = "stop_unit", !.goal = "precheck"]
        \/ cli'[c] = [s EXCEPT !.pc = "sample", !.goal = FirstGoal(op)]
    BY <1>4, <2>1
  <2>3. s \in Invocations
    BY <1>1 DEF Invocations
  <2> HIDE DEF s
  <2>4. \/ cli'[c].pc \in {"done", "stop_unit"}
        \/ cli'[c].pc = "sample" /\ cli'[c].goal \in {"report", "precheck", "stop_check", "gather"}
    BY <2>2, <2>3 DEF Invocations, FirstGoal
  <2>5. StepsLeft(cli'[c]) <= 22 + 7 * Polls
    BY <1>1, <2>4, LeftInNumbers, AfterLookInNumbers
  <2> QED BY <1>1, <2>0, <2>5, LeftTyped
<1>7. CASE Sample(c)
  <2>0. cli[c].pc = "sample" /\ StepsLeft(cli[c]) = 5 + LeftAfterLook(cli[c])
    BY <1>7, LeftInNumbers DEF Sample, At
  <2>1. CASE Become(c, [cli[c] EXCEPT !.pc = "get_unit", !.clock = ReadClock(unit)])
    <3>1. cli'[c].pc = "get_unit" /\ cli'[c].goal = cli[c].goal /\ cli'[c].polls = cli[c].polls
      BY <1>1, <1>4, <2>1 DEF Invocations
    <3> QED BY <1>2, <1>5, <2>0, <3>1, LeftInNumbers
  <2>2. CASE Decide(c, InvalidAddressRow)
    BY <2>0, <2>2, DecideUsesUp
  <2> QED BY <1>7, <2>1, <2>2 DEF Sample
<1>8. CASE GetUnit(c)
  <2>0. cli[c].pc = "get_unit" /\ StepsLeft(cli[c]) = 4 + LeftAfterLook(cli[c])
    BY <1>8, LeftInNumbers DEF GetUnit, At
  <2>1. cli'[c].pc \in {"probe", "get_service"}
        /\ cli'[c].goal = cli[c].goal /\ cli'[c].polls = cli[c].polls
    <3>1. CASE Goto(c, "probe")
      BY <3>1, MovesStand DEF Stands
    <3>2. CASE Become(c, [cli[c] EXCEPT !.pc = "get_service", !.active = unit.active])
      BY <1>1, <1>4, <3>2 DEF Invocations
    <3> QED BY <1>8, <3>1, <3>2 DEF GetUnit
  <2> QED BY <1>2, <1>5, <2>0, <2>1, LeftInNumbers
<1>9. CASE GetService(c)
  <2>0. cli[c].pc = "get_service" /\ StepsLeft(cli[c]) = 3 + LeftAfterLook(cli[c])
    BY <1>9, LeftInNumbers DEF GetService, At
  <2>1. CASE \E u : Snapshot(c, u)
    <3>1. Stands(c, "probe", cli[c].goal, cli[c].polls)
      BY <2>1, MovesStand
    <3> QED BY <1>2, <1>5, <2>0, <3>1, LeftInNumbers DEF Stands
  <2> QED BY <1>3, <1>9, <2>0, <2>1 DEF GetService
<1>10. CASE Probe(c)
  <2>0. cli[c].pc = "probe" /\ StepsLeft(cli[c]) = 2 + LeftAfterLook(cli[c])
    BY <1>10, LeftInNumbers DEF Probe, At
  <2>1. cli'[c].pc = "attribute" /\ cli'[c].goal = cli[c].goal /\ cli'[c].polls = cli[c].polls
    BY <1>1, <1>4, <1>10 DEF Probe, Invocations
  <2> QED BY <1>2, <1>5, <2>0, <2>1, LeftInNumbers
<1>11. CASE Attribute(c)
  BY <1>11, DecideUsesUp DEF Attribute, At
<1>12. CASE Prepare(c)
  <2>0. cli[c].pc = "prepare" /\ StepsLeft(cli[c]) = 8 + 5 * Polls
    BY <1>12, LeftInNumbers DEF Prepare, At
  <2>1. Goto(c, "reset_failed") => StepsLeft(cli'[c]) = 7 + 5 * Polls
    BY MovesStand, LeftInNumbers DEF Stands
  <2> QED BY <1>1, <1>3, <1>12, <2>0, <2>1 DEF Prepare
<1>13. CASE ResetBeforeStart(c)
  <2>1. StepsLeft(cli[c]) = 7 + 5 * Polls
    BY <1>13, LeftInNumbers DEF ResetBeforeStart, At
  <2>2. StepsLeft(cli'[c]) = 6 + 5 * Polls
    BY <1>13, MovesStand, LeftInNumbers DEF ResetBeforeStart, Stands
  <2> QED BY <1>1, <2>1, <2>2
<1>14. CASE StartTransient(c)
  <2>0. cli[c].pc = "start_transient" /\ StepsLeft(cli[c]) = 6 + 5 * Polls
    BY <1>14, LeftInNumbers DEF StartTransient, At
  <2>1. Observe(c, "wait_start", Polls) => StepsLeft(cli'[c]) = 5 + 5 * Polls
    BY MovesStand, LeftInNumbers, AfterLookInNumbers DEF Stands
  <2> QED BY <1>1, <1>3, <1>14, <2>0, <2>1 DEF StartTransient
<1>15. CASE StopUnit(c)
  <2>0. cli[c].pc = "stop_unit" /\ StepsLeft(cli[c]) = 17 + 7 * Polls
    BY <1>15, LeftInNumbers DEF StopUnit, At
  <2>1. cli'[c].pc \in {"poll_stop", "reset_stopped"} /\ cli'[c].polls = Polls
    BY <1>1, <1>4, <1>15 DEF StopUnit, Invocations
  <2>2. StepsLeft(cli'[c]) <= 16 + 7 * Polls
    BY <1>1, <2>1, LeftInNumbers
  <2> QED BY <1>1, <2>0, <2>2, LeftTyped
<1>16. CASE ResetAfterStop(c)
  <2>1. StepsLeft(cli[c]) = 3 + 2 * cli[c].polls + 5 + (8 + 5 * Polls)
    BY <1>16, LeftInNumbers DEF ResetAfterStop, At
  <2>2. StepsLeft(cli'[c]) = 2 + 2 * cli[c].polls + 5 + (8 + 5 * Polls)
    BY <1>16, MovesStand, LeftInNumbers DEF ResetAfterStop, Stands
  <2> QED BY <1>1, <2>1, <2>2
<1>17. CASE PollStop(c)
  <2>0. /\ cli[c].pc = "poll_stop"
        /\ StepsLeft(cli[c]) = 2 + 2 * cli[c].polls + 5 + (8 + 5 * Polls)
    BY <1>17, LeftInNumbers DEF PollStop, At
  <2>1. ASSUME Goto(c, "poll_props") PROVE UsesUp
    <3>1. StepsLeft(cli'[c]) = 1 + 2 * cli[c].polls + 5 + (8 + 5 * Polls)
      BY <2>1, MovesStand, LeftInNumbers DEF Stands
    <3> QED BY <1>1, <2>0, <3>1
  <2> QED BY <1>17, <2>0, <2>1, JudgeStopUsesUp DEF PollStop
<1>18. CASE PollProps(c)
  <2>1. cli[c].pc = "poll_props"
    BY <1>18 DEF PollProps, At
  <2> QED BY <1>3, <1>18, <2>1, JudgeStopUsesUp DEF PollProps
<1>19. CASE BusFails(c)
  <2>1. cli[c].pc # "done" /\ \E result : Finish(c, result)
    BY <1>19 DEF BusFails, Calls, Connects
  <2> QED BY <1>3, <2>1
<1> QED
  BY <1>6, <1>7, <1>8, <1>9, <1>10, <1>11, <1>12, <1>13, <1>14, <1>15, <1>16, <1>17, <1>18,
     <1>19
     DEF Step

\* An invocation takes at most 23 + 7 * Polls steps, whatever the others and the
\* world do: no wait is begun anew (wait_for_stop and wait_for,
\* src/commands/mutate.rs:440, 726).
THEOREM InvocationsRunOut == Spec => StepsRunOut
<1>1. ASSUME TypeOK, TypeOK', [Next]_vars
      PROVE  [\A c \in CLI : Step(c) =>
                StepsLeft(cli'[c]) \in 0..(StepsLeft(cli[c]) - 1)]_vars
  <2> SUFFICES ASSUME NEW c \in CLI, Step(c)
               PROVE  StepsLeft(cli'[c]) \in 0..(StepsLeft(cli[c]) - 1)
    OBVIOUS
  <2>1. cli[c] \in Invocations /\ cli'[c] \in Invocations
    BY <1>1 DEF TypeOK
  <2>2. StepsLeft(cli[c]) \in Nat /\ StepsLeft(cli'[c]) \in Nat
    BY <2>1, LeftTyped
  <2>3. StepsLeft(cli'[c]) < StepsLeft(cli[c])
    BY <1>1, <2>1, StepUsesUp
  <2> QED BY <2>2, <2>3
<1> QED BY <1>1, TypeCorrect, PTL DEF Spec, StepsRunOut

=============================================================================
