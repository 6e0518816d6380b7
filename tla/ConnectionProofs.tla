-------------------------- MODULE ConnectionProofs --------------------------
(***************************************************************************)
(* Lifecycle implements Connection, and what that says about the number    *)
(* of units: for any number of invocations, any poll budget, any set of    *)
(* subcommands and Connections, with and without faults.                   *)
(***************************************************************************)
EXTENDS LifecycleProofs, FiniteSetTheorems

\* The Connection's view of the state.
Holder     == IF unit = Absent THEN 0 ELSE unit.id
RequestFun == [c \in CLI |-> RequestOf(cli[c])]

-----------------------------------------------------------------------------
(* The world only ever releases the name.                                  *)

\* What systemd, the proxy and other programs do leaves the name with whom it
\* is, or frees it.
LEMMA WorldReleases ==
  ASSUME UnitOK, WorldStep
  PROVE  created' = created /\ (Holder' = Holder \/ Holder' = 0)
<1> USE DEF UnitOK, UnitTypeOK, Holder, Units
<1>1. CASE ManagerStep
  BY <1>1 DEF ManagerStep, DispatchStart, ExecSucceeds, ExecFails, Ends, DispatchStop,
              StopsCleanly, StopFails, Unloads, StateIs, JobIs
<1>2. CASE BindsPort \/ ProxyCrashes \/ ProxyExits
  BY <1>2 DEF BindsPort, ProxyCrashes, ProxyExits, Ends, StateIs
<1>3. CASE ClosesPort \/ StartAges \/ ForeignBinds \/ ForeignLeaves
  BY <1>3 DEF ClosesPort, StartAges, ForeignBinds, ForeignLeaves, StateIs
<1> QED BY <1>1, <1>2, <1>3 DEF WorldStep

\* StopUnit and ResetFailedUnit leave the name alone.
LEMMA CallsKeepName ==
  ASSUME UnitOK, QueueStop \/ ResetFailed \/ UNCHANGED unitVars
  PROVE  created' = created /\ Holder' = Holder
<1> USE DEF UnitOK, UnitTypeOK, Holder, Units
<1>1. CASE QueueStop
  <2>1. unit' \in Units /\ unit'.id = unit.id
    BY <1>1 DEF QueueStop
  <2> QED BY <1>1, <2>1, AbsentAssumption DEF QueueStop
<1>2. CASE ResetFailed /\ StateIs({"failed"})
  <2>1. unit # Absent /\ unit' \in Units /\ unit'.id = unit.id
    BY <1>2, EndingsTyped DEF ResetFailed, StateIs, ActiveStates
  <2> QED BY <1>2, <2>1, AbsentAssumption DEF ResetFailed
<1>4. CASE ResetFailed /\ ~StateIs({"failed"})
  BY <1>4 DEF ResetFailed
<1>3. CASE UNCHANGED unitVars
  BY <1>3 DEF unitVars
<1> QED BY <1>1, <1>2, <1>3, <1>4

-----------------------------------------------------------------------------
(* A step of an invocation, as a step of its request.                      *)

\* An invocation's step is its request's alone.
LEMMA OwnRequest ==
  ASSUME NEW c \in CLI, \A d \in CLI \ {c} : cli'[d] = cli[d]
  PROVE  Abstract!Become(c, RequestOf(cli'[c]))
BY DEF Abstract!Become

\* A move within a part of the request is none of the request's.
LEMMA Stutters ==
  ASSUME NEW c \in CLI, \A d \in CLI \ {c} : cli'[d] = cli[d],
         RequestOf(cli'[c]) = RequestOf(cli[c]),
         created' = created, Holder' = Holder
  PROVE  UNCHANGED Abstract!vars
BY DEF Abstract!vars, Holder

\* A move to another part of the request.
LEMMA MovesProceed ==
  ASSUME NEW c \in CLI, NEW step, NEW goal, NEW base, Moves(c, step, goal, base),
         NEW phase, PhaseOf(cli'[c]) = phase
  PROVE  Abstract!Proceed(c, phase)
<1>1. RequestOf(cli'[c]) = [RequestOf(cli[c]) EXCEPT !.phase = phase]
  BY DEF Moves, RequestOf, OutcomeOf
<1>2. Abstract!Become(c, RequestOf(cli'[c]))
  BY OwnRequest DEF Moves
<1> QED BY <1>1, <1>2 DEF Abstract!Proceed

\* An answer is the request's answer.
LEMMA FinishAnswers ==
  ASSUME TypeOK, NEW c \in CLI, NEW result, Finish(c, result), result # Pending
  PROVE  Abstract!Answer(c, IF result = Succeeded THEN "success" ELSE "other")
<1>1. /\ cli'[c].op = cli[c].op /\ cli'[c].pc = "done" /\ cli'[c].result = result
      /\ \A d \in CLI \ {c} : cli'[d] = cli[d]
  BY DEF Finish, Become, NewInvocation, TypeOK
<1>2. RequestOf(cli'[c]) =
        Abstract!Request(RequestOf(cli[c]).kind, "answered",
                         IF result = Succeeded THEN "success" ELSE "other")
  <2>1. PhaseOf(cli'[c]) = "answered"
    BY <1>1 DEF PhaseOf
  <2>2. OutcomeOf(cli'[c]) = IF result = Succeeded THEN "success" ELSE "other"
    <3>1. Pending # Succeeded
      BY DEF Succeeded, Pending, Result
    <3> QED BY <1>1, <3>1 DEF OutcomeOf
  <2>3. RequestOf(cli[c]).kind = RequestOf(cli'[c]).kind
    BY <1>1 DEF RequestOf
  <2> QED BY <2>1, <2>2, <2>3 DEF RequestOf, Abstract!Request
<1>3. Abstract!Become(c, RequestOf(cli'[c]))
  BY <1>1, OwnRequest
<1> QED BY <1>2, <1>3 DEF Abstract!Answer

-----------------------------------------------------------------------------
(* Judging what was read.                                                  *)

\* What a step of an invocation is to its request.
RequestStep(c) ==
  \/ UNCHANGED Abstract!vars
  \/ Abstract!Ask(c)         \/ Abstract!TurnToStop(c) \/ Abstract!SeeFree(c)
  \/ Abstract!TurnToStart(c) \/ Abstract!Create(c)     \/ Abstract!Confirm(c)
  \/ Abstract!AnswerOtherwise(c)

\* Whatever is not a success answers otherwise, from anywhere but the ends.
LEMMA FinishOtherwise ==
  ASSUME IInv, NEW c \in CLI, NEW result, Finish(c, result),
         result \notin {Pending, Succeeded},
         cli[c].pc \notin {"idle", "done"}, cli[c].pc \in Steps,
         created' = created, Holder' = Holder
  PROVE  RequestStep(c)
<1>1. Abstract!Answer(c, "other")
  BY FinishAnswers DEF IInv
<1>2. PhaseOf(cli[c]) \notin {"idle", "answered"}
  BY DEF PhaseOf, LooksFor, Steps
<1>3. ~Abstract!In(c, {"idle", "answered"})
  BY <1>2 DEF Abstract!In, RequestOf
<1> QED BY <1>1, <1>3 DEF Abstract!AnswerOtherwise, RequestStep, Holder

\* Judging a row turns a request to stopping, starting or waiting, or answers it.
LEMMA DecideRefines ==
  ASSUME IInv, NEW c \in CLI, NEW row, cli[c].pc \in Looks, Decide(c, row),
         UNCHANGED <<unitVars, conn>>
  PROVE  RequestStep(c)
<1>1. /\ TypeOK /\ Phased(cli[c]) /\ cli[c] \in Invocations
      /\ cli[c].op \in Ops \cup {"none"} /\ cli[c].goal \in Goals /\ cli[c].pc \in Steps
  BY DEF IInv, Sound, TypeOK, Invocations
<1>2. cli[c].op # "none" /\ cli[c].pc \notin {"idle", "done"}
  BY <1>1 DEF Phased, Looks
<1>3. created' = created /\ Holder' = Holder
  BY DEF unitVars, Holder
<1>4. ASSUME NEW result, Finish(c, result), result \notin {Pending, Succeeded}
      PROVE  RequestStep(c)
  BY <1>1, <1>2, <1>3, <1>4, FinishOtherwise
<1>5. /\ \A code : Failed(code) \notin {Pending, Succeeded}
      /\ \A state : Reported(state) \notin {Pending, Succeeded}
      /\ Unselected \notin {Pending, Succeeded}
  BY DEF Failed, Reported, Unselected, Pending, Succeeded, Result
<1>6. Succeeded # Pending
  BY DEF Pending, Succeeded, Result
<1>7. CASE cli[c].goal = "report"
  BY <1>4, <1>5, <1>7 DEF Decide
<1>8. ASSUME Goto(c, "stop_unit"), cli[c].goal \in {"gather", "stop_check"}
      PROVE  RequestStep(c)
  <2>1. Moves(c, "stop_unit", cli[c].goal, cli[c].base)
    BY <1>1, <1>8, GotoMoves
  <2>2. PhaseOf(cli[c]) = "looking" /\ PhaseOf(cli'[c]) = "stopping"
    BY <1>8, <2>1 DEF PhaseOf, LooksFor, Looks, Moves
  <2>3. cli[c].op \in Restarts \cup {"stop"}
    BY <1>1, <1>2, <1>8, OpsAssumption
       DEF Phased, Looks, Starting, Stopping, StartLike, Restarts
  <2>4. Abstract!Proceed(c, "stopping")
    BY <2>1, <2>2, MovesProceed
  <2>5. Abstract!In(c, {"looking"}) /\ Abstract!Is(c, {"stop", "restart"})
    BY <2>2, <2>3 DEF Abstract!In, Abstract!Is, RequestOf, Restarts
  <2> QED BY <1>3, <2>4, <2>5 DEF Abstract!TurnToStop, RequestStep, Holder
<1>9. CASE cli[c].goal = "gather"
  BY <1>4, <1>5, <1>8, <1>9 DEF Decide, RestartFailedOnly
<1>10. ASSUME Finish(c, Succeeded), cli[c].goal \in {"stop_check", "precheck", "wait_start"}
       PROVE  RequestStep(c)
  <2>1. Abstract!Answer(c, "success")
    BY <1>1, <1>6, <1>10, FinishAnswers
  <2>2. PhaseOf(cli[c]) = CASE cli[c].goal = "stop_check" -> "looking"
                            [] cli[c].goal = "precheck" -> "deciding"
                            [] cli[c].goal = "wait_start" -> "waiting"
    BY <1>10 DEF PhaseOf, LooksFor, Looks
  <2>3. IF cli[c].goal = "stop_check" THEN cli[c].op = "stop" ELSE cli[c].op \in StartLike
    BY <1>1, <1>2, <1>10, OpsAssumption
       DEF Phased, Looks, Starting, Stopping, StartLike, Restarts
  <2>4. \/ Abstract!Is(c, {"stop"}) /\ Abstract!In(c, {"looking"})
        \/ Abstract!Is(c, {"start", "restart"}) /\ Abstract!In(c, {"deciding", "waiting"})
    BY <1>10, <2>2, <2>3 DEF Abstract!In, Abstract!Is, RequestOf, StartLike
  <2> QED BY <1>3, <2>1, <2>4 DEF Abstract!Confirm, RequestStep, Holder
<1>11. CASE cli[c].goal = "stop_check"
  BY <1>8, <1>10, <1>11 DEF Decide, TryStop
<1>12. ASSUME cli[c].goal = "precheck", NEW polls, Observe(c, "wait_start", polls)
       PROVE  RequestStep(c)
  <2>1. Moves(c, "sample", "wait_start", cli[c].base)
    BY <1>1, <1>12, ObserveMoves
  <2>2. PhaseOf(cli[c]) = "deciding" /\ PhaseOf(cli'[c]) = "waiting"
    BY <1>12, <2>1 DEF PhaseOf, LooksFor, Looks, Moves
  <2>3. Abstract!Proceed(c, "waiting") /\ Abstract!In(c, {"deciding"})
    BY <2>1, <2>2, MovesProceed DEF Abstract!In, RequestOf
  <2> QED BY <1>3, <2>3 DEF Abstract!TurnToStart, RequestStep, Holder
<1>13. ASSUME cli[c].goal = "precheck", Goto(c, "prepare") PROVE RequestStep(c)
  <2>1. Moves(c, "prepare", cli[c].goal, cli[c].base)
    BY <1>1, <1>13, GotoMoves
  <2>2. PhaseOf(cli[c]) = "deciding" /\ PhaseOf(cli'[c]) = "starting"
    BY <1>13, <2>1 DEF PhaseOf, LooksFor, Looks, Moves
  <2>3. Abstract!Proceed(c, "starting") /\ Abstract!In(c, {"deciding"})
    BY <2>1, <2>2, MovesProceed DEF Abstract!In, RequestOf
  <2> QED BY <1>3, <2>3 DEF Abstract!TurnToStart, RequestStep, Holder
<1>14. CASE cli[c].goal = "precheck"
  BY <1>4, <1>5, <1>10, <1>12, <1>13, <1>14 DEF Decide, TryStart
<1>15. ASSUME cli[c].goal = "wait_start", NEW polls, Observe(c, "wait_start", polls)
       PROVE  RequestStep(c)
  <2>1. Moves(c, "sample", "wait_start", cli[c].base)
    BY <1>1, <1>15, ObserveMoves
  <2>2. PhaseOf(cli[c]) = "waiting" /\ PhaseOf(cli'[c]) = "waiting"
    BY <1>15, <2>1 DEF PhaseOf, LooksFor, Looks, Moves
  <2>3. RequestOf(cli'[c]) = RequestOf(cli[c])
    BY <2>1, <2>2 DEF RequestOf, OutcomeOf, Moves
  <2> QED BY <1>3, <2>1, <2>3, Stutters DEF RequestStep, Moves
<1>16. CASE cli[c].goal = "wait_start"
  <2>1. WaitStep(c, row)
    BY <1>16 DEF Decide
  <2>2. \/ Finish(c, Succeeded)
        \/ \E code : Finish(c, Failed(code))
        \/ Observe(c, "wait_start", cli[c].polls - 1)
    <3>1. CASE IsRunning(row)
      BY <2>1, <3>1 DEF WaitStep
    <3>2. CASE IsPermanentStartFailure(row.code) /\ ~IsRunning(row)
      BY <2>1, <3>2 DEF WaitStep
    <3>3. CASE ~IsPermanentStartFailure(row.code) /\ ~IsRunning(row)
      <4> DEFINE code == IF row.code = NoError THEN "start_timeout" ELSE row.code
      <4> HIDE DEF code
      <4>1. Finish(c, Failed(code)) \/ Observe(c, "wait_start", cli[c].polls - 1)
        BY <2>1, <3>3 DEF WaitStep, code
      <4> QED BY <4>1
    <3> QED BY <3>1, <3>2, <3>3
  <2> QED BY <1>4, <1>5, <1>10, <1>15, <1>16, <2>2
<1> QED BY <1>1, <1>7, <1>9, <1>11, <1>14, <1>16 DEF Goals

\* A turn of the wait for the stop lets a request past it only in a free name.
LEMMA JudgeStopRefines ==
  ASSUME IInv, NEW c \in CLI, NEW u, u = Absent => unit = Absent,
         cli[c].pc \in {"poll_stop", "poll_props"}, JudgeStop(c, u),
         UNCHANGED <<unitVars, conn>>
  PROVE  RequestStep(c)
<1>1. /\ TypeOK /\ Phased(cli[c]) /\ cli[c] \in Invocations /\ cli[c].pc \in Steps
      /\ cli[c].op \in Ops \cup {"none"}
  BY DEF IInv, Sound, TypeOK, Invocations
<1>2. created' = created /\ Holder' = Holder
  BY DEF unitVars, Holder
<1>3. cli[c].op \in Restarts \cup {"stop"} /\ cli[c].op # "none"
  BY <1>1, OpsAssumption DEF Phased, Looks, Starting, Stopping, Restarts
<1>4. Abstract!In(c, {"stopping"})
  BY DEF Abstract!In, RequestOf, PhaseOf
<1>5. Pending # Succeeded /\ Failed("unknown") \notin {Pending, Succeeded}
  BY DEF Pending, Succeeded, Failed, Result
<1>6. CASE UnitSafelyRecreatable(u) /\ cli[c].op = "stop" /\ Finish(c, Succeeded)
  <2>1. Abstract!Answer(c, "success") /\ Abstract!Is(c, {"stop"})
    BY <1>1, <1>5, <1>6, FinishAnswers DEF Abstract!Is, RequestOf
  <2> QED BY <1>2, <1>4, <1>6, <2>1
          DEF Abstract!SeeFree, RequestStep, Holder, UnitSafelyRecreatable
<1>7. CASE /\ UnitSafelyRecreatable(u) /\ cli[c].op # "stop"
           /\ Become(c, [cli[c] EXCEPT !.pc = "sample", !.goal = "precheck",
                                       !.polls = Polls, !.base = created])
  <2>0. /\ cli'[c] = [cli[c] EXCEPT !.pc = "sample", !.goal = "precheck",
                                    !.polls = Polls, !.base = created]
        /\ \A d \in CLI \ {c} : cli'[d] = cli[d]
    BY <1>1, <1>7 DEF Become, TypeOK
  <2>1. Moves(c, "sample", "precheck", created)
    BY <1>1, <2>0 DEF Moves, Invocations
  <2>2. PhaseOf(cli'[c]) = "deciding"
    BY <2>1 DEF PhaseOf, LooksFor, Moves
  <2>3. Abstract!Proceed(c, "deciding") /\ Abstract!Is(c, {"restart"})
    BY <1>3, <1>7, <2>1, <2>2, MovesProceed DEF Abstract!Is, RequestOf, Restarts
  <2> QED BY <1>2, <1>4, <1>7, <2>3
          DEF Abstract!SeeFree, RequestStep, Holder, UnitSafelyRecreatable
<1>8. CASE Finish(c, Failed("unknown"))
  BY <1>1, <1>2, <1>5, <1>8, FinishOtherwise
<1>9. CASE Become(c, [cli[c] EXCEPT !.pc = "poll_stop", !.polls = @ - 1])
  <2>0. /\ cli'[c] = [cli[c] EXCEPT !.pc = "poll_stop", !.polls = @ - 1]
        /\ \A d \in CLI \ {c} : cli'[d] = cli[d]
    BY <1>1, <1>9 DEF Become, TypeOK
  <2>1. Moves(c, "poll_stop", cli[c].goal, cli[c].base)
    BY <1>1, <2>0 DEF Moves, Invocations
  <2>2. RequestOf(cli'[c]) = RequestOf(cli[c])
    BY <2>1 DEF RequestOf, OutcomeOf, PhaseOf, Moves
  <2> QED BY <1>2, <2>1, <2>2, Stutters DEF RequestStep, Moves
<1> QED BY <1>6, <1>7, <1>8, <1>9 DEF JudgeStop, Stopped

-----------------------------------------------------------------------------
(* Every step of an invocation, case by case.                              *)

\* A move inside one part of the request.
LEMMA KeepsPhase ==
  ASSUME NEW c \in CLI, NEW step, Moves(c, step, cli[c].goal, cli[c].base),
         \/ cli[c].pc \in Looks    /\ step \in Looks
         \/ cli[c].pc \in Starting /\ step \in Starting
         \/ cli[c].pc \in Stopping /\ step \in Stopping,
         created' = created, Holder' = Holder
  PROVE  RequestStep(c)
<1>1. PhaseOf(cli'[c]) = PhaseOf(cli[c])
  BY DEF PhaseOf, Moves, Looks, Starting, Stopping
<1>2. RequestOf(cli'[c]) = RequestOf(cli[c])
  BY <1>1 DEF RequestOf, OutcomeOf, Moves
<1> QED BY <1>2, Stutters DEF RequestStep, Moves

\* An invocation's first step asks its request.
LEMMA BeginRefines ==
  ASSUME IInv, NEW c \in CLI, Begin(c)
  PROVE  RequestStep(c)
<1>1. /\ TypeOK /\ Phased(cli[c]) /\ cli[c] \in Invocations
      /\ cli[c].pc = "idle" /\ UNCHANGED <<unitVars, conn>>
  BY DEF IInv, Sound, TypeOK, Begin, At
<1>2. cli[c].result = Pending
  BY <1>1 DEF Phased
<1>3. Abstract!In(c, {"idle"}) /\ created' = created /\ Holder' = Holder
  BY <1>1 DEF Abstract!In, RequestOf, PhaseOf, unitVars, Holder
<1>4. PICK op \in Ops :
        LET s == [cli[c] EXCEPT !.op = op] IN
        CASE DisabledPolicyRefuses(op) ->
               Become(c, [s EXCEPT !.pc = "done", !.result = Refused])
          [] op = "restart" /\ ~DisabledPolicyRefuses(op) ->
               Become(c, [s EXCEPT !.pc = "stop_unit", !.goal = "precheck"])
          [] OTHER ->
               Become(c, [s EXCEPT !.pc = "sample", !.goal = FirstGoal(op)])
  BY DEF Begin
<1> DEFINE s    == [cli[c] EXCEPT !.op = op]
           kind == IF op = "restart_failed" THEN "restart" ELSE op
<1>5. s \in Invocations /\ s.op = op /\ s.pc = "idle" /\ s.result = Pending
  BY <1>1, <1>2 DEF Invocations
<1>6. op \in {"status", "start", "stop", "restart", "restart_failed"}
  BY OpsAssumption
<1> HIDE DEF s
<1>7. ASSUME NEW phase \in Abstract!FirstPhases(kind), RequestOf(cli'[c]) =
               Abstract!Request(kind, phase, "none"),
             \A d \in CLI \ {c} : cli'[d] = cli[d]
      PROVE  RequestStep(c)
  <2>1. Abstract!Become(c, Abstract!Request(kind, phase, "none"))
    BY <1>7, OwnRequest
  <2>2. kind \in Abstract!Kinds
    BY <1>6 DEF Abstract!Kinds
  <2> QED BY <1>3, <2>1, <2>2 DEF Abstract!Ask, RequestStep, Holder
<1>8. CASE DisabledPolicyRefuses(op)
  <2>1. Become(c, [s EXCEPT !.pc = "done", !.result = Refused])
    BY <1>4, <1>8 DEF s
  <2>2. /\ cli'[c].pc = "done" /\ cli'[c].op = op /\ cli'[c].result = Refused
        /\ \A d \in CLI \ {c} : cli'[d] = cli[d]
    BY <1>1, <1>5, <2>1 DEF Become, TypeOK, Invocations
  <2>3. Refused \notin {Pending, Succeeded}
    BY DEF Refused, Pending, Succeeded, Result
  <2>4. PhaseOf(cli'[c]) = "answered" /\ OutcomeOf(cli'[c]) = "other"
    BY <2>2, <2>3 DEF PhaseOf, OutcomeOf
  <2>5. RequestOf(cli'[c]) = Abstract!Request(kind, "answered", "other")
    BY <2>2, <2>4 DEF RequestOf, Abstract!Request
  <2>6. Abstract!Become(c, Abstract!Request(kind, "answered", "other"))
    BY <2>2, <2>5, OwnRequest
  <2>7. kind \in {"start", "restart"} /\ kind \in Abstract!Kinds
    BY <1>8 DEF DisabledPolicyRefuses, StartLike, Abstract!Kinds
  <2> QED BY <1>3, <2>6, <2>7 DEF Abstract!Ask, RequestStep, Holder
<1>9. CASE op = "restart" /\ ~DisabledPolicyRefuses(op)
  <2>1. Become(c, [s EXCEPT !.pc = "stop_unit", !.goal = "precheck"])
    BY <1>4, <1>9 DEF s
  <2>2. /\ cli'[c].pc = "stop_unit" /\ cli'[c].op = op /\ cli'[c].result = Pending
        /\ \A d \in CLI \ {c} : cli'[d] = cli[d]
    BY <1>1, <1>5, <2>1 DEF Become, TypeOK, Invocations
  <2>3. PhaseOf(cli'[c]) = "stopping" /\ OutcomeOf(cli'[c]) = "none"
    BY <2>2 DEF PhaseOf, OutcomeOf, Pending, Succeeded, Result
  <2>4. "stopping" \in Abstract!FirstPhases(kind)
    BY <1>9 DEF Abstract!FirstPhases
  <2> QED BY <1>7, <2>2, <2>3, <2>4 DEF RequestOf, Abstract!Request
<1>10. CASE op # "restart" /\ ~DisabledPolicyRefuses(op)
  <2>1. Become(c, [s EXCEPT !.pc = "sample", !.goal = FirstGoal(op)])
    BY <1>4, <1>10 DEF s
  <2>2. /\ cli'[c].pc = "sample" /\ cli'[c].op = op /\ cli'[c].result = Pending
        /\ cli'[c].goal = FirstGoal(op)
        /\ \A d \in CLI \ {c} : cli'[d] = cli[d]
    BY <1>1, <1>5, <2>1 DEF Become, TypeOK, Invocations
  <2>3. PhaseOf(cli'[c]) = LooksFor(FirstGoal(op)) /\ OutcomeOf(cli'[c]) = "none"
    BY <2>2 DEF PhaseOf, OutcomeOf, Pending, Succeeded, Result
  <2>4. LooksFor(FirstGoal(op)) \in Abstract!FirstPhases(kind)
    BY <1>6, <1>10 DEF LooksFor, FirstGoal, Abstract!FirstPhases
  <2> QED BY <1>7, <2>2, <2>3, <2>4 DEF RequestOf, Abstract!Request
<1> QED BY <1>8, <1>9, <1>10

\* Every step of an invocation is a step of its request, or none.
LEMMA StepRefines ==
  ASSUME IInv, NEW c \in CLI, Step(c)
  PROVE  RequestStep(c)
<1>0. /\ TypeOK /\ UnitOK /\ Phased(cli[c]) /\ cli[c] \in Invocations
      /\ cli[c].pc \in Steps /\ created \in Nat
  BY DEF IInv, Sound, TypeOK, UnitOK, UnitTypeOK, Invocations
<1>a. ASSUME UNCHANGED <<unitVars, conn>> PROVE created' = created /\ Holder' = Holder
  BY <1>a DEF unitVars, Holder
<1>b. /\ Dependency \notin {Pending, Succeeded}
      /\ \A code : Failed(code) \notin {Pending, Succeeded}
  BY DEF Dependency, Failed, Pending, Succeeded, Result
<1>c. ASSUME NEW result \in {Dependency, Failed("unknown"), Failed("auth")},
             Finish(c, result), cli[c].pc \notin {"idle", "done"},
             UNCHANGED <<unitVars, conn>>
      PROVE  RequestStep(c)
  BY <1>0, <1>a, <1>b, <1>c, FinishOtherwise
<1>1. CASE Begin(c)
  BY <1>1, BeginRefines
<1>2. CASE Sample(c)
  <2>1. cli[c].pc \in Looks /\ "get_unit" \in Looks /\ UNCHANGED <<unitVars, conn>>
    BY <1>2 DEF Sample, At, Looks
  <2>2. CASE Become(c, [cli[c] EXCEPT !.pc = "get_unit", !.clock = ReadClock(unit)])
    <3>1. /\ cli'[c] = [cli[c] EXCEPT !.pc = "get_unit", !.clock = ReadClock(unit)]
          /\ \A d \in CLI \ {c} : cli'[d] = cli[d]
      BY <1>0, <2>2 DEF Become, TypeOK
    <3>2. Moves(c, "get_unit", cli[c].goal, cli[c].base)
      BY <1>0, <3>1 DEF Moves, Invocations
    <3> QED BY <1>a, <2>1, <3>2, KeepsPhase
  <2>3. CASE Decide(c, InvalidAddressRow)
    BY <2>1, <2>3, DecideRefines
  <2> QED BY <1>2, <2>2, <2>3 DEF Sample
<1>3. CASE GetUnit(c)
  <2>1. /\ cli[c].pc \in Looks /\ UNCHANGED <<unitVars, conn>>
        /\ "probe" \in Looks /\ "get_service" \in Looks
    BY <1>3 DEF GetUnit, At, Looks
  <2>2. CASE Goto(c, "probe")
    BY <1>0, <1>a, <2>1, <2>2, GotoMoves, KeepsPhase
  <2>3. CASE Become(c, [cli[c] EXCEPT !.pc = "get_service", !.active = unit.active])
    <3>1. /\ cli'[c] = [cli[c] EXCEPT !.pc = "get_service", !.active = unit.active]
          /\ \A d \in CLI \ {c} : cli'[d] = cli[d]
      BY <1>0, <2>3 DEF Become, TypeOK
    <3>2. Moves(c, "get_service", cli[c].goal, cli[c].base)
      BY <1>0, <3>1 DEF Moves, Invocations
    <3> QED BY <1>a, <2>1, <3>2, KeepsPhase
  <2> QED BY <1>3, <2>2, <2>3 DEF GetUnit
<1>4. CASE GetService(c)
  <2>1. /\ cli[c].pc \in Looks /\ UNCHANGED <<unitVars, conn>> /\ "probe" \in Looks
        /\ cli[c].pc \notin {"idle", "done"}
    BY <1>4 DEF GetService, At, Looks
  <2>2. CASE Finish(c, Failed("unknown"))
    BY <1>c, <2>1, <2>2
  <2>3. ASSUME NEW u \in Units, Snapshot(c, u) PROVE RequestStep(c)
    <3>1. Moves(c, "probe", cli[c].goal, cli[c].base)
      BY <1>0, <2>3, SnapshotMoves
    <3> QED BY <1>a, <2>1, <3>1, KeepsPhase
  <2>4. NotFound \in Units /\ (unit # Absent => unit \in Units)
    BY <1>0, EndingsTyped DEF NotFound, Units, ActiveStates, TypeOK, UnitTypeOK
  <2> QED BY <1>4, <2>2, <2>3, <2>4 DEF GetService
<1>5. CASE Probe(c)
  <2>1. cli[c].pc \in Looks /\ "attribute" \in Looks /\ UNCHANGED <<unitVars, conn>>
    BY <1>5 DEF Probe, At, Looks
  <2>2. /\ cli'[c] = [cli[c] EXCEPT !.pc = "attribute", !.open = port # None]
        /\ \A d \in CLI \ {c} : cli'[d] = cli[d]
    BY <1>0, <1>5 DEF Probe, Become, TypeOK
  <2>3. Moves(c, "attribute", cli[c].goal, cli[c].base)
    BY <1>0, <2>2 DEF Moves, Invocations
  <2> QED BY <1>a, <2>1, <2>3, KeepsPhase
<1>6. CASE Attribute(c)
  <2>1. cli[c].pc \in Looks /\ UNCHANGED <<unitVars, conn>>
    BY <1>6 DEF Attribute, At, Looks
  <2> QED BY <1>6, <2>1, DecideRefines DEF Attribute
<1>7. CASE Prepare(c)
  <2>1. cli[c].pc = "prepare" /\ UNCHANGED <<unitVars, conn>>
    BY <1>7 DEF Prepare, At
  <2>2. CASE Goto(c, "reset_failed")
    BY <1>0, <1>a, <2>1, <2>2, GotoMoves, KeepsPhase DEF Starting
  <2> QED BY <1>7, <1>c, <2>1, <2>2 DEF Prepare
<1>8. CASE ResetBeforeStart(c)
  <2>1. /\ cli[c].pc = "reset_failed" /\ (ResetFailed \/ UNCHANGED unitVars)
        /\ Moves(c, "start_transient", cli[c].goal, cli[c].base)
    BY <1>0, <1>8, GotoMoves DEF ResetBeforeStart, BestEffortReset, At
  <2> QED BY <1>0, <2>1, CallsKeepName, KeepsPhase DEF Starting
<1>9. CASE StartTransient(c)
  <2>1. cli[c].pc = "start_transient"
    BY <1>9 DEF StartTransient, At
  <2>2. CASE CreateUnit /\ Observe(c, "wait_start", Polls)
    <3>1. Moves(c, "sample", "wait_start", cli[c].base)
      BY <1>0, <2>2, ObserveMoves
    <3>2. PhaseOf(cli[c]) = "starting" /\ PhaseOf(cli'[c]) = "waiting"
      BY <2>1, <3>1 DEF PhaseOf, LooksFor, Moves
    <3>3. Abstract!Proceed(c, "waiting") /\ Abstract!In(c, {"starting"})
      BY <3>1, <3>2, MovesProceed DEF Abstract!In, RequestOf
    <3>4. /\ unit = Absent /\ created' = created + 1
          /\ unit' = Queued(created + 1)
      BY <2>2 DEF CreateUnit
    <3>5. Queued(created + 1) \in Units /\ Queued(created + 1).id = created + 1
      BY <1>0, EndingsTyped DEF Queued, Units, ActiveStates
    <3>6. unit' # Absent /\ unit'.id = created + 1
      BY <3>4, <3>5, AbsentAssumption
    <3> QED BY <3>3, <3>4, <3>6 DEF Abstract!Create, RequestStep
  <2>3. CASE Finish(c, Failed("unknown")) /\ UNCHANGED unitVars
    BY <1>9, <1>c, <2>1, <2>3 DEF StartTransient
  <2> QED BY <1>9, <2>2, <2>3 DEF StartTransient
<1>10. CASE StopUnit(c)
  <2>1. cli[c].pc = "stop_unit" /\ (QueueStop \/ UNCHANGED unitVars)
    BY <1>10 DEF StopUnit, At
  <2>2. PICK step \in {"poll_stop", "reset_stopped"} :
          Become(c, [cli[c] EXCEPT !.pc = step, !.polls = Polls])
    BY <1>10 DEF StopUnit
  <2>3. /\ cli'[c] = [cli[c] EXCEPT !.pc = step, !.polls = Polls]
        /\ \A d \in CLI \ {c} : cli'[d] = cli[d]
    BY <1>0, <2>2 DEF Become, TypeOK
  <2>4. Moves(c, step, cli[c].goal, cli[c].base)
    BY <1>0, <2>3 DEF Moves, Invocations
  <2> QED BY <1>0, <2>1, <2>4, CallsKeepName, KeepsPhase DEF Stopping
<1>11. CASE ResetAfterStop(c)
  <2>1. /\ cli[c].pc = "reset_stopped" /\ (ResetFailed \/ UNCHANGED unitVars)
        /\ Moves(c, "poll_stop", cli[c].goal, cli[c].base)
    BY <1>0, <1>11, GotoMoves DEF ResetAfterStop, BestEffortReset, At
  <2> QED BY <1>0, <2>1, CallsKeepName, KeepsPhase DEF Stopping
<1>12. CASE PollStop(c)
  <2>1. cli[c].pc = "poll_stop" /\ UNCHANGED <<unitVars, conn>>
    BY <1>12 DEF PollStop, At
  <2>2. CASE Goto(c, "poll_props")
    BY <1>0, <1>a, <2>1, <2>2, GotoMoves, KeepsPhase DEF Stopping
  <2> QED BY <1>12, <2>1, <2>2, JudgeStopRefines DEF PollStop
<1>13. CASE PollProps(c)
  <2>1. cli[c].pc = "poll_props" /\ UNCHANGED <<unitVars, conn>>
    BY <1>13 DEF PollProps, At
  <2>2. NotFound # Absent
    <3>1. NotFound \in Units
      BY EndingsTyped DEF NotFound, Units, ActiveStates
    <3> QED BY <3>1, AbsentAssumption
  <2>3. CASE unit # Absent /\ JudgeStop(c, unit)
    BY <2>1, <2>3, JudgeStopRefines
  <2>4. CASE JudgeStop(c, NotFound)
    BY <2>1, <2>2, <2>4, JudgeStopRefines
  <2>5. CASE Finish(c, Failed("unknown"))
    BY <1>c, <2>1, <2>5
  <2> QED BY <1>13, <2>3, <2>4, <2>5 DEF PollProps
<1>14. CASE BusFails(c)
  <2>1. cli[c].pc \notin {"idle", "done"} /\ UNCHANGED <<unitVars, conn>>
    BY <1>14 DEF BusFails, Connects, Calls
  <2> QED BY <1>14, <1>c, <2>1 DEF BusFails
<1> QED
  BY <1>1, <1>2, <1>3, <1>4, <1>5, <1>6, <1>7, <1>8, <1>9, <1>10, <1>11, <1>12,
     <1>13, <1>14 DEF Step

-----------------------------------------------------------------------------
(* The refinement.                                                         *)

\* The initial states are the Connection's.
LEMMA InitRefines == Init => Abstract!Init
<1> SUFFICES ASSUME Init PROVE Abstract!Init
  OBVIOUS
<1>1. created \in {0, 1} /\ Holder \in {0, created}
  <2>1. CASE unit = Absent /\ created = 0
    BY <2>1 DEF Holder
  <2>2. CASE unit \in {Up(1, aged) : aged \in BOOLEAN} /\ created = 1
    BY <2>2 DEF Holder, Up
  <2>3. CASE unit \in {Crashed(1), Queued(1)} /\ created = 1
    BY <2>3 DEF Holder, Crashed, Queued
  <2> QED BY <2>1, <2>2, <2>3 DEF Init, UnitInit, FoundWorlds
<1>2. RequestOf(NewInvocation) = Abstract!Request("none", "idle", "none")
  <2>1. OutcomeOf(NewInvocation) = "none" /\ PhaseOf(NewInvocation) = "idle"
    BY DEF OutcomeOf, PhaseOf, NewInvocation, Pending, Succeeded, Result
  <2>2. NewInvocation.op = "none"
    BY DEF NewInvocation
  <2> QED BY <2>1, <2>2 DEF RequestOf, Abstract!Request
<1>3. \A c \in CLI : cli[c] = NewInvocation
  BY DEF Init
<1> QED BY <1>1, <1>2, <1>3 DEF Abstract!Init, Holder

\* Every step is one of the Connection's, or none.
LEMMA NextRefines == IInv /\ [Next]_vars => [Abstract!Next]_(Abstract!vars)
<1> SUFFICES ASSUME IInv, [Next]_vars PROVE [Abstract!Next]_(Abstract!vars)
  OBVIOUS
<1>1. CASE World
  <2>1. cli' = cli /\ WorldStep /\ UnitOK
    BY <1>1 DEF World, IInv, TypeOK, UnitOK
  <2>2. created' = created /\ (Holder' = Holder \/ Holder' = 0)
    BY <2>1, WorldReleases
  <2> QED BY <2>1, <2>2 DEF Abstract!Next, Abstract!Release, Abstract!vars, Holder
<1>2. ASSUME NEW c \in CLI, Step(c) PROVE [Abstract!Next]_(Abstract!vars)
  BY <1>2, StepRefines DEF RequestStep, Abstract!Next
<1>3. CASE UNCHANGED vars
  BY <1>3 DEF vars, Abstract!vars
<1> QED BY <1>1, <1>2, <1>3 DEF Next

\* Whatever its invocations read, a Connection is treated as Connection says
\* (src/commands/mutate.rs:238-271, 320-461, 726-753).
THEOREM Refinement == Spec => ImplementsConnection
BY InitRefines, NextRefines, Invariance, PTL DEF Spec, ImplementsConnection, Abstract!Spec

-----------------------------------------------------------------------------
(* What the Connection's steps say about the number of units.              *)

Past == Abstract!PastStarting

\* Units are only made by requests that are past their start.
Counted == /\ created \in Nat
           /\ created <= 1 + Cardinality(Past)

\* Finitely many invocations are past their start.
LEMMA PastFinite ==
  /\ IsFiniteSet(Past) /\ Cardinality(Past) \in Nat
  /\ IsFiniteSet(Past)' /\ Cardinality(Past)' \in Nat
<1>1. Past \subseteq CLI /\ Past' \subseteq CLI
  BY DEF Past, Abstract!PastStarting
<1> QED BY <1>1, CLIAssumption, FS_Subset, FS_CardinalityType

\* A request that is past its start stays so.
LEMMA PastGrows ==
  ASSUME [Abstract!Next]_(Abstract!vars)
  PROVE  Past \subseteq Past'
<1> SUFFICES ASSUME NEW r \in Past PROVE r \in Past'
  OBVIOUS
<1>1. r \in CLI /\ Abstract!Is(r, {"start", "restart"}) /\ Abstract!In(r, {"waiting", "answered"})
  BY DEF Past, Abstract!PastStarting
<1>2. CASE RequestFun' = RequestFun
  BY <1>1, <1>2
     DEF RequestFun, Past, Abstract!PastStarting, Abstract!Is, Abstract!In
<1>3. ASSUME NEW c \in CLI, c # r, NEW s, Abstract!Become(c, s) PROVE r \in Past'
  <2>1. RequestFun'[r] = RequestFun[r]
    BY <1>1, <1>3 DEF Abstract!Become, RequestFun
  <2> QED BY <1>1, <2>1
          DEF RequestFun, Past, Abstract!PastStarting, Abstract!Is, Abstract!In
<1>4. ASSUME NEW outcome, Abstract!Answer(r, outcome) PROVE r \in Past'
  <2>1. RequestFun'[r] = Abstract!Request(RequestFun[r].kind, "answered", outcome)
    BY <1>1, <1>4 DEF Abstract!Answer, Abstract!Become, RequestFun
  <2>2. RequestFun'[r].kind = RequestFun[r].kind /\ RequestFun'[r].phase = "answered"
    BY <2>1 DEF Abstract!Request
  <2> QED BY <1>1, <2>2
          DEF RequestFun, Past, Abstract!PastStarting, Abstract!Is, Abstract!In
<1>5. CASE UNCHANGED Abstract!vars \/ Abstract!Release
  BY <1>2, <1>5 DEF Abstract!vars, Abstract!Release, RequestFun
<1>6. ASSUME NEW c \in CLI,
             \/ Abstract!Ask(c)         \/ Abstract!TurnToStop(c) \/ Abstract!SeeFree(c)
             \/ Abstract!TurnToStart(c) \/ Abstract!Create(c)     \/ Abstract!Confirm(c)
             \/ Abstract!AnswerOtherwise(c)
      PROVE  r \in Past'
  <2>1. \/ Abstract!In(c, {"idle", "looking", "stopping", "deciding", "starting"})
        \/ \E outcome : Abstract!Answer(c, outcome)
    BY <1>6 DEF Abstract!Ask, Abstract!TurnToStop, Abstract!SeeFree, Abstract!TurnToStart,
                Abstract!Create, Abstract!Confirm, Abstract!AnswerOtherwise, Abstract!In
  <2>2. \E s : Abstract!Become(c, s)
    BY <1>6 DEF Abstract!Ask, Abstract!TurnToStop, Abstract!SeeFree, Abstract!TurnToStart,
                Abstract!Create, Abstract!Confirm, Abstract!AnswerOtherwise,
                Abstract!Proceed, Abstract!Answer
  <2>3. CASE c = r
    <3>1. ~Abstract!In(c, {"idle", "looking", "stopping", "deciding", "starting"})
      BY <1>1, <2>3 DEF Abstract!In
    <3> QED BY <1>4, <2>1, <2>3, <3>1
  <2> QED BY <1>3, <2>2, <2>3
<1> QED BY <1>5, <1>6 DEF Abstract!Next

\* Only a request that comes to be past its start makes a unit.
LEMMA CountedNext ==
  ASSUME IInv, Counted, [Abstract!Next]_(Abstract!vars)
  PROVE  Counted'
<1>1. Past \subseteq Past' /\ Cardinality(Past) <= Cardinality(Past')
  BY PastGrows, PastFinite, FS_Subset
<1>2. CASE created' = created
  BY <1>1, <1>2, PastFinite DEF Counted
<1>3. ASSUME NEW c \in CLI, Abstract!Create(c) PROVE Counted'
  <2>1. /\ Abstract!In(c, {"starting"}) /\ created' = created + 1
        /\ RequestFun' = [RequestFun EXCEPT ![c] = [RequestFun[c] EXCEPT !.phase = "waiting"]]
    BY <1>3 DEF Abstract!Create, Abstract!Proceed, Abstract!Become, RequestFun
  <2>2. RequestFun[c] = RequestOf(cli[c]) /\ RequestOf(cli[c]).phase = "starting"
    BY <2>1 DEF RequestFun, Abstract!In
  <2>3. RequestOf(cli[c]).kind \in {"start", "restart"}
    <3>1. Phased(cli[c]) /\ cli[c].op \in Ops \cup {"none"} /\ cli[c].pc \in Steps
      BY DEF IInv, Sound, TypeOK, Invocations
    <3>2. cli[c].pc \in Starting
      BY <2>2, <3>1 DEF RequestOf, PhaseOf, LooksFor, Starting, Steps
    <3>3. cli[c].op \in StartLike
      BY <3>1, <3>2, OpsAssumption DEF Phased, Starting, Stopping, Looks, StartLike
    <3> QED BY <3>3 DEF RequestOf, StartLike
  <2>4. RequestFun'[c].phase = "waiting" /\ RequestFun'[c].kind = RequestOf(cli[c]).kind
    <3>1. RequestFun'[c] = [RequestOf(cli[c]) EXCEPT !.phase = "waiting"]
      BY <2>1, <2>2 DEF RequestFun
    <3> QED BY <3>1 DEF RequestOf
  <2>5. c \notin Past
    BY <2>2 DEF Past, Abstract!PastStarting, Abstract!In
  <2>6. c \in Past'
    BY <2>3, <2>4 DEF Past, Abstract!PastStarting, Abstract!In, Abstract!Is, RequestFun
  <2>7. Past \cup {c} \subseteq Past'
    BY <1>1, <2>6
  <2>8. Cardinality(Past \cup {c}) = Cardinality(Past) + 1
    BY <2>5, PastFinite, FS_AddElement
  <2>9. Cardinality(Past \cup {c}) <= Cardinality(Past')
    BY <2>7, PastFinite, FS_Subset
  <2> QED BY <2>1, <2>8, <2>9, PastFinite DEF Counted
<1> QED BY <1>2, <1>3
        DEF Abstract!Next, Abstract!vars, Abstract!Release, Abstract!Ask, Abstract!TurnToStop,
            Abstract!SeeFree, Abstract!TurnToStart, Abstract!Confirm,
            Abstract!AnswerOtherwise

\* An invocation creates at most one unit: it polls until its deadline and
\* never retries the start (try_start and wait_for,
\* src/commands/mutate.rs:238-271, 726-753).
THEOREM OneStart == Spec => []OneStartPerInvocation
<1>1. Init => Counted
  <2>1. Init => created \in {0, 1}
    BY DEF Init, UnitInit, FoundWorlds
  <2> QED BY <2>1, PastFinite DEF Counted
<1>2. IInv /\ Counted /\ [Next]_vars => Counted'
  BY NextRefines, CountedNext
<1>3. IInv /\ Counted => OneStartPerInvocation
  <2> SUFFICES ASSUME IInv, Counted PROVE OneStartPerInvocation
    OBVIOUS
  <2> DEFINE Starters == {c \in CLI : cli[c].op \in StartLike}
  <2>1. Past \subseteq Starters
    <3> SUFFICES ASSUME NEW c \in Past PROVE cli[c].op \in StartLike
      BY DEF Past, Abstract!PastStarting
    <3>1. c \in CLI /\ RequestOf(cli[c]).kind \in {"start", "restart"}
      BY DEF Past, Abstract!PastStarting, Abstract!Is
    <3> QED BY <3>1 DEF RequestOf, StartLike
  <2>2. IsFiniteSet(Starters)
    BY CLIAssumption, FS_Subset
  <2>3. Cardinality(Past) <= Cardinality(Starters) /\ Cardinality(Starters) \in Nat
    BY <2>1, <2>2, FS_Subset, FS_CardinalityType
  <2> QED BY <2>3, PastFinite DEF Counted, OneStartPerInvocation
<1> QED BY <1>1, <1>2, <1>3, Invariance, PTL DEF Spec

=============================================================================
