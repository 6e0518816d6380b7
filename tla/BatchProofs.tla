---------------------------- MODULE BatchProofs ----------------------------
(***************************************************************************)
(* Theorems about Batch, for every set of configurations, any selector, any *)
(* health the Connections may have and whatever becomes of them between    *)
(* two targets.                                                            *)
(***************************************************************************)
EXTENDS Batch, FoldProofs

-----------------------------------------------------------------------------
(* Config order.                                                           *)

\* The positions of a finite set are all there, once each, and in order.
LEMMA InOrderSorts ==
  ASSUME NEW S \in SUBSET Nat, IsFiniteSet(S)
  PROVE  /\ Cardinality(S) \in Nat
         /\ InOrder(S) \in [1..Cardinality(S) -> S]
         /\ \A i \in S : \E k \in 1..Cardinality(S) : InOrder(S)[k] = i
         /\ \A j, k \in 1..Cardinality(S) : j < k => InOrder(S)[j] < InOrder(S)[k]
<1> DEFINE n == Cardinality(S)
           UpTo(i) == {j \in S : j <= i}
           f == [i \in S |-> Rank(S, i)]
<1>1. n \in Nat
  BY FS_CardinalityType
<1>2. \A i \in S : /\ IsFiniteSet(UpTo(i)) /\ Rank(S, i) = Cardinality(UpTo(i))
                   /\ Rank(S, i) \in Nat /\ Rank(S, i) \in 1..n
  <2>1. SUFFICES ASSUME NEW i \in S
                 PROVE  /\ IsFiniteSet(UpTo(i)) /\ Rank(S, i) = Cardinality(UpTo(i))
                        /\ Rank(S, i) \in Nat /\ Rank(S, i) \in 1..n
    OBVIOUS
  <2>2. IsFiniteSet(UpTo(i)) /\ Cardinality(UpTo(i)) <= n
    BY FS_Subset
  <2>3. Cardinality(UpTo(i)) \in Nat /\ Cardinality(UpTo(i)) # 0
    <3>1. i \in UpTo(i)
      OBVIOUS
    <3> QED BY <2>2, <3>1, FS_CardinalityType, FS_EmptySet
  <2> QED BY <1>1, <2>2, <2>3 DEF Rank
<1>3. \A i, j \in S : i < j => Rank(S, i) < Rank(S, j)
  <2>1. SUFFICES ASSUME NEW i \in S, NEW j \in S, i < j PROVE Rank(S, i) < Rank(S, j)
    OBVIOUS
  <2>0. i \in Nat /\ j \in Nat /\ \A x \in S : x \in Nat
    OBVIOUS
  <2>2. UpTo(i) \in SUBSET UpTo(j) /\ j \in UpTo(j) /\ j \notin UpTo(i)
    <3>1. \A x \in S : x <= i => x <= j
      BY <2>0, <2>1
    <3>2. j <= j /\ ~(j <= i)
      BY <2>0, <2>1
    <3> QED BY <3>1, <3>2, Zenon
  <2>3. /\ Cardinality(UpTo(i)) <= Cardinality(UpTo(j))
        /\ Cardinality(UpTo(i)) # Cardinality(UpTo(j))
    BY <1>2, <2>2, FS_Subset
  <2> QED BY <1>2, <2>3
<1>4. \A i, j \in S : Rank(S, i) = Rank(S, j) => i = j
  <2>1. SUFFICES ASSUME NEW i \in S, NEW j \in S, Rank(S, i) = Rank(S, j) PROVE i = j
    OBVIOUS
  <2>2. \A r \in Nat : ~(r < r)
    OBVIOUS
  <2>3. ~(i < j) /\ ~(j < i)
    BY <1>2, <1>3, <2>1, <2>2, Zenon
  <2> QED BY <2>3
<1>5. \A k \in 1..n : \E i \in S : Rank(S, i) = k
  <2>1. f \in Injection(S, 1..n)
    BY <1>2, <1>4 DEF Injection, IsInjective
  <2>2. IsFiniteSet(1..n) /\ Cardinality(1..n) = n
    BY <1>1, FS_Interval
  <2>3. f \in Surjection(S, 1..n)
    BY <2>1, <2>2, FS_Injection
  <2> QED BY <2>3 DEF Surjection
<1>6. \A k \in 1..n : InOrder(S)[k] \in S /\ Rank(S, InOrder(S)[k]) = k
  BY <1>5 DEF InOrder
<1>7. InOrder(S) \in [1..n -> S]
  BY <1>6 DEF InOrder
<1>8. \A i \in S : \E k \in 1..n : InOrder(S)[k] = i
  BY <1>2, <1>4, <1>6
<1>9. ASSUME NEW j \in 1..n, NEW k \in 1..n, j < k PROVE InOrder(S)[j] < InOrder(S)[k]
  <2>1. InOrder(S)[j] \in Nat /\ InOrder(S)[k] \in Nat
    BY <1>6
  <2>2. ~(k < j) /\ k # j
    BY <1>9
  <2>3. ~(InOrder(S)[k] < InOrder(S)[j]) /\ InOrder(S)[k] # InOrder(S)[j]
    BY <1>3, <1>6, <2>2, Zenon
  <2> QED BY <2>1, <2>3
<1> QED BY <1>1, <1>7, <1>8, <1>9

\* A function on the first numbers is a sequence.
LEMMA FunctionIsSeq ==
  ASSUME NEW S, NEW n \in Nat, NEW f \in [1..n -> S]
  PROVE  f \in Seq(S) /\ Len(f) = n /\ DOMAIN f = 1..n
OBVIOUS

-----------------------------------------------------------------------------
(* Arguments to targets.                                                   *)

\* A selector that is accepted names the Connections its argument selects.
LEMMA SelectorMeans ==
  ASSUME ResolveSelector # UsageError
  PROVE  /\ ResolveSelector \in {"id", "group", "all"}
         /\ ResolveSelector = "id" <=> args.id # None
         /\ ResolveSelector = "group" <=> args.group # None
<1> DEFINE Given(a) == CASE a = "id"    -> args.id # None
                         [] a = "group" -> args.group # None
                         [] a = "all"   -> args.all
           provided == {a \in {"id", "group", "all"} : Given(a)}
<1>1. /\ ("id" \in provided <=> args.id # None)
      /\ ("group" \in provided <=> args.group # None)
      /\ provided \subseteq {"id", "group", "all"}
  OBVIOUS
<1>2. IsFiniteSet(provided) /\ Cardinality(provided) \in Nat
  <2>1. IsFiniteSet({} \cup {"id"} \cup {"group"} \cup {"all"})
    BY FS_EmptySet, FS_AddElement
  <2>2. provided \in SUBSET ({} \cup {"id"} \cup {"group"} \cup {"all"})
    BY <1>1
  <2> QED BY <2>1, <2>2, FS_Subset, FS_CardinalityType
<1>3. ResolveSelector =
        CASE Cardinality(provided) > 1 -> UsageError
          [] Cardinality(provided) = 1 -> CHOOSE a \in provided : TRUE
          [] OTHER -> IF args.op = "status" THEN "all" ELSE UsageError
  BY Zenon DEF ResolveSelector
<1> HIDE DEF provided
<1>4. ~(Cardinality(provided) > 1)
  BY <1>2, <1>3
<1>5. CASE Cardinality(provided) = 1
  <2>1. PICK a : provided = {a}
    BY <1>2, <1>5, FS_Singleton
  <2>2. ResolveSelector = a
    BY <1>2, <1>3, <1>5, <2>1
  <2> QED BY <1>1, <2>1, <2>2
<1>6. CASE Cardinality(provided) = 0
  <2>1. provided = {}
    BY <1>2, <1>6, FS_EmptySet
  <2>2. ResolveSelector = "all"
    BY <1>3, <1>4, <1>6
  <2> QED BY <1>1, <2>1, <2>2
<1> QED BY <1>2, <1>4, <1>5, <1>6

\* A selector names what its argument selects.
LEMMA NamedAreSelected ==
  ASSUME ResolveSelector # UsageError
  PROVE  Named(ResolveSelector) = {i \in 1..Len(config) : Selected(i)}
BY SelectorMeans DEF Named, Selected

-----------------------------------------------------------------------------
(* The inductive invariant.                                                *)

\* What was asked of which configuration.
Asked ==
  /\ config \in Configs \cup {BadConfig}
  /\ args \in [op : Ops, id : Ids \cup {None}, group : Groups \cup {None},
               all : BOOLEAN, json : BOOLEAN]

\* Where the invocation is, and what it is about.
Placed ==
  /\ pc = "args" => targets = <<>> /\ turn = 1
  /\ pc = "gather" => args.op = "restart_failed"
  /\ pc = "act" => args.op # "status"
  /\ pc = "rows" => args.op = "status"
  /\ TargetsAreTheSelected
  /\ \A j, k \in 1..Len(targets) : j < k => targets[j] < targets[k]
  /\ SingleTarget => \A k \in 1..Len(targets) : targets[k] = args.id

Disabled == {"skipped_disabled", "refused_disabled"}

\* What an answer says of its target.
Meant(k) ==
  /\ slots[k] # Unanswered => slots[k].id = targets[k]
  /\ slots[k].result \in Disabled => args.op # "stop" /\ ~Enabled(k)
  /\ slots[k].result = "refused_disabled" => SingleTarget
  /\ slots[k].result \in {"succeeded", "failed", "dependency"} /\ args.op # "stop"
       => Enabled(k)
  /\ args.op = "restart_failed" =>
       /\ slots[k].result = "succeeded" => seen[k] = "error"
       /\ seen[k] # None => Enabled(k)

\* A target that is done with: answered, or healthy when restart --failed looked.
Done(k) ==
  \/ slots[k] # Unanswered
  \/ args.op = "restart_failed" /\ seen[k] \in HealthStates \ {"error"}

\* How far the passes have come.
Passed(k) ==
  /\ pc = "gather" =>
       /\ k >= turn => slots[k] = Unanswered /\ seen[k] = None
       /\ k < turn => slots[k] # Unanswered \/ seen[k] \in HealthStates
       /\ slots[k] # Unanswered => seen[k] = None
       /\ slots[k].result # "succeeded"
  /\ pc = "act" =>
       /\ k >= turn => slots[k].result # "succeeded"
       /\ k >= turn /\ args.op # "restart_failed" => slots[k] = Unanswered
       /\ k >= turn /\ slots[k] # Unanswered => seen[k] = None
       /\ k < turn => Done(k)
       /\ args.op = "restart_failed" => slots[k] # Unanswered \/ seen[k] \in HealthStates
  /\ pc = "exited" /\ args.op # "status" => Done(k)
  /\ args.op = "status" => slots[k] = Unanswered

Exited ==
  pc = "exited" /\ args.op # "status" => (exit = 2 /\ slots = <<>>) \/ exit = ExitForBatch

IInv ==
  /\ TypeOK
  /\ Asked
  /\ Placed
  /\ \A k \in 1..Len(targets) : Meant(k) /\ Passed(k)
  /\ Exited

\* The invariant holds at first.
LEMMA IInvInit == Init => IInv
<1> SUFFICES ASSUME Init PROVE IInv
  OBVIOUS
<1>1. Len(<<>>) = 0 /\ <<>> \in Seq(Ids) /\ 1..0 = {}
  OBVIOUS
<1>2. seen = <<>> /\ slots = <<>> /\ targets = <<>> /\ turn = 1 /\ pc = "args" /\ exit = None
  BY DEF Init
<1>3. <<>> \in [1..0 -> HealthStates \cup {None}]
      /\ <<>> \in [1..0 -> [id : Ids, result : Results] \cup {Unanswered}]
  BY <1>1
<1>4. TypeOK
  BY <1>1, <1>2, <1>3 DEF Init, TypeOK, HealthStates
<1>5. Asked
  BY DEF Init, Asked
<1>6. Placed
  BY <1>1, <1>2 DEF Placed, TargetsAreTheSelected
<1> QED BY <1>1, <1>2, <1>4, <1>5, <1>6 DEF IInv, Exited

-----------------------------------------------------------------------------
(* One step at a time.                                                     *)

\* The world touches nobody but the Connections.
LEMMA WorldKeeps == ASSUME IInv, World PROVE IInv'
<1>1. health' \in [Ids -> HealthStates]
  BY DEF IInv, TypeOK, World
<1>2. UNCHANGED <<config, args, pc, targets, turn, seen, slots, document, exit>>
  BY DEF World
<1>3. TypeOK'
  BY <1>1, <1>2 DEF IInv, TypeOK
<1>4. Asked' /\ Placed'
  BY <1>2 DEF IInv, Asked, Placed, TargetsAreTheSelected, Selected, SingleTarget
<1>5. \A k \in 1..Len(targets) : Meant(k)' /\ Passed(k)'
  BY <1>2 DEF IInv, Meant, Passed, Done, Enabled, SingleTarget
<1>6. Exited'
  BY <1>2 DEF IInv, Exited, ExitForBatch, Answered
<1> QED BY <1>2, <1>3, <1>4, <1>5, <1>6 DEF IInv

\* A usage error is one before anything is looked at.
LEMMA RejectArgsKeeps == ASSUME IInv, RejectArgs PROVE IInv'
<1>1. /\ UNCHANGED <<config, args, health, targets, turn, seen, slots, document>>
      /\ pc = "args" /\ pc' = "exited" /\ exit' = 2 /\ targets = <<>>
  BY DEF IInv, Placed, RejectArgs, ExitWith
<1>2. slots = <<>>
  BY <1>1 DEF IInv, TypeOK
<1>3. TypeOK' /\ Asked' /\ Placed'
  BY <1>1 DEF IInv, TypeOK, Asked, Placed, TargetsAreTheSelected, SingleTarget
<1> QED BY <1>1, <1>2, <1>3 DEF IInv, Exited

\* The targets are the Connections the selector names, in their order.
LEMMA AcceptArgsKeeps == ASSUME IInv, AcceptArgs PROVE IInv'
<1> DEFINE S == Named(ResolveSelector)
<1>1. /\ UNCHANGED <<config, args, health, turn, document, exit>>
      /\ pc = "args" /\ pc' = FirstPass /\ turn = 1
      /\ ResolveSelector # UsageError
      /\ config \in Configs /\ targets' = InOrder(S)
      /\ S = {} => ResolveSelector = "all"
      /\ seen' = [k \in 1..Len(targets') |-> None]
      /\ slots' = [k \in 1..Len(targets') |-> Unanswered]
  BY DEF IInv, Asked, Placed, AcceptArgs, Expand
<1>2. S = {i \in 1..Len(config) : Selected(i)}
  BY <1>1, NamedAreSelected
<1>3. Len(config) \in Nat /\ 1..Len(config) \subseteq Ids
  BY <1>1, ConfigsAssumption
<1>4. S \in SUBSET Nat /\ S \subseteq Ids /\ IsFiniteSet(S)
  <2>1. IsFiniteSet(1..Len(config)) /\ S \in SUBSET (1..Len(config))
    BY <1>2, <1>3, FS_Interval
  <2> QED BY <1>3, <2>1, FS_Subset
<1> HIDE DEF S
<1>5. /\ targets' \in [1..Cardinality(S) -> S] /\ Cardinality(S) \in Nat
      /\ \A i \in S : \E k \in 1..Cardinality(S) : targets'[k] = i
      /\ \A j, k \in 1..Cardinality(S) : j < k => targets'[j] < targets'[k]
  BY <1>1, <1>4, InOrderSorts
<1>6. targets' \in Seq(Ids) /\ Len(targets') = Cardinality(S) /\ DOMAIN targets' = 1..Len(targets')
  BY <1>4, <1>5, FunctionIsSeq
<1>7. Range(targets') = S
  BY <1>5, <1>6 DEF Range
<1>8. TypeOK'
  <2>1. pc' \in {"gather", "act", "rows"}
    BY <1>1 DEF FirstPass
  <2>2. turn' \in 1..(Len(targets') + 1)
    BY <1>1, <1>5, <1>6
  <2>3. seen' \in [1..Len(targets') -> HealthStates \cup {None}]
        /\ slots' \in [1..Len(targets') -> [id : Ids, result : Results] \cup {Unanswered}]
    BY <1>1
  <2> QED BY <1>1, <1>6, <2>1, <2>2, <2>3 DEF IInv, TypeOK
<1>9. Asked'
  BY <1>1 DEF IInv, Asked
<1>10. Placed'
  <2>1. TargetsAreTheSelected'
    <3>1. S = {i \in 1..Len(config') : Selected(i)'}
      BY <1>1, <1>2 DEF Selected
    <3>2. \A j, k \in 1..Len(targets') : j < k => targets'[j] < targets'[k]
      BY <1>5, <1>6
    <3>3. targets' = <<>> => config' = <<>>
      <4>1. SUFFICES ASSUME targets' = <<>> PROVE config' = <<>>
        OBVIOUS
      <4>2. S = {}
        BY <1>5, <1>6, <4>1
      <4>3. ResolveSelector = "all"
        BY <1>1, <4>2 DEF S
      <4>4. \A i : Selected(i)
        BY <1>1, <4>3, SelectorMeans DEF Selected
      <4>5. Len(config) = 0
        BY <1>2, <1>3, <4>2, <4>4
      <4> QED BY <1>1, <4>5, ConfigsAssumption
    <3> QED BY <1>7, <3>1, <3>2, <3>3 DEF TargetsAreTheSelected
  <2>2. SingleTarget' => \A k \in 1..Len(targets') : targets'[k] = args'.id
    <3>1. SUFFICES ASSUME args.id # None, NEW k \in 1..Cardinality(S)
                   PROVE  targets'[k] = args.id
      BY <1>1, <1>6 DEF SingleTarget
    <3>2. targets'[k] \in {i \in 1..Len(config) : Selected(i)}
      BY <1>2, <1>5, <3>1
    <3> QED BY <3>1, <3>2 DEF Selected
  <2>3. /\ pc' # "args"
        /\ pc' = "gather" => args'.op = "restart_failed"
        /\ pc' = "act" => args'.op # "status"
        /\ pc' = "rows" => args'.op = "status"
    BY <1>1 DEF FirstPass
  <2> QED BY <1>5, <1>6, <2>1, <2>2, <2>3 DEF Placed
<1>11. ASSUME NEW k \in 1..Len(targets') PROVE Meant(k)' /\ Passed(k)'
  <2>1. slots'[k] = Unanswered /\ seen'[k] = None
    BY <1>1, <1>11
  <2>2. Meant(k)'
    BY <2>1 DEF Meant, Disabled, Unanswered
  <2>3. Passed(k)'
    <3>1. k >= turn' /\ ~(k < turn')
      BY <1>1, <1>5, <1>6, <1>11
    <3>2. pc' = "gather" => Unanswered.result # "succeeded"
      BY DEF Unanswered
    <3> QED BY <1>1, <2>1, <3>1 DEF Passed, FirstPass, Unanswered
  <2> QED BY <2>2, <2>3
<1>12. Exited'
  BY <1>1 DEF Exited, FirstPass
<1> QED BY <1>8, <1>9, <1>10, <1>11, <1>12 DEF IInv

\* An answer fills its target's slot, and no other.
LEMMA AnswerFills ==
  ASSUME TypeOK, NEW k \in 1..Len(targets), NEW result \in Results, Answer(k, result)
  PROVE  /\ slots' \in [1..Len(targets) -> [id : Ids, result : Results] \cup {Unanswered}]
         /\ slots'[k] = [id |-> targets[k], result |-> result]
         /\ slots'[k] # Unanswered
         /\ \A j \in 1..Len(targets) : j # k => slots'[j] = slots[j]
<1>1. targets[k] \in Ids
  BY DEF TypeOK
<1>2. slots' = [slots EXCEPT ![k] = [id |-> targets[k], result |-> result]]
  BY DEF Answer, Slot
<1>3. [id |-> targets[k], result |-> result] # Unanswered
  BY DEF Unanswered, Results
<1> QED BY <1>1, <1>2, <1>3 DEF TypeOK

\* What only the turn, the answers and the readings decide.
LEMMA FrameKeeps ==
  ASSUME IInv, UNCHANGED <<config, args, targets>>, pc' \in {"gather", "act", "rows", "exited"},
         pc' # "exited" => pc' = pc \/ (pc = "gather" /\ pc' = "act"),
         pc # "args", pc # "exited"
  PROVE  Asked' /\ Placed'
BY DEF IInv, Asked, Placed, TargetsAreTheSelected, Selected, SingleTarget

\* What the policy says of a Connection.
LEMMA PolicyMeans ==
  ASSUME NEW k
  PROVE  /\ DisabledPolicy(targets[k]) = "proceed" => Enabled(k)
         /\ DisabledPolicy(targets[k]) # "proceed" =>
              /\ DisabledPolicy(targets[k]) \in Disabled
              /\ ~Enabled(k)
         /\ DisabledPolicy(targets[k]) = "refused_disabled" => SingleTarget
BY DEF DisabledPolicy, Enabled, Disabled

\* The turn passes to the next target.
LEMMA TurnPasses ==
  ASSUME TypeOK, turn <= Len(targets), turn' = turn + 1, targets' = targets
  PROVE  /\ turn \in 1..Len(targets) /\ turn' \in 1..(Len(targets') + 1)
         /\ \A k \in 1..Len(targets) :
              /\ k >= turn' => k >= turn /\ k # turn
              /\ k < turn' => k < turn \/ k = turn
<1>1. turn \in Nat /\ turn >= 1 /\ Len(targets) \in Nat
  BY DEF TypeOK
<1> QED BY <1>1

\* A step of the acting pass that answers one target.
LEMMA ActAnswers ==
  ASSUME IInv, pc = "act", turn <= Len(targets), ~LeftOut(turn),
         NEW result \in Results, Answer(turn, result),
         result \in Disabled => args.op # "stop" /\ ~Enabled(turn),
         result = "refused_disabled" => SingleTarget,
         result \notin Disabled /\ args.op # "stop" => Enabled(turn),
         health' \in [Ids -> HealthStates], turn' = turn + 1,
         UNCHANGED <<config, args, pc, targets, seen, document, exit>>
  PROVE  IInv'
<1>1. /\ turn \in 1..Len(targets) /\ turn' \in 1..(Len(targets') + 1)
      /\ \A k \in 1..Len(targets) : /\ k >= turn' => k >= turn /\ k # turn
                                    /\ k < turn' => k < turn \/ k = turn
  BY TurnPasses DEF IInv
<1>2. /\ slots' \in [1..Len(targets) -> [id : Ids, result : Results] \cup {Unanswered}]
      /\ slots'[turn] = [id |-> targets[turn], result |-> result]
      /\ slots'[turn] # Unanswered
      /\ \A j \in 1..Len(targets) : j # turn => slots'[j] = slots[j]
  BY <1>1, AnswerFills DEF IInv
<1>3. TypeOK'
  BY <1>1, <1>2 DEF IInv, TypeOK
<1>4. Asked' /\ Placed'
  BY FrameKeeps
<1>5. \A k \in 1..Len(targets) : Enabled(k)' <=> Enabled(k)
  BY DEF Enabled
<1>6. \A k \in 1..Len(targets) : k # turn => Meant(k)' /\ Passed(k)'
  BY <1>1, <1>2 DEF IInv, Meant, Passed, Done, Enabled, SingleTarget
<1>7. ASSUME NEW k, k = turn PROVE Meant(k)'
  <2>1. args.op = "restart_failed" => seen[turn] = "error"
    BY DEF LeftOut
  <2>2. Meant(k) /\ result \in {"succeeded", "failed", "dependency"} \cup Disabled
    BY <1>1, <1>7 DEF IInv, Results, Disabled
  <2>3. slots'[k] = [id |-> targets[k], result |-> result] /\ seen' = seen /\ args' = args
        /\ targets' = targets /\ (Enabled(k)' <=> Enabled(k))
    BY <1>2, <1>7 DEF Enabled
  <2> QED BY <1>7, <2>1, <2>2, <2>3 DEF Meant, SingleTarget, Disabled
<1>8. ASSUME NEW k, k = turn PROVE Passed(k)'
  <2>1. slots'[k] # Unanswered /\ ~(k >= turn') /\ args.op # "status"
    BY <1>1, <1>2, <1>8 DEF IInv, Placed
  <2> QED BY <2>1 DEF Passed, Done
<1> QED BY <1>3, <1>4, <1>6, <1>7, <1>8 DEF IInv, Exited

\* A target answered or passed over in the main pass keeps the invariant.
LEMMA ActKeeps == ASSUME IInv, Act PROVE IInv'
<1>1. /\ pc = "act" /\ turn <= Len(targets) /\ ~LeftOut(turn) /\ turn' = turn + 1
      /\ UNCHANGED <<config, args, pc, targets, seen, document, exit>>
  BY DEF Act
<1>2. CASE Policy(targets[turn]) # "proceed" /\ Answer(turn, Policy(targets[turn]))
             /\ UNCHANGED health
  <2> DEFINE result == Policy(targets[turn])
  <2>1. /\ args.op # "stop" /\ result \in Disabled /\ ~Enabled(turn)
        /\ result = "refused_disabled" => SingleTarget
    BY <1>2, PolicyMeans DEF Policy
  <2>2. health' \in [Ids -> HealthStates] /\ result \in Results
    BY <1>2, <2>1 DEF IInv, TypeOK, Disabled, Results
  <2> HIDE DEF result
  <2>3. Answer(turn, result)
    BY <1>2 DEF result
  <2> QED BY <1>1, <2>1, <2>2, <2>3, ActAnswers
<1>3. CASE Policy(targets[turn]) = "proceed"
             /\ \E end \in Ends : /\ Answer(turn, end.result)
                                  /\ health' = [health EXCEPT ![targets[turn]] = end.health]
  <2>1. PICK end \in Ends : /\ Answer(turn, end.result)
                           /\ health' = [health EXCEPT ![targets[turn]] = end.health]
    BY <1>3
  <2>2. /\ end.result \in {"succeeded", "failed", "dependency"}
        /\ end.health \in HealthStates
    BY DEF Ends, StartEnds, StopEnds, RestartEnds, Unsuccessful, End, HealthStates
  <2>3. args.op # "stop" => Enabled(turn)
    BY <1>3, PolicyMeans DEF Policy
  <2>4. health' \in [Ids -> HealthStates]
    BY <2>1, <2>2 DEF IInv, TypeOK
  <2>5. end.result \in Results /\ end.result \notin Disabled
    BY <2>2 DEF Results, Disabled
  <2> QED BY <1>1, <2>1, <2>3, <2>4, <2>5, ActAnswers DEF Disabled
<1> QED BY <1>2, <1>3 DEF Act

\* restart --failed passes over what it has answered or seen healthy.
LEMMA LeaveOutKeeps == ASSUME IInv, LeaveOut PROVE IInv'
<1>1. /\ pc = "act" /\ turn <= Len(targets) /\ LeftOut(turn) /\ turn' = turn + 1
      /\ UNCHANGED <<config, args, health, pc, targets, seen, slots, document, exit>>
  BY DEF LeaveOut
<1>2. /\ turn \in 1..Len(targets) /\ turn' \in 1..(Len(targets') + 1)
      /\ \A k \in 1..Len(targets) : /\ k >= turn' => k >= turn /\ k # turn
                                    /\ k < turn' => k < turn \/ k = turn
  BY <1>1, TurnPasses DEF IInv
<1>3. TypeOK'
  BY <1>1, <1>2 DEF IInv, TypeOK
<1>4. Asked' /\ Placed'
  BY <1>1, FrameKeeps
<1>5. Done(turn)
  BY <1>1, <1>2 DEF IInv, Passed, LeftOut, Done
<1>6. \A k \in 1..Len(targets) : Meant(k)' /\ Passed(k)'
  BY <1>1, <1>2, <1>5 DEF IInv, Meant, Passed, Done, Enabled, SingleTarget
<1> QED BY <1>1, <1>3, <1>4, <1>6 DEF IInv, Exited

\* The gathering pass answers a target or reads it.
LEMMA GatherKeeps == ASSUME IInv, Gather PROVE IInv'
<1>1. /\ pc = "gather" /\ turn <= Len(targets) /\ turn' = turn + 1
      /\ UNCHANGED <<config, args, health, pc, targets, document, exit>>
      /\ args.op = "restart_failed"
  BY DEF Gather, IInv, Placed
<1>2. /\ turn \in 1..Len(targets) /\ turn' \in 1..(Len(targets') + 1)
      /\ \A k \in 1..Len(targets) : /\ k >= turn' => k >= turn /\ k # turn
                                    /\ k < turn' => k < turn \/ k = turn
  BY <1>1, TurnPasses DEF IInv
<1>3. Asked' /\ Placed'
  BY <1>1, FrameKeeps
<1>4. slots[turn] = Unanswered /\ seen[turn] = None
  <2>1. turn >= turn
    BY <1>2
  <2> QED BY <1>1, <1>2, <2>1 DEF IInv, Passed
<1>5. ASSUME NEW result \in Results \ {"succeeded"}, Answer(turn, result), seen' = seen,
             result \in Disabled => ~Enabled(turn),
             result = "refused_disabled" => SingleTarget,
             result \notin Disabled => Enabled(turn)
      PROVE  IInv'
  <2>1. /\ slots' \in [1..Len(targets) -> [id : Ids, result : Results] \cup {Unanswered}]
        /\ slots'[turn] = [id |-> targets[turn], result |-> result]
        /\ slots'[turn] # Unanswered
        /\ \A j \in 1..Len(targets) : j # turn => slots'[j] = slots[j]
    BY <1>2, <1>5, AnswerFills DEF IInv
  <2>2. TypeOK'
    BY <1>1, <1>2, <1>5, <2>1 DEF IInv, TypeOK
  <2>3. \A k \in 1..Len(targets) : k # turn => Meant(k)' /\ Passed(k)'
    BY <1>1, <1>2, <1>5, <2>1 DEF IInv, Meant, Passed, Enabled, SingleTarget
  <2>4. ASSUME NEW k, k = turn PROVE Meant(k)' /\ Passed(k)'
    <3>1. /\ slots'[k] = [id |-> targets[k], result |-> result] /\ slots'[k] # Unanswered
          /\ seen'[k] = None /\ ~(k >= turn')
      BY <1>2, <1>4, <1>5, <2>1, <2>4
    <3>2. Meant(k)'
      BY <1>1, <1>5, <2>4, <3>1 DEF Meant, SingleTarget, Enabled, Disabled
    <3>3. Passed(k)'
      BY <1>1, <1>5, <3>1 DEF Passed
    <3> QED BY <3>2, <3>3
  <2> QED BY <1>1, <1>3, <2>2, <2>3, <2>4 DEF IInv, Exited
<1>6. CASE GatherPolicy(targets[turn]) # "proceed"
             /\ Answer(turn, GatherPolicy(targets[turn])) /\ UNCHANGED seen
  <2> DEFINE result == GatherPolicy(targets[turn])
  <2>1. /\ result \in Disabled /\ ~Enabled(turn)
        /\ result = "refused_disabled" => SingleTarget
    BY <1>6, PolicyMeans DEF GatherPolicy
  <2>2. result \in Results \ {"succeeded"}
    BY <2>1 DEF Disabled, Results
  <2> HIDE DEF result
  <2>3. Answer(turn, result)
    BY <1>6 DEF result
  <2> QED BY <1>5, <1>6, <2>1, <2>2, <2>3
<1>7. CASE GatherPolicy(targets[turn]) = "proceed"
             /\ (\E result \in {"failed", "dependency"} : Answer(turn, result))
             /\ UNCHANGED seen
  <2>1. PICK result \in {"failed", "dependency"} : Answer(turn, result)
    BY <1>7
  <2>2. Enabled(turn)
    BY <1>7, PolicyMeans DEF GatherPolicy
  <2>3. result \in Results \ {"succeeded"} /\ result \notin Disabled
        /\ result # "refused_disabled"
    BY DEF Disabled, Results
  <2> QED BY <1>5, <1>7, <2>1, <2>2, <2>3
<1>8. CASE GatherPolicy(targets[turn]) = "proceed"
             /\ seen' = [seen EXCEPT ![turn] = health[targets[turn]]]
             /\ UNCHANGED slots
  <2>1. targets[turn] \in Ids /\ health[targets[turn]] \in HealthStates
    BY <1>2 DEF IInv, TypeOK
  <2>2. /\ seen' \in [1..Len(targets) -> HealthStates \cup {None}]
        /\ seen'[turn] \in HealthStates
        /\ \A j \in 1..Len(targets) : j # turn => seen'[j] = seen[j]
    BY <1>2, <1>8, <2>1 DEF IInv, TypeOK
  <2>3. Enabled(turn)
    BY <1>8, PolicyMeans DEF GatherPolicy
  <2>4. TypeOK'
    BY <1>1, <1>2, <1>8, <2>2 DEF IInv, TypeOK
  <2>5. \A k \in 1..Len(targets) : k # turn => Meant(k)' /\ Passed(k)'
    BY <1>1, <1>2, <1>8, <2>2 DEF IInv, Meant, Passed, Enabled, SingleTarget
  <2>6. ASSUME NEW k, k = turn PROVE Meant(k)' /\ Passed(k)'
    <3>1. slots'[k] = Unanswered /\ seen'[k] \in HealthStates /\ ~(k >= turn')
      BY <1>2, <1>4, <1>8, <2>2, <2>6
    <3>2. Meant(k)'
      BY <1>1, <2>3, <2>6, <3>1 DEF Meant, Enabled, Disabled, Unanswered
    <3>3. Passed(k)'
      BY <1>1, <3>1 DEF Passed, Unanswered
    <3> QED BY <3>2, <3>3
  <2> QED BY <1>1, <1>3, <2>4, <2>5, <2>6 DEF IInv, Exited
<1> QED BY <1>6, <1>7, <1>8 DEF Gather

\* Once all are gathered the acting pass begins with the first.
LEMMA EndGatherKeeps == ASSUME IInv, EndGather PROVE IInv'
<1>1. /\ pc = "gather" /\ turn > Len(targets) /\ pc' = "act" /\ turn' = 1
      /\ UNCHANGED <<config, args, health, targets, seen, slots, document, exit>>
      /\ args.op = "restart_failed"
  BY DEF EndGather, IInv, Placed
<1>2. Len(targets) \in Nat /\ turn \in Nat /\ 1 \in 1..(Len(targets) + 1)
  BY DEF IInv, TypeOK
<1>3. TypeOK'
  BY <1>1, <1>2 DEF IInv, TypeOK
<1>4. Asked' /\ Placed'
  BY <1>1, FrameKeeps
<1>5. \A k \in 1..Len(targets) : k < turn /\ ~(k < turn')
  BY <1>1, <1>2
<1>6. \A k \in 1..Len(targets) : Meant(k)' /\ Passed(k)'
  BY <1>1, <1>5 DEF IInv, Meant, Passed, Enabled, SingleTarget
<1> QED BY <1>1, <1>3, <1>4, <1>6 DEF IInv, Exited

\* A batch ends when all targets are done with.
LEMMA EndBatchKeeps == ASSUME IInv, EndBatch PROVE IInv'
<1>1. /\ pc = "act" /\ turn > Len(targets) /\ pc' = "exited" /\ exit' = ExitForBatch
      /\ UNCHANGED <<config, args, health, targets, turn, seen, slots, document>>
  BY DEF EndBatch, ExitWith
<1>2. ExitForBatch \in {0, 1, 2, 3, 4} /\ ExitForBatch' = ExitForBatch
  BY <1>1 DEF ExitForBatch, Answered
<1>3. TypeOK'
  BY <1>1, <1>2 DEF IInv, TypeOK
<1>4. Asked' /\ Placed'
  BY <1>1, FrameKeeps
<1>5. \A k \in 1..Len(targets) : k < turn
  BY <1>1 DEF IInv, TypeOK
<1>6. \A k \in 1..Len(targets) : Meant(k)' /\ Passed(k)'
  BY <1>1, <1>5 DEF IInv, Placed, Meant, Passed, Done, Enabled, SingleTarget
<1> QED BY <1>1, <1>2, <1>3, <1>4, <1>6 DEF IInv, Exited

\* status reads one target after the other and answers none.
LEMMA StatusKeeps == ASSUME IInv, Observe \/ ObserveFails \/ EndStatus PROVE IInv'
<1>1. /\ pc = "rows" /\ pc' \in {"rows", "exited"} /\ args.op = "status"
      /\ UNCHANGED <<config, args, health, targets, slots>>
  BY DEF Observe, ObserveFails, EndStatus, ExitWith, IInv, Placed
<1>2. Asked' /\ Placed'
  BY <1>1, FrameKeeps
<1>3. /\ turn' \in 1..(Len(targets) + 1) /\ exit' \in {None, 0, 1, 2, 3, 4}
      /\ seen' \in [1..Len(targets) -> HealthStates \cup {None}]
  <2>1. CASE Observe
    <3>1. turn \in 1..Len(targets) /\ turn' \in 1..(Len(targets) + 1)
      BY <1>1, <2>1, TurnPasses DEF IInv, Observe
    <3>2. health[targets[turn]] \in HealthStates
      BY <3>1 DEF IInv, TypeOK
    <3> QED BY <2>1, <3>1, <3>2 DEF IInv, TypeOK, Observe
  <2>2. CASE ObserveFails \/ EndStatus
    BY <2>2 DEF IInv, TypeOK, ObserveFails, EndStatus, ExitWith
  <2> QED BY <2>1, <2>2
<1>4. TypeOK'
  BY <1>1, <1>3 DEF IInv, TypeOK
<1>5. \A k \in 1..Len(targets) : slots[k] = Unanswered
  BY <1>1 DEF IInv, Passed
<1>6. \A k \in 1..Len(targets) : Meant(k)' /\ Passed(k)'
  BY <1>1, <1>5 DEF Meant, Passed, Unanswered, Disabled
<1> QED BY <1>1, <1>2, <1>4, <1>6 DEF IInv, Exited

\* The invariant holds throughout.
THEOREM BatchInvariance == Spec => []IInv
<1>1. ASSUME IInv, [Next]_vars PROVE IInv'
  <2>1. CASE UNCHANGED vars
    BY <1>1, <2>1
       DEF vars, IInv, TypeOK, Asked, Placed, TargetsAreTheSelected, Selected, SingleTarget,
           Meant, Passed, Done, Enabled, Exited, ExitForBatch, Answered
  <2> QED BY <1>1, <2>1, WorldKeeps, RejectArgsKeeps, AcceptArgsKeeps, ActKeeps, LeaveOutKeeps,
             GatherKeeps, EndGatherKeeps, EndBatchKeeps, StatusKeeps DEF Next, Command
<1> QED BY <1>1, IInvInit, PTL DEF Spec

-----------------------------------------------------------------------------
(* What follows from it.                                                   *)

\* The type invariant: readings and answers stay aligned with the targets.
THEOREM BatchTypeCorrect == Spec => []TypeOK
<1>1. IInv => TypeOK
  BY DEF IInv
<1> QED BY <1>1, BatchInvariance, PTL

\* The selector reaches what it names, once each and in config order
\* (src/commands/select.rs:50).
THEOREM SelectorIsExact == Spec => []TargetsAreTheSelected
<1>1. IInv => TargetsAreTheSelected
  BY DEF IInv, Placed
<1> QED BY <1>1, BatchInvariance, PTL

\* No failure of one target takes another's answer away
\* (src/commands/mutate.rs:212, 543).
THEOREM NobodyIsForgotten == Spec => []EveryTargetAnswered
<1>1. ASSUME IInv PROVE EveryTargetAnswered
  <2>1. SUFFICES ASSUME Ran, NEW k \in 1..Len(targets)
                 PROVE  \/ slots[k].id = targets[k]
                        \/ /\ args.op = "restart_failed"
                           /\ slots[k] = Unanswered
                           /\ seen[k] \in HealthStates \ {"error"}
    BY DEF EveryTargetAnswered
  <2>2. Meant(k) /\ Done(k)
    BY <1>1, <2>1 DEF IInv, Passed, Ran
  <2> QED BY <2>2 DEF Meant, Done
<1> QED BY <1>1, BatchInvariance, PTL

\* restart --failed is a filter over what it has read
\* (src/commands/mutate.rs:527).
THEOREM RepairOnlyFilters == Spec => []RepairIsAFilter
<1>1. IInv => RepairIsAFilter
  BY DEF IInv, Meant, RepairIsAFilter
<1> QED BY <1>1, BatchInvariance, PTL

\* Whoever's turn it is has no answer yet: start, stop and restart come to each
\* target once, and what restart --failed answered while gathering it has no row
\* of, so its acting pass does not stop at it.
LEMMA TurnIsUnanswered ==
  ASSUME IInv, Act \/ Gather
  PROVE  turn \in 1..Len(targets) /\ slots[turn] = Unanswered
<1>1. turn \in 1..Len(targets) /\ turn >= turn
  BY DEF IInv, TypeOK, Act, Gather
<1>2. CASE Gather
  BY <1>1, <1>2 DEF IInv, Passed, Gather
<1>3. CASE Act
  <2>1. CASE args.op = "restart_failed"
    <3>1. seen[turn] = "error" /\ pc = "act"
      BY <1>3, <2>1 DEF Act, LeftOut
    <3>2. seen[turn] # None
      BY <3>1, NoneAssumption DEF HealthStates
    <3> QED BY <1>1, <3>1, <3>2 DEF IInv, Passed
  <2>2. CASE args.op # "restart_failed"
    BY <1>1, <1>3, <2>2 DEF IInv, Passed, Act
  <2> QED BY <2>1, <2>2
<1> QED BY <1>1, <1>2, <1>3

\* A target is commanded only while it has no answer, and its answer stands
\* (src/commands/mutate.rs:212, 543).
THEOREM AnswersStand == Spec => EachTargetAnsweredOnce
<1>1. ASSUME IInv, [Next]_vars
      PROVE  [/\ Act => slots[turn] = Unanswered
              /\ \A k \in 1..Len(slots) :
                   slots[k] # Unanswered => slots'[k] = slots[k]]_vars
  <2>1. CASE Act \/ Gather
    <3>1. turn \in 1..Len(targets) /\ slots[turn] = Unanswered
      BY <1>1, <2>1, TurnIsUnanswered
    <3>2. slots' = slots \/ \E result : Answer(turn, result)
      BY <2>1 DEF Act, Gather
    <3>3. ASSUME NEW k \in 1..Len(slots), slots[k] # Unanswered PROVE slots'[k] = slots[k]
      <4>1. k # turn
        BY <3>1, <3>3
      <4> QED BY <3>2, <4>1 DEF Answer, Slot
    <3> QED BY <3>1, <3>3
  <2>2. CASE AcceptArgs
    <3>1. 1..Len(slots) = {} /\ ~Act
      BY <1>1, <2>2 DEF AcceptArgs, Act, IInv, Placed, TypeOK
    <3> QED BY <3>1
  <2>3. CASE ~(Act \/ Gather \/ AcceptArgs)
    <3>1. slots' = slots
      BY <1>1, <2>3
         DEF Next, Command, World, RejectArgs, LeaveOut, EndGather, EndBatch, Observe,
             ObserveFails, EndStatus, vars
    <3> QED BY <2>3, <3>1
  <2> QED BY <2>1, <2>2, <2>3
<1> QED BY <1>1, BatchInvariance, PTL DEF Spec, EachTargetAnsweredOnce

\* No target of a batch is repeated.
LEMMA TargetsDiffer ==
  ASSUME IInv, NEW j \in 1..Len(targets), NEW k \in 1..Len(targets), j # k
  PROVE  targets[j] # targets[k]
<1>1. targets[j] \in Nat /\ targets[k] \in Nat
  <2>1. targets[j] \in Ids /\ targets[k] \in Ids
    BY DEF IInv, TypeOK
  <2> QED BY <2>1, IdsAssumption
<1>2. j < k \/ k < j
  OBVIOUS
<1>3. targets[j] < targets[k] \/ targets[k] < targets[j]
  BY <1>2 DEF IInv, Placed
<1> QED BY <1>1, <1>3

\* The exit code is what the answers add up to (exit_for_batch,
\* src/cli.rs:421).
THEOREM ExitIsEarned == Spec => []ExitCodeIsEarned
<1>1. ASSUME IInv PROVE ExitCodeIsEarned
  <2> DEFINE Succeeded == {k \in 1..Len(slots) : slots[k].result = "succeeded"}
             Wanted    == {k \in 1..Len(targets) :
                             /\ args.op # "stop" => Enabled(k)
                             /\ ~(args.op = "restart_failed" /\ slots[k] = Unanswered)}
             Bad       == Wanted \ Succeeded
  <2>1. SUFFICES ASSUME pc = "exited", args.op # "status"
                 PROVE  /\ exit = 0 => Bad = {}
                        /\ exit = 1 => Bad # {} /\ Succeeded # {}
                        /\ exit = 4 => Bad # {} /\ Succeeded = {}
                        /\ exit = 2 => Succeeded = {} /\ Answered("failed") = {}
                        /\ exit = 3 => Answered("dependency") # {}
                        /\ Bad = {} /\ slots # <<>> /\ Answered("refused_disabled") = {}
                             => exit = 0
    BY DEF ExitCodeIsEarned
  <2>2. Len(slots) = Len(targets) /\ Len(targets) \in Nat
    BY <1>1 DEF IInv, TypeOK
  <2>3. \A k \in 1..Len(targets) :
          /\ slots[k] = Unanswered \/ slots[k].result \in Results
          /\ slots[k] = Unanswered => args.op = "restart_failed"
          /\ slots[k].result \in Disabled => args.op # "stop" /\ ~Enabled(k)
          /\ slots[k].result = "refused_disabled" => SingleTarget
          /\ slots[k].result \in {"failed", "dependency"} => k \in Bad
    BY <1>1, <2>1, <2>2 DEF IInv, TypeOK, Meant, Passed, Done, Unanswered
  <2>4. \A k \in Bad : slots[k].result \in {"failed", "dependency"}
    BY <2>2, <2>3 DEF Results, Disabled
  <2>5. Succeeded = Answered("succeeded")
    BY DEF Answered
  <2>6. Bad = {} <=> Answered("failed") = {} /\ Answered("dependency") = {}
    BY <2>2, <2>3, <2>4 DEF Answered
  <2>7. CASE exit = 2 /\ slots = <<>>
    BY <2>2, <2>7 DEF Answered
  <2>8. CASE exit = ExitForBatch
    <3>1. Answered("refused_disabled") # {} =>
            Succeeded = {} /\ Answered("failed") = {}
      <4>1. SUFFICES ASSUME NEW k \in Answered("refused_disabled")
                     PROVE  \A j \in 1..Len(targets) : j = k
        BY <2>2 DEF Answered
      <4>2. k \in 1..Len(targets) /\ slots[k].result = "refused_disabled"
        BY <2>2 DEF Answered
      <4>3. \A j \in 1..Len(targets) : targets[j] = args.id
        BY <1>1, <2>3, <4>2 DEF IInv, Placed
      <4> QED BY <1>1, <4>2, <4>3, TargetsDiffer
    <3> HIDE DEF Succeeded, Bad
    <3> QED BY <2>5, <2>6, <2>8, <3>1 DEF ExitForBatch
  <2> QED BY <1>1, <2>1, <2>7, <2>8 DEF IInv, Exited
<1> QED BY <1>1, BatchInvariance, PTL

-----------------------------------------------------------------------------
(* The Status document.                                                    *)

\* What the document counts under: the Health states and the total.
Keys == HealthStates \cup {"total"}

\* The document's parts, taken out of AssembleDocument.
GroupOf(k) == config[targets[k]].group

EmptyDocument == [ids    |-> targets,
                  rows   |-> seen,
                  totals |-> NoCounts,
                  groups |-> [g \in {GroupOf(k) : k \in 1..Len(targets)} |-> NoCounts]]

WithRow(doc, k) ==
  [doc EXCEPT !.totals = Tally(@, seen[k]),
              !.groups[GroupOf(k)] = Tally(@, seen[k])]

Assembles(f) ==
  f = [s \in SUBSET (DOMAIN [k \in 1..Len(targets) |-> k]) |->
         IF s = {} THEN EmptyDocument
         ELSE LET x == Max(s) IN WithRow(f[s \ {x}], [k \in 1..Len(targets) |-> k][x])]

LEMMA AssembleIsAFold ==
  AssembleDocument =
    (CHOOSE f : Assembles(f))[DOMAIN [k \in 1..Len(targets) |-> k]]
BY Zenon DEF AssembleDocument, FoldLeft, MapThenFoldSet, Assembles, WithRow, EmptyDocument,
             GroupOf

\* What a tally says of a set of rows.
CountsOf(tally, S) ==
  /\ tally["total"] = Cardinality(S)
  /\ \A s \in HealthStates : tally[s] = Cardinality({j \in S : seen[j] = s})

\* A count of a set of rows goes up by one when a row joins it.
LEMMA TallyCounts ==
  ASSUME Len(targets) \in Nat, seen \in [1..Len(targets) -> HealthStates],
         NEW k \in 1..Len(targets), NEW S \in SUBSET (1..Len(targets)), k \notin S,
         NEW tally \in Tallies, CountsOf(tally, S)
  PROVE  CountsOf(Tally(tally, seen[k]), S \cup {k})
<1> DEFINE n == Len(targets)
<1>1. seen[k] \in HealthStates /\ "total" \notin HealthStates
  BY DEF HealthStates
<1>2. Cardinality(S \cup {k}) = Cardinality(S) + 1
  BY PositionsAreFinite, FS_AddElement
<1>3. /\ Tally(tally, seen[k]) \in Tallies
      /\ Tally(tally, seen[k])["total"] = tally["total"] + 1
      /\ \A s \in HealthStates :
           Tally(tally, seen[k])[s] = IF s = seen[k] THEN tally[s] + 1 ELSE tally[s]
  BY <1>1 DEF Tally, Tallies, Keys
<1>4. ASSUME NEW s \in HealthStates
      PROVE  Cardinality({j \in S \cup {k} : seen[j] = s}) =
               IF s = seen[k] THEN Cardinality({j \in S : seen[j] = s}) + 1
               ELSE Cardinality({j \in S : seen[j] = s})
  <2> DEFINE T == {j \in S : seen[j] = s}
  <2>1. IsFiniteSet(T) /\ k \notin T
    <3>1. T \in SUBSET (1..n)
      OBVIOUS
    <3> QED BY <3>1, PositionsAreFinite
  <2>2. CASE s = seen[k]
    <3>1. {j \in S \cup {k} : seen[j] = s} = T \cup {k}
      BY <2>2
    <3> HIDE DEF T
    <3>2. Cardinality(T \cup {k}) = Cardinality(T) + 1
      BY <2>1, FS_AddElement
    <3> QED BY <2>2, <3>1, <3>2 DEF T
  <2>3. CASE s # seen[k]
    <3>1. {j \in S \cup {k} : seen[j] = s} = T
      BY <2>3
    <3> QED BY <2>3, <3>1
  <2> QED BY <2>2, <2>3
<1> QED BY <1>2, <1>3, <1>4 DEF CountsOf

\* What the document is like when its first k rows have been counted.
Docs == [ids    : {targets},
         rows   : {seen},
         totals : Tallies,
         groups : [{GroupOf(k) : k \in 1..Len(targets)} -> Tallies]]

InGroup(group, k) == {j \in 1..k : GroupOf(j) = group}

Assembled(doc, k) ==
  /\ doc \in Docs
  /\ CountsOf(doc.totals, 1..k)
  /\ \A j \in 1..Len(targets) : CountsOf(doc.groups[GroupOf(j)], InGroup(GroupOf(j), k))

\* A document without rows counts nothing.
LEMMA EmptyDocumentCounts == EmptyDocument \in Docs /\ Assembled(EmptyDocument, 0)
<1>1. NoCounts \in Tallies /\ \A s \in Keys : NoCounts[s] = 0
  BY DEF NoCounts, Tallies, Keys
<1>2. EmptyDocument \in Docs
  BY <1>1 DEF EmptyDocument, Docs
<1>3. CountsOf(NoCounts, {})
  <2>1. \A s : {j \in {} : seen[j] = s} = {}
    OBVIOUS
  <2>2. CountsOf(NoCounts, {}) <=> NoCounts["total"] = 0 /\ \A s \in HealthStates : NoCounts[s] = 0
    BY <2>1, FS_EmptySet DEF CountsOf
  <2> QED BY <1>1, <2>2 DEF Keys
<1>4. 1..0 = {} /\ \A group : InGroup(group, 0) = {}
  BY DEF InGroup
<1>5. /\ EmptyDocument.totals = NoCounts
      /\ \A j \in 1..Len(targets) : EmptyDocument.groups[GroupOf(j)] = NoCounts
  BY DEF EmptyDocument
<1> QED BY <1>2, <1>3, <1>4, <1>5 DEF Assembled

\* Adding a row to a document makes a document.
LEMMA WithRowTyped ==
  ASSUME NEW doc \in Docs, NEW k \in 1..Len(targets), seen[k] \in HealthStates
  PROVE  /\ WithRow(doc, k) \in Docs
         /\ WithRow(doc, k).totals = Tally(doc.totals, seen[k])
         /\ \A j \in 1..Len(targets) :
              WithRow(doc, k).groups[GroupOf(j)] =
                IF GroupOf(j) = GroupOf(k) THEN Tally(doc.groups[GroupOf(j)], seen[k])
                ELSE doc.groups[GroupOf(j)]
<1> DEFINE Held == {GroupOf(j) : j \in 1..Len(targets)}
<1>1. \A tally \in Tallies : Tally(tally, seen[k]) \in Tallies
  BY DEF Tally, Tallies, Keys
<1>2. doc.groups \in [Held -> Tallies] /\ doc.totals \in Tallies /\ GroupOf(k) \in Held
  BY DEF Docs
<1> DEFINE totals == Tally(doc.totals, seen[k])
           groups == [doc.groups EXCEPT ![GroupOf(k)] = Tally(doc.groups[GroupOf(k)], seen[k])]
<1>3. totals \in Tallies /\ groups \in [Held -> Tallies]
  BY <1>1, <1>2
<1>4. \A j \in 1..Len(targets) :
        groups[GroupOf(j)] = IF GroupOf(j) = GroupOf(k)
                               THEN Tally(doc.groups[GroupOf(j)], seen[k])
                               ELSE doc.groups[GroupOf(j)]
  BY <1>2
<1>5. WithRow(doc, k) = [doc EXCEPT !.totals = totals, !.groups = groups]
  BY DEF WithRow
<1> HIDE DEF totals, groups
<1>6. /\ WithRow(doc, k) \in Docs
      /\ WithRow(doc, k).totals = totals
      /\ WithRow(doc, k).groups = groups
  BY <1>3, <1>5 DEF Docs
<1> QED BY <1>4, <1>6 DEF totals

\* Adding the next row keeps the counts those of the rows so far.
LEMMA WithRowCounts ==
  ASSUME Len(targets) \in Nat, seen \in [1..Len(targets) -> HealthStates],
         NEW k \in 1..Len(targets), NEW doc, Assembled(doc, k - 1)
  PROVE  Assembled(WithRow(doc, k), k)
<1> DEFINE n == Len(targets)
           before == 1..(k - 1)
<1>1. doc \in Docs /\ seen[k] \in HealthStates
  BY DEF Assembled
<1>2. /\ before \in SUBSET (1..n) /\ k \notin before /\ before \cup {k} = 1..k
      /\ \A group : /\ InGroup(group, k - 1) \in SUBSET (1..n) /\ k \notin InGroup(group, k - 1)
                    /\ GroupOf(k) = group => InGroup(group, k - 1) \cup {k} = InGroup(group, k)
                    /\ GroupOf(k) # group => InGroup(group, k - 1) = InGroup(group, k)
  BY DEF InGroup
<1>3. CountsOf(WithRow(doc, k).totals, 1..k)
  <2>1. doc.totals \in Tallies /\ CountsOf(doc.totals, before)
    BY DEF Assembled, Docs
  <2>2. CountsOf(Tally(doc.totals, seen[k]), before \cup {k})
    BY <1>2, <2>1, TallyCounts
  <2> QED BY <1>1, <1>2, <2>2, WithRowTyped
<1>4. ASSUME NEW j \in 1..n
      PROVE  CountsOf(WithRow(doc, k).groups[GroupOf(j)], InGroup(GroupOf(j), k))
  <2> DEFINE tally == doc.groups[GroupOf(j)]
             members == InGroup(GroupOf(j), k - 1)
  <2>1. tally \in Tallies /\ CountsOf(tally, members)
    BY DEF Assembled, Docs
  <2>2. WithRow(doc, k).groups[GroupOf(j)] =
          IF GroupOf(j) = GroupOf(k) THEN Tally(tally, seen[k]) ELSE tally
    BY <1>1, WithRowTyped
  <2>3. CASE GroupOf(j) = GroupOf(k)
    <3>1. members \in SUBSET (1..n) /\ k \notin members
          /\ members \cup {k} = InGroup(GroupOf(j), k)
      BY <1>2, <2>3, Zenon
    <3> HIDE DEF tally, members
    <3>2. CountsOf(Tally(tally, seen[k]), members \cup {k})
      BY <2>1, <3>1, TallyCounts
    <3> QED BY <2>2, <2>3, <3>1, <3>2
  <2>4. CASE GroupOf(j) # GroupOf(k)
    BY <1>2, <2>1, <2>2, <2>4, Zenon
  <2> QED BY <2>3, <2>4
<1> QED BY <1>1, <1>3, <1>4, WithRowTyped DEF Assembled

\* The document counts its rows, all of them and those of each group
\* (src/commands/status.rs:358-388).
LEMMA DocumentCounts ==
  ASSUME Len(targets) \in Nat, seen \in [1..Len(targets) -> HealthStates]
  PROVE  Assembled(AssembleDocument, Len(targets))
<1> DEFINE n == Len(targets)
           step == [p \in Docs \X (1..n) |-> WithRow(p[1], p[2])]
           chosen == CHOOSE f : Assembles(f)
<1>1. DOMAIN [k \in 1..n |-> k] = 1..n /\ \A k \in 1..n : [j \in 1..n |-> j][k] = k
  OBVIOUS
<1>2. step \in [Docs \X (1..n) -> Docs]
  <2>1. \A p \in Docs \X (1..n) : WithRow(p[1], p[2]) \in Docs
    BY WithRowTyped
  <2> QED BY <2>1
<1>3. PICK f \in [SUBSET (1..n) -> Docs] : FoldsTo(f, n, EmptyDocument, step)
  BY <1>2, EmptyDocumentCounts, FoldExists
<1>4. Assembles(f)
  <2>1. ASSUME NEW S \in SUBSET (1..n)
        PROVE  f[S] = IF S = {} THEN EmptyDocument
                      ELSE LET x == Max(S) IN WithRow(f[S \ {x}], [k \in 1..n |-> k][x])
    <3>1. CASE S = {}
      BY <1>3, <3>1 DEF FoldsTo
    <3>2. CASE S # {}
      <4>1. Max(S) \in 1..n
        BY <3>2, MaxIsGreatest
      <4>2. f[S \ {Max(S)}] \in Docs
        OBVIOUS
      <4>3. step[<<f[S \ {Max(S)}], Max(S)>>] = WithRow(f[S \ {Max(S)}], Max(S))
        BY <4>1, <4>2
      <4>4. f[S] = step[<<f[S \ {Max(S)}], Max(S)>>]
        BY <1>3, <3>2 DEF FoldsTo
      <4> QED BY <1>1, <3>2, <4>1, <4>3, <4>4
    <3> QED BY <3>1, <3>2
  <2> QED BY <1>1, <2>1 DEF Assembles
<1>5. Assembles(chosen)
  BY <1>4, Zenon
<1> HIDE DEF chosen
<1>6. /\ chosen[1..0] = EmptyDocument
      /\ \A S \in SUBSET (1..n) :
           S # {} => chosen[S] = WithRow(chosen[S \ {Max(S)}], Max(S))
  <2>1. 1..0 = {} /\ {} \in SUBSET (1..n)
    OBVIOUS
  <2>2. \A S \in SUBSET (1..n) :
          chosen[S] = IF S = {} THEN EmptyDocument
                      ELSE WithRow(chosen[S \ {Max(S)}], [k \in 1..n |-> k][Max(S)])
    BY <1>1, <1>5 DEF Assembles
  <2> QED BY <1>1, <2>1, <2>2, MaxIsGreatest
<1>7. ASSUME NEW k \in 1..n PROVE chosen[1..k] = WithRow(chosen[1..(k - 1)], k)
  <2>1. k \in Nat \ {0} /\ 1..k \in SUBSET (1..n)
    OBVIOUS
  <2>2. Max(1..k) = k /\ (1..k) \ {k} = 1..(k - 1) /\ 1..k # {}
    BY <2>1, MaxOfPrefix
  <2>3. chosen[1..k] = WithRow(chosen[(1..k) \ {Max(1..k)}], Max(1..k))
    BY <1>6, <2>1, <2>2
  <2> QED BY <2>2, <2>3
<1> DEFINE P == {k \in 0..n : Assembled(chosen[1..k], k)}
<1>8. 0 \in P
  BY <1>6, EmptyDocumentCounts
<1>9. \A k \in 1..n : k - 1 \in P => k \in P
  BY <1>7, WithRowCounts
<1>10. n \in P
  <2>1. \A k \in 0..n : k \in P
    <3> HIDE DEF P
    <3> QED BY <1>8, <1>9, BoundedInduction, Zenon
  <2> QED BY <2>1
<1> QED BY <1>1, <1>10, AssembleIsAFold DEF chosen

\* Before it exits a command has no document and no exit code, status has a row
\* for every target it has passed, and what is printed at exit 0 is a document.
StatusInv ==
  /\ args.op = "status" => \A k \in 1..Len(targets) : k < turn => seen[k] \in HealthStates
  /\ pc # "exited" => exit = None /\ document = None
  /\ pc = "rows" => config # BadConfig
  /\ StatusIsWholeAndAddsUp

\* A document that has been assembled is what the property asks for.
LEMMA AssembledIsWhole ==
  ASSUME IInv, config # BadConfig, seen \in [1..Len(targets) -> HealthStates],
         targets' = targets, seen' = seen, config' = config,
         pc = "rows", document' = AssembleDocument, exit' = 0
  PROVE  StatusIsWholeAndAddsUp'
<1> DEFINE n == Len(targets)
<1>0. Len(targets) \in Nat /\ targets \in Seq(Ids) /\ seen \in Seq(HealthStates)
  BY DEF IInv, TypeOK
<1>1. Assembled(document', n)
  BY <1>0, DocumentCounts
<1>2. /\ document' \in Docs
      /\ document'.ids = targets /\ document'.rows = seen
      /\ DOMAIN document'.groups = {GroupOf(k) : k \in 1..n}
  BY <1>1 DEF Assembled, Docs
<1>3. ASSUME NEW S, NEW tally, CountsOf(tally, S) PROVE Counts(tally, S)'
  BY <1>2, <1>3 DEF CountsOf, Counts
<1>4. Counts(document.totals, 1..Len(targets))'
  BY <1>1, <1>3 DEF Assembled
<1>5. ASSUME NEW j \in 1..n
      PROVE  Counts(document.groups[GroupOf(j)], Members(GroupOf(j)))'
  <2>1. GroupOf(j)' = GroupOf(j) /\ Members(GroupOf(j))' = InGroup(GroupOf(j), n)
    BY DEF GroupOf, Members, InGroup
  <2>2. CountsOf(document'.groups[GroupOf(j)], InGroup(GroupOf(j), n))
    BY <1>1 DEF Assembled
  <2> QED BY <1>2, <2>1, <2>2 DEF CountsOf, Counts
<1>6. \A group \in DOMAIN document'.groups : Counts(document.groups[group], Members(group))'
  BY <1>2, <1>5 DEF GroupOf
<1>7. document' # None
  <2>1. \A k \in 1..n : GroupOf(k) \in Groups
    <3>1. SUFFICES ASSUME NEW k \in 1..n PROVE GroupOf(k) \in Groups
      OBVIOUS
    <3>2. config \in Seq([group : Groups, enabled : BOOLEAN])
      BY ConfigsAssumption DEF IInv, Asked
    <3>3. targets[k] \in Range(targets)
      BY <1>0 DEF Range
    <3>4. targets[k] \in 1..Len(config)
      BY <3>3 DEF IInv, Placed, TargetsAreTheSelected
    <3>5. config[targets[k]] \in [group : Groups, enabled : BOOLEAN]
      BY <3>2, <3>4, EntryOf, Zenon
    <3>6. config[targets[k]].group \in Groups
      BY <3>5
    <3> QED BY <3>6 DEF GroupOf
  <2> DEFINE Held == {GroupOf(k) : k \in 1..n}
  <2>2. Held \in SUBSET Groups
    BY <2>1
  <2>3. /\ document' \in [ids : {targets}, rows : {seen}, totals : Tallies,
                          groups : [Held -> Tallies]]
    BY <1>1 DEF Assembled, Docs
  <2> HIDE DEF Held
  <2>4. [Held -> Tallies] \subseteq UNION {[held -> Tallies] : held \in SUBSET Groups}
    BY <2>2, Zenon
  <2>5. document' \in Documents
    BY <1>0, <2>3, <2>4 DEF Documents
  <2> QED BY <2>5, NoneAssumption
<1>8. document'.rows \in [1..n -> HealthStates]
  BY <1>2
<1> QED BY <1>2, <1>4, <1>6, <1>7, <1>8 DEF StatusIsWholeAndAddsUp, GroupOf

\* The invariant of the document holds throughout.
LEMMA StatusInvariance == Spec => []StatusInv
<1>1. Init => StatusInv
  <2>1. None # 0
    BY NoneAssumption
  <2>2. Init => exit = None /\ document = None /\ pc = "args" /\ targets = <<>>
    BY DEF Init
  <2> QED BY <2>1, <2>2 DEF StatusInv, StatusIsWholeAndAddsUp
<1>2. ASSUME IInv, StatusInv, [Next]_vars PROVE StatusInv'
  <2>1. CASE UNCHANGED vars
    <3>1. UNCHANGED <<config, args, pc, targets, turn, seen, document, exit>>
      BY <2>1 DEF vars
    <3>2. \A tally, ks : Counts(tally, ks)' = Counts(tally, ks)
      BY <3>1 DEF Counts
    <3>3. \A group : Members(group)' = Members(group)
      BY <3>1 DEF Members
    <3>4. StatusIsWholeAndAddsUp'
      BY <1>2, <3>1, <3>2, <3>3 DEF StatusInv, StatusIsWholeAndAddsUp
    <3> QED BY <1>2, <3>1, <3>4 DEF StatusInv
  <2>2. CASE World \/ Act \/ LeaveOut \/ Gather \/ EndGather
    <3>1. /\ pc' = pc \/ (pc = "gather" /\ pc' = "act")
          /\ pc # "exited" /\ pc' # "exited" /\ UNCHANGED <<args, targets, document, exit>>
          /\ args.op = "status" => UNCHANGED <<turn, seen>>
          /\ pc' = "rows" => pc = "rows" /\ config' = config
      BY <1>2, <2>2 DEF World, Act, LeaveOut, Gather, EndGather, IInv, Placed
    <3> QED BY <1>2, <3>1 DEF StatusInv, StatusIsWholeAndAddsUp
  <2>3. CASE RejectArgs \/ EndBatch \/ ObserveFails
    <3>1. /\ pc # "exited" /\ pc' = "exited" /\ UNCHANGED <<args, targets, turn, seen, document>>
          /\ args.op = "status" => exit' # 0
      BY <1>2, <2>3 DEF RejectArgs, EndBatch, ObserveFails, ExitWith, IInv, Placed
    <3>2. document' = None
      BY <1>2, <3>1 DEF StatusInv
    <3> QED BY <1>2, <3>1, <3>2 DEF StatusInv, StatusIsWholeAndAddsUp
  <2>4. CASE AcceptArgs
    <3>1. /\ pc = "args" /\ pc' # "exited" /\ UNCHANGED <<args, turn, document, exit>>
          /\ turn = 1 /\ config' = config /\ config # BadConfig
      BY <1>2, <2>4 DEF AcceptArgs, FirstPass, IInv, Placed
    <3>2. \A k \in 1..Len(targets') : ~(k < turn')
      BY <3>1
    <3> QED BY <1>2, <3>1, <3>2 DEF StatusInv, StatusIsWholeAndAddsUp
  <2>5. CASE Observe
    <3>1. /\ pc = "rows" /\ pc' = pc /\ UNCHANGED <<config, args, targets, document, exit>>
          /\ turn' = turn + 1 /\ seen' = [seen EXCEPT ![turn] = health[targets[turn]]]
          /\ turn \in 1..Len(targets)
      BY <1>2, <2>5 DEF Observe, IInv, TypeOK
    <3>2. health[targets[turn]] \in HealthStates
      BY <1>2, <3>1 DEF IInv, TypeOK
    <3>3. \A k \in 1..Len(targets) : k < turn' => k < turn \/ k = turn
      BY <3>1
    <3>4. args.op = "status" => \A k \in 1..Len(targets) : k < turn' => seen'[k] \in HealthStates
      BY <1>2, <3>1, <3>2, <3>3 DEF StatusInv, IInv, TypeOK
    <3> QED BY <1>2, <3>1, <3>4 DEF StatusInv, StatusIsWholeAndAddsUp
  <2>6. CASE EndStatus
    <3>1. /\ pc = "rows" /\ args.op = "status" /\ pc' = "exited" /\ turn > Len(targets)
          /\ UNCHANGED <<config, args, targets, turn, seen>>
          /\ \/ exit' = 3 /\ document' = document
             \/ exit' = 0 /\ document' = AssembleDocument
      BY <1>2, <2>6 DEF EndStatus, ExitWith, IInv, Placed
    <3>2. Len(targets) \in Nat /\ turn \in Nat
      BY <1>2 DEF IInv, TypeOK
    <3>3. seen \in [1..Len(targets) -> HealthStates]
      <4>1. \A k \in 1..Len(targets) : k < turn
        BY <3>1, <3>2
      <4> QED BY <1>2, <3>1, <4>1 DEF StatusInv, IInv, TypeOK
    <3>4. CASE exit' = 3 /\ document' = document
      <4>1. document' = None
        BY <1>2, <3>1, <3>4 DEF StatusInv
      <4> QED BY <1>2, <3>1, <3>4, <4>1 DEF StatusInv, StatusIsWholeAndAddsUp
    <3>5. CASE exit' = 0 /\ document' = AssembleDocument
      <4>1. StatusIsWholeAndAddsUp'
        BY <1>2, <3>1, <3>3, <3>5, AssembledIsWhole DEF StatusInv
      <4> QED BY <1>2, <3>1, <4>1 DEF StatusInv
    <3> QED BY <3>1, <3>4, <3>5
  <2> QED BY <1>2, <2>1, <2>2, <2>3, <2>4, <2>5, <2>6 DEF Next, Command
<1> QED BY <1>1, <1>2, BatchInvariance, PTL DEF Spec

\* A Status document is whole, and its aggregates add up, whatever the number
\* of rows and groups (src/commands/status.rs:69, 358).
THEOREM DocumentAddsUp == Spec => []StatusIsWholeAndAddsUp
<1>1. StatusInv => StatusIsWholeAndAddsUp
  BY DEF StatusInv
<1> QED BY <1>1, StatusInvariance, PTL

=============================================================================
