------------------------------- MODULE Batch -------------------------------
(***************************************************************************)
(* One invocation over a whole selector, from its arguments to its exit    *)
(* code (src/cli.rs, src/commands/select.rs, and the multi-target parts of *)
(* src/commands/mutate.rs and src/commands/status.rs):                     *)
(*                                                                         *)
(*   status | start | stop | restart | restart --failed                    *)
(*                                            [ID | --group NAME | --all]  *)
(*                                                                         *)
(* What happens inside one target is Lifecycle's subject; here a target is *)
(* one step with the outcomes Lifecycle shows it to have. Between targets  *)
(* the world moves: proxies crash, and other invocations start and stop    *)
(* the same Connections.                                                   *)
(***************************************************************************)
EXTENDS Integers, FiniteSets, SequencesExt

CONSTANTS None,     \* no argument, no answer, no document, no exit code yet
          Configs,  \* the configurations: sequences of [group, enabled]
          Groups,   \* the group names an operator may type
          Ids,      \* the ids an operator may type, as positions in the config
          RowCap    \* how many rows of JSON fit under STATUS_MAX_BYTES

ASSUME IdsAssumption == Ids \subseteq Nat \ {0}
ASSUME RowCapAssumption == RowCap \in Nat
ASSUME ConfigsAssumption ==
  \A config \in Configs :
    /\ config \in Seq([group : Groups, enabled : BOOLEAN])
    /\ 1..Len(config) \subseteq Ids

VARIABLES config,   \* the connections, in config order, or an invalid config
          args,     \* the subcommand and the selector arguments
          health,   \* the Health state of each id, as an observer would find it
          pc,       \* "args", "gather", "act", "rows" or "exited"
          targets,  \* the ids the selector names, in config order
          turn,     \* the target whose turn it is
          seen,     \* the Health state the invocation read of each target
          slots,    \* the TargetOutcome of each target
          document, \* the Status document, once assembled
          exit      \* the exit code, or None

vars == <<config, args, health, pc, targets, turn, seen, slots, document, exit>>

HealthStates == {"running", "starting", "stopped", "error"}

Ops == {"status", "start", "stop", "restart", "restart_failed"}

\* What a Status document counts of its rows, in total and for each group.
Tallies == [HealthStates \cup {"total"} -> Nat]

Documents == [ids    : Seq(Ids),
              rows   : Seq(HealthStates),
              totals : Tallies,
              groups : UNION {[held -> Tallies] : held \in SUBSET Groups}]

ASSUME NoneAssumption == None \notin Nat \cup HealthStates \cup Documents

\* A config file that is missing or does not load.
BadConfig == None

Unanswered == [id |-> None, result |-> "unanswered"]

Results == {"succeeded", "skipped_disabled", "refused_disabled", "failed", "dependency"}

Init ==
  /\ config \in Configs \cup {BadConfig}
  /\ args \in [op : Ops, id : Ids \cup {None}, group : Groups \cup {None},
               all : BOOLEAN, json : BOOLEAN]
  /\ args.json => args.op = "status"
  /\ health \in [Ids -> {"stopped", "error"}]
  /\ pc = "args"
  /\ targets = <<>>
  /\ turn = 1
  /\ seen = <<>>
  /\ slots = <<>>
  /\ document = None
  /\ exit = None

-----------------------------------------------------------------------------
(* Arguments to targets.                                                   *)

UsageError == "usage_error"

\* resolve_selector: at most one of id, group and all; only status has a
\* default.
ResolveSelector ==
  LET provided == {a \in {"id", "group", "all"} :
                     CASE a = "id"    -> args.id # None
                       [] a = "group" -> args.group # None
                       [] a = "all"   -> args.all} IN
  CASE Cardinality(provided) > 1 -> UsageError
    [] Cardinality(provided) = 1 -> CHOOSE a \in provided : TRUE
    [] OTHER -> IF args.op = "status" THEN "all" ELSE UsageError

\* The positions of S in config order: the k-th is the one with k up to it.
Rank(S, i) == Cardinality({j \in S : j <= i})

InOrder(S) == [k \in 1..Cardinality(S) |-> CHOOSE i \in S : Rank(S, i) = k]

Named(selector) ==
  {i \in 1..Len(config) : CASE selector = "all"   -> TRUE
                            [] selector = "id"    -> i = args.id
                            [] selector = "group" -> config[i].group = args.group}

\* Mutant: an unknown group is an empty batch.
ExpandForgivingUnknownGroup(selector) ==
  [ok |-> Named(selector) # {} \/ selector # "id", ids |-> InOrder(Named(selector))]

\* select::expand, disabled connections included; an unknown id or group is a
\* usage error, an empty config under --all is not.
Expand(selector) ==
  [ok |-> Named(selector) # {} \/ selector = "all", ids |-> InOrder(Named(selector))]

ExitWith(code) == pc' = "exited" /\ exit' = code

\* The usage error comes before the config is read, the config before the
\* selector is expanded.
RejectArgs ==
  /\ pc = "args"
  /\ \/ ResolveSelector = UsageError
     \/ ResolveSelector # UsageError /\ config = BadConfig
     \/ /\ ResolveSelector # UsageError
        /\ config # BadConfig
        /\ ~Expand(ResolveSelector).ok
  /\ ExitWith(2)
  /\ UNCHANGED <<config, args, health, targets, turn, seen, slots, document>>

FirstPass == CASE args.op = "status"         -> "rows"
               [] args.op = "restart_failed" -> "gather"
               [] OTHER                      -> "act"

AcceptArgs ==
  /\ pc = "args"
  /\ ResolveSelector # UsageError
  /\ config # BadConfig
  /\ Expand(ResolveSelector).ok
  /\ targets' = Expand(ResolveSelector).ids
  /\ seen' = [k \in 1..Len(targets') |-> None]
  /\ slots' = [k \in 1..Len(targets') |-> Unanswered]
  /\ pc' = FirstPass
  /\ UNCHANGED <<config, args, health, turn, document, exit>>

-----------------------------------------------------------------------------
(* start, stop and restart, one target after the other.                    *)

SingleTarget == args.id # None

Answered(result) == {k \in 1..Len(slots) : slots[k].result = result}

\* Mutant: outcomes are pushed in the order they are decided.
SlotPushed(k) == Cardinality({j \in 1..Len(slots) : slots[j] # Unanswered}) + 1

\* Outcomes are index-aligned with the targets, whatever pass decides them.
Slot(k) == k

\* Mutant: an outcome is appended to the slots instead of filling its own.
AnswerAppended(k, result) ==
  slots' = Append(slots, [id |-> targets[k], result |-> result])

Answer(k, result) ==
  slots' = [slots EXCEPT ![Slot(k)] = [id |-> targets[k], result |-> result]]

DisabledPolicy(i) ==
  CASE config[i].enabled -> "proceed"
    [] ~config[i].enabled /\ SingleTarget  -> "refused_disabled"
    [] ~config[i].enabled /\ ~SingleTarget -> "skipped_disabled"

\* stop never asks the policy.
Policy(i) == IF args.op = "stop" THEN "proceed" ELSE DisabledPolicy(i)

End(result, state) == [result |-> result, health |-> state]

\* What one target's command can come to. A success is what the command last
\* observed, before anybody else had a turn: stop saw the unit gone, whoever
\* holds the port. A failure may have got any way before it failed.
Unsuccessful == {End(result, state) : result \in {"failed", "dependency"},
                                      state \in HealthStates}
StartEnds == Unsuccessful \cup {End("succeeded", "running")}
StopEnds  == Unsuccessful \cup {End("succeeded", "stopped"), End("succeeded", "error")}

\* restart_target: only a stop that succeeded is followed by a start.
RestartEnds == {end \in StopEnds : end.result # "succeeded"} \cup StartEnds

Ends == CASE args.op = "start" -> StartEnds
          [] args.op = "stop"  -> StopEnds
          [] OTHER             -> RestartEnds

\* Mutant: whatever was not seen healthy is restarted.
LeftOutIfSeenHealthy(k) ==
  args.op = "restart_failed" /\ seen[k] \in HealthStates \ {"error"}

\* Whose turn the acting pass skips: what restart --failed has not seen in
\* error, be it that it saw it healthy or that it has no row of it.
LeftOut(k) == args.op = "restart_failed" /\ seen[k] # "error"

\* start_target, stop_target, restart_target. Every call they make names the
\* target's own Unit, port and /proc entry, so their effect on Health is taken
\* to be on that Connection alone; that no two share a Unit is
\* Diagnosis!UnitsAreDistinct.
Act ==
  /\ pc = "act"
  /\ turn <= Len(targets)
  /\ ~LeftOut(turn)
  /\ \/ /\ Policy(targets[turn]) # "proceed"
        /\ Answer(turn, Policy(targets[turn]))
        /\ UNCHANGED health
     \/ /\ Policy(targets[turn]) = "proceed"
        /\ \E end \in Ends :
             /\ Answer(turn, end.result)
             /\ health' = [health EXCEPT ![targets[turn]] = end.health]
  /\ turn' = turn + 1
  /\ UNCHANGED <<config, args, pc, targets, seen, document, exit>>

LeaveOut ==
  /\ pc = "act"
  /\ turn <= Len(targets)
  /\ LeftOut(turn)
  /\ turn' = turn + 1
  /\ UNCHANGED <<config, args, health, pc, targets, seen, slots, document, exit>>

-----------------------------------------------------------------------------
(* restart --failed: the first pass, over all targets, before any restart. *)

\* Mutant: the policy is left to restart_target.
GatherPolicyForgotten(i) == "proceed"

GatherPolicy(i) == DisabledPolicy(i)

Gather ==
  /\ pc = "gather"
  /\ turn <= Len(targets)
  /\ \/ /\ GatherPolicy(targets[turn]) # "proceed"
        /\ Answer(turn, GatherPolicy(targets[turn]))
        /\ UNCHANGED seen
     \/ /\ GatherPolicy(targets[turn]) = "proceed"
        /\ seen' = [seen EXCEPT ![turn] = health[targets[turn]]]
        /\ UNCHANGED slots
     \/ /\ GatherPolicy(targets[turn]) = "proceed"
        /\ \E result \in {"failed", "dependency"} : Answer(turn, result)
        /\ UNCHANGED seen
  /\ turn' = turn + 1
  /\ UNCHANGED <<config, args, health, pc, targets, document, exit>>

EndGather ==
  /\ pc = "gather"
  /\ turn > Len(targets)
  /\ pc' = "act"
  /\ turn' = 1
  /\ UNCHANGED <<config, args, health, targets, seen, slots, document, exit>>

-----------------------------------------------------------------------------
(* The exit code of a batch.                                               *)

\* Mutant: a skipped target counts as a success.
ExitForBatchCountingSkips ==
  CASE Answered("refused_disabled") # {} -> 2
    [] Answered("dependency") # {}       -> 3
    [] Answered("failed") = {}           -> 0
    [] OTHER -> IF Answered("succeeded") \cup Answered("skipped_disabled") # {}
                  THEN 1 ELSE 4

\* exit_for_batch: refusal, environment, success, then partial or total.
ExitForBatch ==
  IF Answered("refused_disabled") # {} THEN 2
  ELSE IF Answered("dependency") # {} THEN 3
  ELSE IF Answered("failed") = {} THEN 0
  ELSE IF Answered("succeeded") # {} THEN 1
  ELSE 4

EndBatch ==
  /\ pc = "act"
  /\ turn > Len(targets)
  /\ ExitWith(ExitForBatch)
  /\ UNCHANGED <<config, args, health, targets, turn, seen, slots, document>>

-----------------------------------------------------------------------------
(* status.                                                                 *)

Observe ==
  /\ pc = "rows"
  /\ turn <= Len(targets)
  /\ seen' = [seen EXCEPT ![turn] = health[targets[turn]]]
  /\ turn' = turn + 1
  /\ UNCHANGED <<config, args, health, pc, targets, slots, document, exit>>

\* The first Connection that cannot be observed ends the command.
ObserveFails ==
  /\ pc = "rows"
  /\ turn <= Len(targets)
  /\ ExitWith(3)
  /\ UNCHANGED <<config, args, health, targets, turn, seen, slots, document>>

NoCounts == [s \in HealthStates \cup {"total"} |-> 0]

\* Mutant: a row in error is not part of the total.
TallyForgettingErrors(counts, state) ==
  [counts EXCEPT ![state] = @ + 1, !["total"] = @ + (IF state = "error" THEN 0 ELSE 1)]

Tally(counts, state) == [counts EXCEPT ![state] = @ + 1, !["total"] = @ + 1]

AssembleDocument ==
  LET Group(k) == config[targets[k]].group
      Add(doc, k) ==
        [doc EXCEPT !.totals = Tally(@, seen[k]),
                    !.groups[Group(k)] = Tally(@, seen[k])]
      empty == [ids    |-> targets,
                rows   |-> seen,
                totals |-> NoCounts,
                groups |-> [g \in {Group(k) : k \in 1..Len(targets)} |-> NoCounts]]
  IN  FoldLeft(Add, empty, [k \in 1..Len(targets) |-> k])

EndStatus ==
  /\ pc = "rows"
  /\ turn > Len(targets)
  /\ IF args.json /\ Len(targets) > RowCap
       THEN ExitWith(3) /\ UNCHANGED document
       ELSE ExitWith(0) /\ document' = AssembleDocument
  /\ UNCHANGED <<config, args, health, targets, turn, seen, slots>>

-----------------------------------------------------------------------------

\* Anything may become of a Connection between two steps of the invocation.
World ==
  /\ pc # "exited"
  /\ \E i \in Ids, state \in HealthStates :
       /\ state # health[i]
       /\ health' = [health EXCEPT ![i] = state]
  /\ UNCHANGED <<config, args, pc, targets, turn, seen, slots, document, exit>>

Command == RejectArgs \/ AcceptArgs \/ Act \/ LeaveOut \/ Gather \/ EndGather
             \/ EndBatch \/ Observe \/ ObserveFails \/ EndStatus

Next == Command \/ World

Spec == Init /\ [][Next]_vars

-----------------------------------------------------------------------------
(* What has to hold.                                                       *)

\* Every variable keeps its type; seen and slots are aligned with targets
\* (src/commands/mutate.rs:543-577, `slots` and `observed`).
TypeOK ==
  /\ health \in [Ids -> HealthStates]
  /\ pc \in {"args", "gather", "act", "rows", "exited"}
  /\ targets \in Seq(Ids)
  /\ turn \in 1..(Len(targets) + 1)
  /\ seen \in [1..Len(targets) -> HealthStates \cup {None}]
  /\ slots \in [1..Len(targets) -> [id : Ids, result : Results] \cup {Unanswered}]
  /\ exit \in {None, 0, 1, 2, 3, 4}

Selected(i) ==
  /\ args.id # None => i = args.id
  /\ args.group # None => config[i].group = args.group

\* The selector reaches exactly the connections it names, each once and in
\* config order, the disabled ones included, and never an empty set of them
\* except --all on an empty config (docs/cli-contract.v1.md, "Target
\* selectors"; src/commands/select.rs:50-72).
TargetsAreTheSelected ==
  pc \in {"gather", "act", "rows"} =>
    /\ Range(targets) = {i \in 1..Len(config) : Selected(i)}
    /\ \A j, k \in 1..Len(targets) : j < k => targets[j] < targets[k]
    /\ targets = <<>> => config = <<>>

Enabled(k) == config[targets[k]].enabled

Ran == pc = "exited" /\ args.op # "status" /\ exit \notin {None, 2}

\* Every target that was accepted has its own answer in its own place, in
\* selector order, whatever became of the others: a failure, even of the bus,
\* does not end the batch. Only restart --failed leaves out, and only what it
\* has seen healthy (src/commands/mutate.rs:212-224, 543-577).
EveryTargetAnswered ==
  Ran => \A k \in 1..Len(targets) :
           \/ slots[k].id = targets[k]
           \/ /\ args.op = "restart_failed"
              /\ slots[k] = Unanswered
              /\ seen[k] \in HealthStates \ {"error"}

\* The exit code table of docs/cli-contract.v1.md: 0 when every enabled target
\* is as requested, 1 for a mix, 4 when nothing succeeded, 3 only for the
\* environment, 2 only when nothing was done; and a skipped target changes
\* none of it (src/cli.rs:421-443).
ExitCodeIsEarned ==
  pc = "exited" /\ args.op # "status" =>
    LET Succeeded == {k \in 1..Len(slots) : slots[k].result = "succeeded"}
        Wanted    == {k \in 1..Len(targets) :
                        /\ args.op # "stop" => Enabled(k)
                        /\ ~(args.op = "restart_failed" /\ slots[k] = Unanswered)}
        Bad       == Wanted \ Succeeded
    IN  /\ exit = 0 => Bad = {}
        /\ exit = 1 => Bad # {} /\ Succeeded # {}
        /\ exit = 4 => Bad # {} /\ Succeeded = {}
        /\ exit = 2 => Succeeded = {} /\ Answered("failed") = {}
        /\ exit = 3 => Answered("dependency") # {}
        /\ Bad = {} /\ slots # <<>> /\ Answered("refused_disabled") = {} => exit = 0

\* restart --failed is a filter over what it has read: it restarts only what
\* it saw in error, and spends no look on a disabled Connection
\* (src/commands/mutate.rs:527-542, docs/cli-contract.v1.md, "restart").
RepairIsAFilter ==
  args.op = "restart_failed" =>
    \A k \in 1..Len(targets) :
      /\ slots[k].result = "succeeded" => seen[k] = "error"
      /\ seen[k] # None => Enabled(k)

\* A target is commanded only while it has no answer, and an answer stands: what
\* restart --failed was refused, skipped or could not look at in its first pass
\* is neither restarted nor answered anew by the second, so that a bus failure
\* found while gathering still decides the exit code, and no batch comes back
\* to a target to retry it or to undo it (src/commands/mutate.rs:212-224,
\* 543-577; docs/cli-contract.v1.md, "No transactional rollback").
EachTargetAnsweredOnce ==
  [][/\ Act => slots[turn] = Unanswered
     /\ \A k \in 1..Len(slots) : slots[k] # Unanswered => slots'[k] = slots[k]]_vars

\* What a Status document counts of some of its rows.
Counts(tally, ks) ==
  /\ tally["total"] = Cardinality(ks)
  /\ \A s \in HealthStates : tally[s] = Cardinality({k \in ks : document.rows[k] = s})

Members(group) == {k \in 1..Len(targets) : config[targets[k]].group = group}

\* A Status document is whole or not there: one row for every target in order,
\* and aggregates that agree with the rows, in total and for each of the
\* groups that have a target (docs/status-document.v1.md, "Top-level object";
\* src/commands/status.rs:69-87, 358-388).
StatusIsWholeAndAddsUp ==
  /\ document # None =>
       /\ exit = 0
       /\ document.ids = targets
       /\ document.rows \in [1..Len(targets) -> HealthStates]
       /\ Counts(document.totals, 1..Len(targets))
       /\ DOMAIN document.groups = {config[targets[k]].group : k \in 1..Len(targets)}
       /\ \A group \in DOMAIN document.groups :
            Counts(document.groups[group], Members(group))
  /\ args.op = "status" /\ exit = 0 => document # None

=============================================================================
