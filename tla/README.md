# Verification of cloud-sql-tracker

TLA+ models of [cloud-sql-tracker](../src/README.md), their model-checking
configurations for TLC, and theorems about them checked by TLAPS. Paths below
are relative to the repository.

cloud-sql-tracker is a CLI that supervises one Cloud SQL Auth Proxy per
configured *Connection*. Each proxy runs as a transient Unit of the systemd
user manager. The CLI has no daemon, no state file and no lock: every
invocation reads the unit through D-Bus and the port through TCP and `/proc`,
decides, calls the manager, and perhaps polls. All shared state lives outside
of it, and any number of invocations, the proxies and other programs change
that state at the same time. That is what makes it hard, and it is what is
modelled first.

## Inventory

| Component | State it keeps | Operations | Interacts with |
|---|---|---|---|
| `src/reconcile.rs` | none | `reconcile`: one observation to one Health row | called by `commands::status` |
| `src/commands/status.rs` | none | observe (clock, unit, port), map the snapshot, assemble the document | `supervisor`, `port`, `reconcile` |
| `src/commands/mutate.rs` | what an invocation has read, its deadline, its outcomes | `start`, `stop`, `restart`, `restart --failed`, the start wait and the stop wait | `status`, `supervisor`, `env`, `select` |
| `src/supervisor.rs` | none (a D-Bus connection per call) | `show`, `start_transient`, `stop`, `systemd_user_check` | systemd user manager |
| systemd user manager, proxy (external) | the Unit, its job, its process; the listening socket | StartTransientUnit, StopUnit, ResetFailedUnit, properties; exec, bind, crash, exit | everything above |
| `src/port/` | none | TCP probe; `/proc` attribution of the listener | kernel |
| `src/commands/select.rs` | none | expand id, group, all; filter rows in error | `config` |
| `src/cli.rs`, `src/main.rs` | none | selector arguments, one run per subcommand, exit codes, output caps | all commands |
| `src/model.rs` | none | vocabulary, `unit_name` | all |
| `src/config.rs` | none | load, merge defaults, validate, check uniqueness | file system |
| `src/env/mod.rs` | none | resolve the proxy binary, Application Default Credentials | file system, environment |
| `src/env/version_probe.rs` | a child process group, a waiter thread, a channel | run `cloud-sql-proxy -v` under a timeout | `doctor` |
| `src/commands/doctor.rs` | none | six checks in order, port conflicts | `config`, `env`, `port`, `supervisor`, `journal` |
| `src/journal.rs`, `src/commands/logs.rs` | none | one captured `journalctl` run | journald |

What is hard, and what makes each part correct:

- **reconcile / status mapping.** Many combinations of raw properties, an
  inclusive time window, missing and contradictory values. Correct: the row is
  the one of the truth table in `docs/reconcile.v1.md`; what cannot be read is
  never healthy; nothing starts for ever.
- **mutate / supervisor.** Both StartTransientUnit and StopUnit return when a
  job is queued; a unit name is taken until the unit is *unloaded*; a snapshot
  is several reads; calls fail in between; another invocation, the proxy or the
  operator moves at any time; waits have deadlines. Correct: a restart is not
  blocked by what it stopped itself, a stop means gone, a start is not credited
  to a stranger's listener, a disabled Connection is not touched, a start is
  not repeated, every invocation ends.
- **batches.** Partial failure of several targets, two passes of
  `restart --failed`, an exit code that summarises. Correct: every target is
  answered in its place and only once, the exit code is earned, a Status document
  is whole or absent.
- **version probe.** Two threads, a channel, a child with helpers that inherit
  its pipes, an answer that races a timeout and a kill. Correct: it returns;
  a version is only reported of a binary that exited 0, a mismatch only when
  nothing that was written is missing; a full pipe is not a hang; after a
  timeout the whole group is gone and reaped.
- **config.** Some twenty limits, uniqueness over the file, defaults that reach
  connections by merging. Correct: exactly the documents that keep every rule
  load, every merged value is valid, and every Connection has a Unit of its own.
- **doctor, logs.** Six checks that must all be reported whatever fails; a unit
  and a port read one after the other; texts from outside under a size cap.
  Correct: the report is whole, fits and agrees with its exit code; a stranger
  on a port is named and our own proxy is not; `logs` tells usage errors from
  dependency errors.

`PROJECT.json` lists the hazards at their lines with the properties that cover
them.

## Modules

| Module | Models | Role |
|---|---|---|
| `Reconcile` | `src/reconcile.rs`, the mapping half of `src/commands/status.rs`, `exec_outcome` of `src/supervisor.rs` | operators only, used by the next three |
| `ReconcileTable` | one Connection looked at again and again | states the truth table independently of `Reconcile` |
| `SystemdUnit` | the manager's Unit, the proxy process, the port (external) | actions of the world, and what the manager does when called |
| `Lifecycle` | `src/commands/mutate.rs`, the observation of `src/commands/status.rs`, `show`/`start_transient`/`stop` of `src/supervisor.rs`, `src/port/` | extends `SystemdUnit`: concurrent invocations on one Connection, call by call |
| `Batch` | `src/cli.rs`, `src/commands/select.rs`, the multi-target half of `mutate.rs` and `status.rs` | one invocation over a selector |
| `Connection` | what concurrent invocations promise about one Connection, read off `src/commands/mutate.rs` | abstract specification, implemented by `Lifecycle` (`ImplementsConnection`) |
| `UnitName` | `unit_name` of `src/model.rs` | operators, used by `Config` |
| `Config` | `src/config.rs` | operators, used by `Diagnosis` |
| `Diagnosis` | `src/commands/doctor.rs`, `src/commands/logs.rs`, `src/journal.rs`, `src/env/mod.rs`, `systemd_user_check`, `run_doctor` and `run_logs` of `src/cli.rs` | extends `SystemdUnit` and `Config`: one invocation that only looks, while a Connection's world moves |
| `VersionProbe` | `src/env/version_probe.rs` | two threads, a channel, a process group |
| `MCReconcile`, `MCLifecycle`, `MCBatch`, `MCVersionProbe`, `MCDiagnosis` | | bounds for TLC |
| `ReconcileProofs`, `LifecycleProofs`, `ConnectionProofs`, `BatchProofs`, `VersionProbeProofs`, `DiagnosisProofs` | | theorems |
| `SystemdUnitProofs`, `FoldProofs` | | lemmas for these: the shared world; induction over numbers, and what a fold comes to |

### State and actions against the code

`Lifecycle.cli[c]` is one process. `pc` is the blocking call it is about to
make; `goal` says who called `observe_and_reconcile` (the look before a start
or a stop, the gather of `restart --failed`, a turn of `wait_for`, a `status`
row); `clock`, `active`, `obs`, `open` are the locals it has filled so far;
`polls` is what is left of `--wait-ms`; `result` is the `TargetResult`.
One action is one external call with all the code up to the next one:

| Action | Code |
|---|---|
| `Begin` | entry point, `disabled_policy` |
| `Sample`, `GetUnit`, `GetService`, `Probe`, `Attribute` | `observe_and_reconcile`: monotonic clock, `GetUnit` with the Unit properties, the Service properties, TCP connect, `/proc`; `Attribute` ends in `reconcile` and the caller's decision |
| `Prepare` | `resolve_proxy_bin_or_failure`, `adc_env_or_failure` |
| `ResetBeforeStart`, `StartTransient` | `supervisor::start_transient` |
| `StopUnit`, `ResetAfterStop` | `supervisor::stop` |
| `PollStop`, `PollProps` | one turn of `wait_for_stop` |
| `BusFails` | any of these calls failing, `supervisor_result` |
| `World` | one step of the manager, the proxy, the clock or another program |

A killed invocation needs no action: it is one that takes no further step, and
the initial states include what a killed `start` leaves behind (a queued unit),
a serving proxy and a crashed one.

Abstractions. Time is one bit per start attempt ("older than the 10 s window");
in `ReconcileTable` it is milliseconds. PIDs are the number of the unit they
belong to. `GetUnit` and the first `GetAll` are one step; what could come
between them can come between the two `GetAll`s. Messages, argv and environment
values are left out. A second bus failure class (`dependency` against `failed`)
is kept because the exit code depends on it.

`Connection` keeps of all this who has the unit name (`holder`), how many units
were made under it (`made`) and how far each request has come. `Lifecycle`
implements it under `holder <- unit.id` (0 when the unit is `Absent`),
`made <- created`, `request <- RequestOf(cli[c])`, where `PhaseOf` reads the
phase off `pc` and, for an observation, off what the look is for. The steps of
the manager, the proxy and the port are stutters, but for the one that unloads
the unit (`Release`); every call is a phase change or a stutter. So a request
creates at most one unit and only in a free name, passes its own stop only when
it has seen the name free, and never goes back.

`VersionProbe`, one action per blocking call or handler, with the world's
actions beside them:

| Action | Code |
|---|---|
| `Spawn`, `SpawnFails` | `spawn_version_probe`, `thread::spawn` |
| `Drain`, `FinishDraining`, `ReadPanics`, `Reap`, `WaitFails`, `Send` | the waiter thread: `tx.send(child.wait_with_output())`, std's function taken apart into its reads, its wait and its ways to fail |
| `Receive`, `Timeout`, `TerminateVersionProbe` | the arms of `recv_timeout`, then `kill_process_group` |
| `Write`, `Blocks`, `Closes`, `Forks`, `Exits`, `IsKilledByOthers`, `Dies` | the binary, its helper and the kernel |

A line is whether it has the marker and what its token looks like; a pipe holds
lines. Two seconds are a `Timeout` that may happen whenever the channel is
empty, so every race of answer and timeout is there. A helper stays in the
process group: one that leaves it is out of reach of `kill_process_group` too,
and would keep the waiter (not the main thread) waiting. `thread::spawn`
panicking for want of threads is left out, and the waiter is followed for as
long as the `doctor` process lives; its exit ends the thread.

`Diagnosis` is one invocation of `doctor` or `logs`:

| Action | Code |
|---|---|
| `ValidateLines`, `LoadConfig`, `Dump` | `run_logs`, `config::load`, `resolve_unit`, `journal::dump` |
| `LoadConfig` (doctor) | `config_check` |
| `ProxyBinCheck`, `SystemdUserCheck`, `AdcCheck`, `JournalUserCheck` | the four adapter checks |
| `BeginScan`, `ProbeTcp`, `AttributeListener`, `ShowUnit`, `ShowService`, `ClassifyPort` | `port_conflict` of one Connection, call by call |
| `PortsCheck`, `PrintReport` | `ports_check`, `run_doctor` and `write_doctor_json` |
| `World` | the manager, the proxy, other programs and other invocations while a port is scanned |

A scan looks at one Connection's unit and port; the next scan finds another
world (`FoundWorlds`), because other Connections' units and ports are
independent of this one. A text is its value, its length, whether it is
printable and whether it has the shape its field asks for; an id is a sequence
of characters because `unit_name` is about them. Rows keep the lengths of their
texts. `holders` is a history variable: who held the port since this scan began.
The outcomes of the version probe are those `VersionProbe` can end in.

`Batch` treats one target's command as one step with the outcomes `Lifecycle`
shows it to have, and lets the Health of every Connection change between
steps. That such a step changes the Health of its own Connection only is an
assumption of this abstraction: every call of the command names the target's own
Unit and port, and no two Connections of a loaded config share a Unit
(`UnitsAreDistinct`). So the sentence "No transactional rollback" of
`docs/cli-contract.v1.md` is not checked as a statement about Health; what is
checked is its part in the control flow, that a batch never comes back to a
target it has answered (`EachTargetAnsweredOnce`). For `restart --failed` this
joins two passes: the second has no test of what the first answered, it only
goes by the rows it has read. Rows of a Status document are their Health states; `RowCap` stands for
`STATUS_MAX_BYTES`.

## Runs

| Run | Question | Bounds, and why they are enough |
|---|---|---|
| `reconcile` | is every row the truth table's? | every ActiveState, Result and ExecMainCode class and one unknown of each, the statuses the clean-stop branches single out and two others, our PID, a stranger and nobody, four instants: before the start, at it, at the last instant of the window, one past it. The code only compares, so further values repeat these classes. |
| `solo` | one invocation against the world, with bus faults; does it implement `Connection`, and does each of its steps use up one of a number known when it begins (`StepsRunOut`)? | one process, every subcommand, enabled and disabled, IP and not, two sleeps per wait (a first, a middle and a last turn) |
| `pair` | two invocations in each other's way; among others, is a restart's success always about a proxy newer than its own stop (`RestartIsANewProcess`)? | every pair of `start`, `stop`, `restart`; no sleeps (each wait is one turn and its deadline, so a wait that gives up races everything), no faults (those are in `solo`). Each hazard is between one invocation and one other actor. Invocations are interchangeable (SYMMETRY; no liveness in this run). |
| `batch` | selectors, answers, exit codes, documents; is any target commanded or answered twice? | up to three connections, two groups and an unknown one, enabled and disabled: enough for a mix of success, failure and skip. The command exits, so deadlock is not checked. |
| `version_probe` | can the probe hang, lie, or leave something behind? | a version line, one with a token a byte too long, one without the marker; pipes of one line and three lines in all: enough to fill a pipe, block on it and still write to the other stream; the binary and one helper. More helpers behave like the one, and a longer pipe only fills later. The probe ends, so deadlock is not checked. |
| `diagnosis` | does exactly the right config load, and is the report right? | a valid document, and what becomes of it with one field at or one past each limit (first or second connection, or the defaults), 32 and 33 connections, and pairs of broken rules; `logs` with a known, an unknown and another id and with 0 and 1 lines; `doctor` on every document that is refused and on none, one and two connections, one of them without an IP; texts all short or all longer than the row's cap; every outcome of every check; rivals that bring the unit name to two units. Documents differ from the valid one in the rule under test and nothing else, so every rule decides alone. The command exits, so deadlock is not checked. |

`reconcile` does not check deadlock either: the clock has a last instant.

Six runs are expected to fail. Each states a sentence of the documents or a
comment as a property and shows the code doing otherwise:

| Run | Sentence | What happens |
|---|---|---|
| `port_in_use` | "Port open but not owned by our Unit" (`docs/reconcile.v1.md:190`) | unit read while queued, port read after our proxy bound it; final for a start |
| `stop_clears_failed` | no "sticky `failed` row" after a stop (`docs/reconcile.v1.md:208`) | `ResetFailedUnit` runs before the stopping proxy fails |
| `redundant_start` | "instead of issuing a redundant start" (`src/commands/mutate.rs:247-254`) | an activating unit reported `start_timeout` is started again |
| `repair_spares_healthy` | "without cycling healthy proxies" (`docs/cli-contract.v1.md:153`) | Health is read before the whole pass, never again before the stop |
| `nothing_to_stop` | stopped: "not in a start wait" (`docs/status-document.v1.md:137`) | a queued start reads as stopped and outlives the stop |
| `disabled_stop` | `stop`: "Success no-op" (`docs/config.v1.md:176`) | `stop` never asks `disabled_policy` |

All of them need one invocation and, but for the last, an unlucky moment.

### Fairness

`EveryInvocationEnds` assumes weak fairness of an invocation's steps once it
has begun: it is a single running thread whose blocking calls return or time
out. Nothing is assumed of the manager, the proxy, other programs, or of
invocations that have not begun, so a unit that never leaves `activating` or
`deactivating` is among the behaviours: invocations end because of their own
deadlines.

`ProbeAlwaysReturns` and `KilledIsReaped` assume weak fairness of the main
thread (the timer of `recv_timeout` makes it one that can always go on), of the
waiter thread, and of the death of a process that SIGKILL has hit. Nothing is
assumed of the binary or its helper: they may run, write or stay silent for
ever. No read or wait is assumed to fail.

## Theorems

`LifecycleProofs`, for any number of invocations, poll budget, subcommands,
Connections, with or without faults and ambiguous listeners:

- `TypeCorrect`: types, and `UnitConsistent`: the loaded unit is the last one
  created and a port of ours is held by its live process. The world's and the
  manager's steps are shown to keep this one by one (`WorldStepOK`,
  `CreateUnitOK`, `QueueStopOK`, `ResetFailedOK`), then the invocations' steps
  to keep their own records typed (`StepTyped`).
- `Invariance`: the safety properties are not inductive. What is missing is
  what a program counter says about how it was reached. `Phased`: only
  a start-like subcommand gets to `start_transient`, `status` only looks, a
  disabled start-like one is done, and there is no result before the end.
  `OwnsTheName`: a restart past its stop recorded in `base` how many units had
  been created when it saw the name free, and since then either the name has
  stayed free or a further unit has been created. A name that was free is only
  taken by a creation (`NameIsTakenAnew`), which is why others' steps keep it
  (`SoundFrame`).
- `RestartConflict`, `DisabledOnlyStopped`, `StopWaits`, `NoStrangerCredited`
  follow from that invariant; the last also needs what `classify` answers
  `running` for (`RunningIsOursOrUnknown`).
- `RestartBringsUpANewOne`: what a restart reports as success is never the proxy
  it stopped. `OwnsTheName` alone does not say so, because the look that ends in
  the success spans several reads, between which units come and go. `FreshInv`
  adds that a look which has seen a unit since the name was free (`SawAUnit`) is
  about a creation after the stop, and so is the MainPID it has kept; a row can
  only be running or starting if its look has seen a unit (`LifeNeedsAUnit`), and
  a wait only begins on such a row or on the unit the restart created itself.
- `InvocationsRunOut`: an invocation takes at most 23 + 7 `Polls` steps, whatever
  the others and the world do. The variant `StepsLeft` is written down per program
  counter; one lemma says what each move leaves (`MovesStand`), one that judging a
  row uses a step up (`DecideUsesUp`), one for a turn of the stop wait
  (`JudgeStopUsesUp`). This is the safety half of `EveryInvocationEnds`: what
  remains for the model checker is that the thread keeps running.

`ReconcileProofs`, for every set of raw properties, PIDs and instants:
`TruthTable`, `UnreadableIsError`, `WellFormed`, `StartingEnds`, from the fact
that a row is a function of what was read (`RowInvariance`) and one lemma per
half of an observation.

`ConnectionProofs`, with the assumptions of `LifecycleProofs`:

- `Refinement`: `Lifecycle` implements `Connection` for any number of
  invocations. One lemma per kind of step: what the world does releases the name
  or nothing (`WorldReleases`); what an invocation does is its own request's
  (`OwnRequest`) and either stutters, proceeds or answers (`Stutters`,
  `MovesProceed`, `FinishAnswers`); the three places where the code decides
  on what it read are taken apart (`BeginRefines`, `DecideRefines`,
  `JudgeStopRefines`). It rests on `Invariance`: which phase a program counter
  stands for depends on the subcommand that can be there.
- `OneStart`: `OneStartPerInvocation` counts. It is proved of the abstract
  steps, where a creation is a request coming past its start (`PastGrows`,
  `CountedNext`), and carried over by the refinement.

`BatchProofs`, for any configs, selectors, healths and whatever becomes of them:
`BatchTypeCorrect`, `SelectorIsExact`, `NobodyIsForgotten`, `RepairOnlyFilters`,
`AnswersStand`, `ExitIsEarned`. The strengthened invariant says that the
targets are what the selector asked for (`Asked`) and which slots are filled,
from what, at each turn of each pass (`Placed`, `Passed`, `Exited`). `AnswersStand`
needs of it that a target answered while gathering has no row (`TurnIsUnanswered`),
so the acting pass cannot take it for one in error. `InOrderSorts` shows
that the expansion lists a finite set of positions once each and in order.
`DocumentAddsUp`: a Status document has the targets' rows, and its totals and
the counts of each group are those of its rows, for any number of rows.
`AssembleDocument` is a fold; the induction is over how many rows have been
counted (`Assembled`), and `WithRowCounts` is its step.

`VersionProbeProofs`, for any lines, pipe capacity and amount of output:
`ProbeTypeCorrect`, `OnlyAnExitedProxyPasses`, `NothingIsLost`,
`TimeoutEndsTheGroup`, `ChattyIsNotAHang`, from `ProbeInvariance`. What the
properties lack to be inductive: past draining both streams are at their end and
stay so (`CompleteStays`), because only a process that holds a stream can hand
it on; the channel says what became of the leader; and after the kill nobody
runs, so nobody forks (`NobodyJoins`).

`DiagnosisProofs`, for any documents, any number of Connections, with or
without faults: `LoadingIsExact` compares the order in which `parse` asks with
the rules taken together, one lemma per rule (the two copies of the id rule in
`OneIdRule`); `MergedConnectionsAreValid` and `NoSharedUnit` follow for every
config in use, as do `DiagnosisTypeCorrect` and `LogsExitIsEarned`.
`ForeignHolderIsReported` and `OurHolderIsNotReported` rest on `ScanOK`, which
relates what a scan has read so far to who has held the port since it began.
`ReportComplete` and `ReportAlwaysFits` rest on `DoctorOK`: which rows there are
at each turn of `doctor`, and that each row's texts have been cut to their caps
(`RowsOK`). `ReportLength` adds six such rows up, every byte escaped to six, with
the fold unfolded by `JsonLenIsAFold`. Because the report always fits, the exit
code is that of the rows.
`UnitNamesAreSafe` is about `unit_name` by itself, for every id, valid or not:
what it makes of it is a legal Unit name, and only an id with nothing worth
keeping is refused as empty. `collapse_repeated_dashes` is a fold, by induction
over its turns (`OneMoreCollapses`).

`FoldProofs` is what these rest on. The library's induction theorems and its fold
operators take operators as parameters, which the provers cannot instantiate. An
induction is therefore over a *set* of numbers (`SetInduction`, from the least
number of what is missing), and a fold's step is a *function* (`FoldExists`: the
function that `FoldLeft` chooses exists, because it exists for every bound on the
cardinality). A concrete fold is unfolded once (`AssembleIsAFold`,
`TotalLenIsAFold`, `JsonLenIsAFold`, `CollapseIsAFold`).

Assumptions: `None` is no number, no Health state and no document, `Absent` is no
unit record or snapshot, a foreign process is none of ours, there are finitely many invocations,
Connections, subcommands, requests, lines and searches are of the kinds listed,
raw properties have systemd's types, letters and digits are no punctuation, and
the built-in texts are strings. TLC evaluates each of them.

Only model-checked: `EveryInvocationEnds`, `ProbeAlwaysReturns` and
`KilledIsReaped`, which are liveness. Every other property that a passing run
checks is stated by one of the theorems above. The runs that end in a violation
show one behaviour, which no proof is needed for.

## Not modelled

- `/proc/net/tcp` matching (`src/port/attribution_linux.rs`): an attribution
  names the holder or nobody; how it finds it is data.
- serde, clap, `Display`, rendering and JSON encoding (but for the length of a
  doctor report), `default_path`: no state. A document that serde refuses is one
  malformed document.
- The proxy's argv and the environment passed to it (`proxy_argv`).
- `journalctl` beyond its outcomes. The code gives it no timeout, so one that
  hangs hangs `logs` and `doctor`; nothing promises otherwise.
- The reuse of a process-group number between the reaping of the probed binary
  and the kill at the timeout: possible in the code, not in the model.
- systemd itself beyond the behaviour named at the head of `SystemdUnit`.

## Plan

Done: all components above, the refinement, and the proofs listed. Left:

1. The outcomes `Batch` gives to one target's command are read off `Lifecycle`;
   state them once, in terms of what a `Lifecycle` invocation has seen, and prove
   that `Lifecycle` has no others.
2. For `version_probe`, the variant that `InvocationsRunOut` has: after the
   timeout only so many steps of the two threads are left.
3. `pair` with one sleep per wait and with bus faults, when a smaller symmetric
   encoding of the observation makes it affordable. (`LifecycleProofs` covers both
   for the safety properties.)
4. The comment on `ProxyVersionError::TimedOut` ("Child did not exit within",
   `src/env/version_probe.rs:43`) is too narrow: a binary that has exited but left
   a helper holding the pipes is reported timed out as well. `VersionProbe` has
   these behaviours; none of its properties depends on the comment.
