-------------------------- MODULE ReconcileTable --------------------------
(***************************************************************************)
(* One Connection looked at again and again: what systemd and the port     *)
(* report stays the same while the clock advances, and every look is a     *)
(* fresh `status` (there is no state file, so nothing but the clock can    *)
(* change the row).                                                        *)
(*                                                                         *)
(* The properties compare the row with the normative truth table of        *)
(* docs/reconcile.v1.md, restated here from systemd's raw properties       *)
(* without using any definition of Reconcile.                              *)
(***************************************************************************)
EXTENDS Reconcile

CONSTANTS Raws,      \* raw property sets systemd can report for a loaded unit
          Listeners, \* process ids the listener can be attributed to
          Instants   \* monotonic clock readings, in milliseconds

ASSUME RawsAssumption ==
  /\ Absent \notin Raws
  /\ Raws \subseteq [active : STRING, mainPid : Nat, result : STRING,
                     code : Int, status : Int, start : Nat]
ASSUME ListenersAssumption == Listeners \subseteq Nat \ {0}
ASSUME InstantsAssumption == Instants \subseteq Nat

VARIABLES raw,       \* the unit as systemd reports it, or Absent
          port,      \* what the probe and the attribution report
          monoNow,   \* the clock reading of the last look
          row        \* the row of the last look

vars == <<raw, port, monoNow, row>>

Ports == [probe : {"open", "closed", "unreachable"}, listener : Listeners \cup {None}]

Snapshot(r) ==
  IF r = Absent
    THEN Absent
    ELSE [active |-> r.active,
          pid    |-> IF r.mainPid = 0 THEN None ELSE r.mainPid,
          result |-> r.result,
          exec   |-> ExecOutcome(r.code, r.status),
          start  |-> IF r.start = 0 THEN None ELSE r.start]

ASSUME AbsentIsNoSnapshot == \A r \in Raws : Snapshot(r) # Absent

RowAt(r, p, t) == ReconcileRow(MapUnitSnapshot(Snapshot(r), t), p)

Init ==
  /\ raw \in Raws \cup {Absent}
  /\ port \in Ports
  /\ monoNow \in Instants
  /\ row = RowAt(raw, port, monoNow)

LookAgain(t) ==
  /\ t > monoNow
  /\ monoNow' = t
  /\ row' = RowAt(raw, port, t)
  /\ UNCHANGED <<raw, port>>

Next == \E t \in Instants : LookAgain(t)

Spec == Init /\ [][Next]_vars

-----------------------------------------------------------------------------
(* The truth table, from raw properties.                                   *)

Idle     == IF raw = Absent THEN TRUE ELSE raw.active = "inactive"
In(a)    == IF raw = Absent THEN FALSE ELSE raw.active = a
MainPid  == IF raw = Absent THEN 0 ELSE raw.mainPid
Open     == port.probe = "open"
OursOrUnknown == port.listener \in {None, MainPid}

Inside ==
  IF raw = Absent THEN FALSE
  ELSE raw.start # 0 /\ raw.start <= monoNow /\ monoNow <= raw.start + 10000

\* "Clean stop vs failed unit", branches A, B and C.
CleanTermination ==
  \/ raw.result \in {"success", "exit-code"} /\ raw.code = 1 /\ raw.status = 0
  \/ raw.result = "exit-code" /\ raw.code = 1 /\ raw.status = 143
  \/ raw.result = "signal" /\ raw.code \in {2, 3} /\ raw.status = 15

Is(state, sources, codes) ==
  row.state = state /\ row.source \in sources /\ row.code \in codes

\* Every row of docs/reconcile.v1.md, "Truth table (normative)": what the CLI
\* reports of a Connection is what the table says for the signals it read.
\* The table is silent on activating with a stranger's listener and on a clean
\* failed unit that still has an open port or a process; so is this property.
RowMatchesTruthTable ==
  /\ Idle /\ ~Open => Is("stopped", {"none"}, {NoError})
  /\ Idle /\ Open => Is("error", {"none"}, {"port_in_use"})
  /\ In("activating") /\ ~Open /\ Inside => Is("starting", {"unit", "none"}, {NoError})
  /\ In("activating") /\ ~Open /\ ~Inside => Is("error", {"unit"}, {"start_timeout"})
  /\ In("activating") /\ Open /\ OursOrUnknown => Is("running", {"unit"}, {NoError})
  /\ In("active") /\ Open /\ OursOrUnknown => Is("running", {"unit"}, {NoError})
  /\ In("active") /\ Open /\ ~OursOrUnknown => Is("error", {"unit"}, {"port_in_use"})
  /\ In("active") /\ ~Open /\ Inside => Is("starting", {"unit"}, {NoError})
  /\ In("active") /\ ~Open /\ ~Inside => Is("error", {"unit"}, {"unit_failed"})
  /\ In("deactivating") /\ Open => Is("running", {"unit"}, {NoError})
  /\ In("deactivating") /\ ~Open => Is("stopped", {"unit", "none"}, {NoError})
  /\ In("failed") /\ ~CleanTermination =>
       Is("error", {"unit", "none"}, {"unit_failed", "exec_failed"})
  /\ In("failed") /\ CleanTermination /\ ~Open /\ MainPid = 0 =>
       Is("stopped", {"none"}, {NoError})

KnownActiveStates == {"inactive", "activating", "active", "deactivating", "failed"}

\* A state or a result this version cannot read, or a Result= and an
\* ExecMainCode that contradict each other, is reported as an error and never
\* as running, starting or cleanly stopped (src/commands/status.rs:201-252,
\* docs/research/supervisor-io.md: "never silently classify healthy").
NeverSilentlyHealthy ==
  raw # Absent =>
    /\ raw.active \notin KnownActiveStates => row.state = "error"
    /\ raw.active = "failed" /\ raw.code \notin {1, 2, 3} => row.state = "error"
    /\ raw.active = "failed" /\ raw.result = "signal" /\ raw.code = 1 =>
         row.state = "error"
    /\ raw.active = "failed" /\ raw.result \in {"success", "exit-code"}
         /\ raw.code # 1 => row.state = "error"

\* A row carries an error code exactly when it is an error, and a pid or an
\* uptime only when a process of our Unit backs it (docs/reconcile.v1.md,
\* "Outputs (Status row)"; src/reconcile.rs:175-184).
RowIsWellFormed ==
  /\ row.state = "error" <=> row.code # NoError
  /\ row.source = "none" => row.pid = None /\ row.uptime = None
  /\ row.state = "running" => row.source = "unit" /\ row.portOpen

\* Once the window of a dated start has passed, looking again never reports
\* the same silent unit as starting: "do not leave the row in eternal
\* starting" (docs/reconcile.v1.md:124; src/reconcile.rs:428).
StartingOnlyEnds ==
  [][row.state # "starting" /\ raw # Absent
       /\ StartedAgo(raw.start, monoNow) # None => row'.state # "starting"]_vars

=============================================================================
