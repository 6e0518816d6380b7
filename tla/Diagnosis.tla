----------------------------- MODULE Diagnosis -----------------------------
(***************************************************************************)
(* The two subcommands that only look: doctor and logs                     *)
(* (src/commands/doctor.rs, src/commands/logs.rs, src/journal.rs,          *)
(* src/env/mod.rs, systemd_user_check of src/supervisor.rs, run_doctor and *)
(* run_logs of src/cli.rs).                                                *)
(*                                                                         *)
(* Both begin with the config. doctor goes on whatever comes of it: six    *)
(* checks in their order, the last of which looks at the port of each      *)
(* Connection and, when it is open, at the Unit, one blocking call after   *)
(* the other, while the Unit, the proxy and other programs move. What a    *)
(* scan looks at is one Connection's world (SystemdUnit); the next scan    *)
(* finds another.                                                          *)
(*                                                                         *)
(* Of a row's texts only the length is kept. Paths, error messages and     *)
(* journalctl's stderr come from outside and may be of any length: they    *)
(* are all short or all long.                                              *)
(***************************************************************************)
EXTENDS SystemdUnit, Config

CONSTANTS Requests,  \* the invocations, <<[command, id, lines, wordy], config file>>
          Searches,  \* what a search for the proxy binary may meet
          MaxUnits,  \* how many units rivals may bring the name to, a bound
          Ambiguous, \* whether the listener's PID may stay unknown
          Faults     \* whether a probe may be unreachable, a D-Bus call may fail

ASSUME SearchesAssumption ==
  Searches \subseteq [absolute : BOOLEAN, at : Seq({"absent", "plain", "executable"})]
ASSUME RequestsAssumption ==
  \A r \in Requests :
    /\ r[1] \in [command : {"doctor", "logs"}, id : Seq(STRING), lines : Int,
                 wordy : BOOLEAN]
    /\ r[2] \in Files
ASSUME DiagnosisAssumption ==
  MaxUnits \in Nat /\ Ambiguous \in BOOLEAN /\ Faults \in BOOLEAN

VARIABLES request,   \* what was asked for
          file,      \* the config file, until it is read
          config,    \* what loading it came to
          pc,        \* the call the invocation is about to make
          checks,    \* the rows of the report so far
          turn,      \* the Connection whose port is scanned
          scan,      \* what this scan has read
          conflicts, \* the Connections the ports row names
          exit,      \* the exit code, or None
          holders    \* history: who held the port since this scan began

cliVars == <<request, file, config, pc, checks, turn, scan, conflicts, exit>>
vars    == <<cliVars, holders, unitVars>>

DOCTOR_MAX_BYTES == 65536
MAX_DETAIL_LEN == 512

CheckOrder == <<"config", "proxy_bin", "systemd_user", "adc", "journal_user", "ports">>

Forgotten == [kind |-> "forgotten"]
NotLoaded == Refuse("pending")

\* failed: a call to the manager failed. main_pid: our_unit_main_pid.
NoScan == [probe |-> "none", listener |-> None, main_pid |-> None, failed |-> FALSE]

Init ==
  /\ \E r \in Requests : request = r[1] /\ file = r[2]
  /\ config = NotLoaded
  /\ pc = IF request.command = "doctor" THEN "load" ELSE "arguments"
  /\ checks = <<>>
  /\ turn = 1
  /\ scan = NoScan
  /\ conflicts = {}
  /\ exit = None
  /\ holders = {}
  /\ unit = Absent /\ port = None /\ created = 0

-----------------------------------------------------------------------------
(* Rows.                                                                   *)

\* Mutant: a row's texts are taken as they come.
Unclamped(len) == len

\* At most: a code point is not split.
ClampUtf8(len) == IF len <= MAX_DETAIL_LEN THEN len ELSE MAX_DETAIL_LEN

\* The length of a text of ours, and of one with something from outside in it.
OwnText == 60
OuterText == IF request.wordy THEN 5000 ELSE 60

Row(id, status, words) ==
  [id     |-> id,
   status |-> status,
   detail |-> ClampUtf8(words),
   hint   |-> IF status = "pass" THEN 0 ELSE ClampUtf8(3 * OwnText)]

Report(status, words, next) ==
  /\ checks' = Append(checks, Row(pc, status, words))
  /\ pc' = next

-----------------------------------------------------------------------------
(* logs.                                                                   *)

Exit(code) == pc' = "exited" /\ exit' = code

ValidateLines ==
  /\ pc = "arguments"
  /\ IF request.lines < 1
       THEN Exit(2)
       ELSE pc' = "load" /\ UNCHANGED exit
  /\ UNCHANGED <<request, file, config, checks, turn, scan, conflicts, holders, unitVars>>

\* Mutant: the Unit name is made of the id as it was typed.
NamesUnit(loaded) == UnitNameOf(request.id).error = "none"

\* resolve_unit: no such Connection, or one whose id makes no Unit name.
ResolvesUnit(loaded) ==
  LET i == ById(loaded, request.id) IN
  IF i = 0 THEN FALSE ELSE UnitNameOf(loaded.connections[i].id).error = "none"

\* config::load, and what both commands do with the result before their next
\* call: logs stops at an error, doctor reports it.
LoadConfig ==
  /\ pc = "load"
  /\ config' = Load(file)
  /\ file' = Forgotten
  /\ IF request.command = "doctor"
       THEN /\ checks' = <<Row("config", IF config'.error = "none" THEN "pass" ELSE "fail",
                               OuterText)>>
            /\ pc' = "proxy_bin"
            /\ UNCHANGED exit
       ELSE /\ IF config'.error # "none" THEN Exit(2)
               ELSE IF ~ResolvesUnit(config') THEN Exit(2)
               ELSE pc' = "journal" /\ UNCHANGED exit
            /\ UNCHANGED checks
  /\ UNCHANGED <<request, turn, scan, conflicts, holders, unitVars>>

\* journalctl: it is not there, fails, or prints lines or nothing.
Dump ==
  /\ pc = "journal"
  /\ \E outcome \in {"Empty", "Bytes", "NotFound", "Failed"} :
       Exit(IF outcome \in {"Empty", "Bytes"} THEN 0 ELSE 3)
  /\ UNCHANGED <<request, file, config, checks, turn, scan, conflicts, holders, unitVars>>

-----------------------------------------------------------------------------
(* doctor: the checks that ask one adapter.                                *)

RestOfDoctor == <<request, file, config, turn, scan, conflicts, exit, holders, unitVars>>

Executables(search) == {i \in 1..Len(search.at) : search.at[i] = "executable"}

\* An absolute path must be an executable file; a bare name is searched for.
ResolveBin(search) ==
  CASE Executables(search) # {} -> "resolved"
    [] Executables(search) = {}
         /\ (search.absolute \/ \E i \in 1..Len(search.at) : search.at[i] = "plain") ->
         "NotExecutable"
    [] OTHER -> "NotFound"

\* proxy_bin_check; what the probe can come to is VersionProbe's subject.
ProxyBinCheck ==
  /\ pc = "proxy_bin"
  /\ \E search \in Searches,
        probe \in {"ok", "SpawnFailed", "WaitFailed", "TimedOut", "NonZeroExit",
                   "IdentityMismatch"} :
       Report(IF ResolveBin(search) = "resolved" /\ probe = "ok" THEN "pass" ELSE "fail",
              OuterText, "systemd_user")
  /\ UNCHANGED RestOfDoctor

SystemdUserCheck ==
  /\ pc = "systemd_user"
  /\ \/ Report("pass", OwnText, "adc")
     \/ Report("fail", OuterText, "adc")
  /\ UNCHANGED RestOfDoctor

IsReadableFile(path) == path = "readable"

\* GOOGLE_APPLICATION_CREDENTIALS decides when it is set, HOME otherwise.
AdcPresent(gac, home) ==
  \/ gac # Unset /\ IsReadableFile(gac)
  \/ gac = Unset /\ home # Unset /\ IsReadableFile(home)

AdcCheck ==
  /\ pc = "adc"
  /\ \E gac, home \in Optional({"readable", "unreadable", "missing"}) :
       Report(IF AdcPresent(gac, home) THEN "pass" ELSE "fail", OuterText, "journal_user")
  /\ UNCHANGED RestOfDoctor

JournalUserCheck ==
  /\ pc = "journal_user"
  /\ \/ Report("pass", OwnText, "ports")
     \/ Report("fail", OuterText, "ports")
  /\ UNCHANGED RestOfDoctor

-----------------------------------------------------------------------------
(* doctor: the ports check.                                                *)

Scanning == {"probe", "attribute", "get_unit", "get_service", "classify"}

\* Another Connection's Unit, process and port.
NextWorld ==
  \E w \in FoundWorlds : /\ unit' = w.unit /\ port' = w.port /\ created' = w.created
                         /\ holders' = {w.port}

SameWorld == UNCHANGED <<holders, unitVars>>

ClearWorld ==
  /\ unit' = Absent /\ port' = None /\ created' = 0
  /\ holders' = {}

IsOver == config.error = "none" => turn > Len(config.connections)

BeginScan ==
  /\ pc = "ports"
  /\ ~IsOver
  /\ IF config.connections[turn].address.shaped
       THEN /\ pc' = "probe"
            /\ NextWorld
            /\ UNCHANGED <<turn, conflicts>>
       ELSE /\ conflicts' = conflicts \cup {turn}
            /\ turn' = turn + 1
            /\ UNCHANGED <<pc, holders, unitVars>>
  /\ UNCHANGED <<request, file, config, checks, scan, exit>>

Learn(next, s) == pc' = next /\ scan' = s

RestOfScan == <<request, file, config, checks, turn, conflicts, exit>>

ProbeTcp ==
  /\ pc = "probe"
  /\ \/ Learn("attribute", [scan EXCEPT !.probe = IF port = None THEN "closed" ELSE "open"])
     \/ Faults /\ Learn("attribute", [scan EXCEPT !.probe = "unreachable"])
  /\ SameWorld /\ UNCHANGED RestOfScan

ListenersSeen == IF Ambiguous THEN {port, None} ELSE {port}

\* The manager is asked only when the port was open.
AttributeListener ==
  /\ pc = "attribute"
  /\ \E listener \in ListenersSeen :
       Learn(IF scan.probe = "open" THEN "get_unit" ELSE "classify",
             [scan EXCEPT !.listener = listener])
  /\ SameWorld /\ UNCHANGED RestOfScan

CallFails == Faults /\ Learn("classify", [scan EXCEPT !.failed = TRUE])

ShowUnit ==
  /\ pc = "get_unit"
  /\ \/ unit = Absent /\ Learn("classify", scan)
     \/ unit # Absent /\ Learn("get_service", scan)
     \/ CallFails
  /\ SameWorld /\ UNCHANGED RestOfScan

\* Mutant: whoever listens is taken for our process.
ListenerIsOurs == port

\* Mutant: the verdict "ignores the Unit".
NobodyIsOurs == None

OurMainPid == MainPid

\* Of a unit that has gone meanwhile the manager has no MainPID, or an error.
ShowService ==
  /\ pc = "get_service"
  /\ \/ Learn("classify", [scan EXCEPT !.main_pid = OurMainPid])
     \/ unit = Absent /\ Learn("classify", [scan EXCEPT !.failed = TRUE])
     \/ CallFails
  /\ SameWorld /\ UNCHANGED RestOfScan

\* Mutant: two unknown PIDs are taken for the same process.
SamePid == scan.listener = scan.main_pid

IsOurs == scan.listener # None /\ scan.listener = scan.main_pid

IsConflict ==
  \/ scan.probe = "unreachable"
  \/ scan.probe = "open" /\ ~IsOurs

ClassifyPort ==
  /\ pc = "classify"
  /\ conflicts' = IF IsConflict THEN conflicts \cup {turn} ELSE conflicts
  /\ turn' = turn + 1
  /\ pc' = "ports"
  /\ scan' = NoScan
  /\ ClearWorld
  /\ UNCHANGED <<request, file, config, checks, exit>>

\* Mutant: a port that cannot be had fails the report.
ConflictFails == IF conflicts = {} THEN "pass" ELSE "fail"

PortsStatus == IF conflicts = {} THEN "pass" ELSE "warn"

PortsCheck ==
  /\ pc = "ports"
  /\ IsOver
  /\ Report(PortsStatus, IF conflicts = {} THEN OwnText ELSE OuterText, "print")
  /\ UNCHANGED RestOfDoctor

\* At most: six bytes for every byte of a text that JSON has to escape, and the
\* keys, quotes and indentation of a row and of the document.
ESCAPED_BYTE == 6
ROW_BYTES == 120
DOCUMENT_BYTES == 120

JsonLen ==
  DOCUMENT_BYTES + FoldLeft(LAMBDA total, row :
                              total + ROW_BYTES + ESCAPED_BYTE * (row.detail + row.hint),
                            0, checks)

AllChecksOk == \A i \in 1..Len(checks) : checks[i].status # "fail"

\* With --json a report that is too long is not printed.
PrintReport ==
  /\ pc = "print"
  /\ \E json \in BOOLEAN :
       Exit(IF AllChecksOk /\ (json => JsonLen <= DOCTOR_MAX_BYTES) THEN 0 ELSE 3)
  /\ UNCHANGED <<request, file, config, checks, turn, scan, conflicts, holders, unitVars>>

-----------------------------------------------------------------------------
(* While a port is scanned the manager, the proxy and other programs move, *)
(* and other invocations start and stop the Connection.                    *)

Rivals == (created < MaxUnits /\ CreateUnit) \/ QueueStop

World ==
  /\ pc \in Scanning
  /\ WorldStep \/ Rivals
  /\ holders' = holders \cup {port'}
  /\ UNCHANGED cliVars

LogsStep == ValidateLines \/ Dump

DoctorStep ==
  \/ ProxyBinCheck \/ SystemdUserCheck \/ AdcCheck \/ JournalUserCheck
  \/ BeginScan \/ ProbeTcp \/ AttributeListener \/ ShowUnit \/ ShowService
  \/ ClassifyPort \/ PortsCheck \/ PrintReport

Next == LoadConfig \/ LogsStep \/ DoctorStep \/ World

Spec == Init /\ [][Next]_vars

-----------------------------------------------------------------------------
(* The rules of docs/config.v1.md, stated of a document as a whole.        *)

Bounded(text, most) == text.len \in 1..most /\ text.printable

FewArgs(args) ==
  /\ Len(args) <= 16
  /\ TotalLen(args) <= 2048
  /\ \A i \in 1..Len(args) : args[i].printable

UsablePort(p) == 1024 <= p /\ p <= 65535 /\ p \notin {1433, 3306, 5432}

PlainId(id) ==
  /\ Len(id) \in 1..64
  /\ \A i \in 1..Len(id) : id[i] \in Alphanumerics \/ (i > 1 /\ id[i] \in {"_", "-"})

AllDiffer(values) ==
  \A i, j \in 1..Len(values) : i # j => values[i] # values[j]

Acceptable(document) ==
  LET cs == document.connections
      optional == {document.defaults} \cup {cs[i] : i \in 1..Len(cs)} IN
  /\ document.version = 1
  /\ document.proxy_bin # Unset => Bounded(document.proxy_bin, 4095)
  /\ \A o \in optional : /\ o.address # Unset => Bounded(o.address, 253)
                         /\ o.extra_args # Unset => FewArgs(o.extra_args)
  /\ Len(cs) <= 32
  /\ \A i \in 1..Len(cs) :
       /\ PlainId(cs[i].id)
       /\ Bounded(cs[i].name, 64)
       /\ Bounded(cs[i].group, 32) /\ cs[i].group.shaped
       /\ Bounded(cs[i].instance, 256) /\ cs[i].instance.shaped
       /\ UsablePort(cs[i].port)
  /\ AllDiffer([i \in 1..Len(cs) |-> cs[i].id])
  /\ AllDiffer([i \in 1..Len(cs) |-> cs[i].port])
  /\ AllDiffer([i \in 1..Len(cs) |-> cs[i].instance])

-----------------------------------------------------------------------------

Rows == [id : {"config", "proxy_bin", "systemd_user", "adc", "journal_user", "ports"},
         status : {"pass", "warn", "fail"}, detail : Nat, hint : Nat]

Configs == {NotLoaded} \cup {Refuse(e) : e \in ConfigErrors}
             \cup [error : {"none"}, proxy_bin : Texts, connections : Seq(Connections)]

TypeOK ==
  /\ config \in Configs
  /\ pc \in {"arguments", "load", "journal", "proxy_bin", "systemd_user", "adc",
             "journal_user", "ports", "print", "exited"} \cup Scanning
  /\ checks \in Seq(Rows)
  /\ turn \in Nat \ {0}
  /\ scan \in [probe : {"none", "open", "closed", "unreachable"},
               listener : Nat \cup {Foreign, None},
               main_pid : Nat \cup {None}, failed : BOOLEAN]
  /\ conflicts \subseteq 1..(turn - 1)
  /\ exit \in {0, 2, 3, None}
  /\ UnitTypeOK
  /\ UnitConsistent

\* A document is accepted when it keeps every rule of docs/config.v1.md, and
\* only then, whatever the order in which parse asks (src/config.rs:83-106).
LoadIsExact ==
  [][pc = "load" =>
       (config'.error = "none" <=> file.kind = "document" /\ Acceptable(file))]_vars

\* "Every field value is valid by construction" (docs/config.v1.md, "Merge
\* order"): what a Connection ends up with, whether it is its own, the file's
\* or built in, is within the limits (src/config.rs:202-256).
MergedIsValid ==
  config.error = "none" =>
    \A i \in 1..Len(config.connections) :
      LET c == config.connections[i] IN
      /\ Bounded(c.address, 253)
      /\ FewArgs(c.extra_args)
      /\ c.private_ip \in BOOLEAN /\ c.auto_iam_authn \in BOOLEAN /\ c.enabled \in BOOLEAN

\* No two Connections of a config share a Unit, and each has one: what the
\* config takes for a valid id and what the Unit name is made of are two
\* copies of one rule (src/model.rs:39-70, validate_id in src/config.rs:320).
UnitsAreDistinct ==
  config.error = "none" =>
    \A i, j \in 1..Len(config.connections) :
      LET Name(k) == UnitNameOf(config.connections[k].id) IN
      /\ Name(i).error = "none"
      /\ i # j => Name(i) # Name(j)

\* A port that somebody else has held since its scan began is reported, even
\* when /proc does not tell who it is, the Unit has no process, or the manager
\* cannot be asked (src/commands/doctor.rs:139-205).
ForeignIsReported ==
  [][pc = "classify" /\ pc' = "ports" /\ holders = {Foreign} => turn \in conflicts']_vars

\* A port that our own process has held since its scan began is not reported,
\* whatever the manager has been doing to the Unit meanwhile, provided the
\* probe, /proc and the manager answer (src/commands/doctor.rs:139-205).
OursIsNotReported ==
  [][/\ pc = "classify" /\ pc' = "ports"
     /\ holders # {} /\ holders \subseteq Nat
     /\ scan.probe # "unreachable" /\ scan.listener # None /\ ~scan.failed
     => turn \notin conflicts']_vars

\* doctor always ends in a whole report: six rows in their order, whatever
\* failed before them; the ports row warns of exactly what was found and never
\* fails, and the exit code is 3 if and only if a row fails, with or without
\* --json (src/commands/doctor.rs:38-66, 96-128; run_doctor, src/cli.rs:515).
ReportIsWhole ==
  request.command = "doctor" /\ pc = "exited" =>
    /\ [i \in 1..Len(checks) |-> checks[i].id] = CheckOrder
    /\ checks[1].status = "fail" <=> config.error # "none"
    /\ checks[6].status = IF conflicts = {} THEN "pass" ELSE "warn"
    /\ exit = IF \E i \in 1..6 : checks[i].status = "fail" THEN 3 ELSE 0

\* The report always fits under its cap, however long the paths, errors and
\* outputs that go into it (clamp_utf8 in src/model.rs, write_doctor_json in
\* src/cli.rs:534).
ReportFits == pc = "print" => JsonLen <= DOCTOR_MAX_BYTES

\* logs never answers 0 for a Connection that the config does not have, nor
\* with a config it could not read, nor without a line to show: these, and only
\* these, are usage errors (run_logs, src/cli.rs:449-509).
LogsExitTellsWhy ==
  request.command = "logs" /\ pc = "exited" =>
    (exit = 2 <=> \/ request.lines < 1
                  \/ config.error # "none"
                  \/ \A i \in 1..Len(config.connections) :
                       config.connections[i].id # request.id)

=============================================================================
