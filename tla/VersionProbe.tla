---------------------------- MODULE VersionProbe ----------------------------
(***************************************************************************)
(* doctor's `cloud-sql-proxy -v` under a 2 s timeout                       *)
(* (src/env/version_probe.rs): the main thread, the waiter thread it       *)
(* spawns, the channel between them, and the process group of the probed   *)
(* binary.                                                                 *)
(*                                                                         *)
(* The binary is whatever the operator configured. It writes to either     *)
(* stream, in any order and as much as it likes, blocks when a pipe is     *)
(* full, closes a stream, starts a helper that inherits the pipes, exits,  *)
(* is killed by somebody else, or does none of it. A helper stays in the   *)
(* process group (one that leaves it is out of the code's reach too).      *)
(*                                                                         *)
(* The waiter is std's Child::wait_with_output: it reads both pipes as     *)
(* they fill until both are at their end, and only then waits for the      *)
(* child. A failed read panics there; a failed wait is an error it sends.  *)
(***************************************************************************)
EXTENDS Naturals, Sequences, FiniteSetsExt

CONSTANTS Lines,         \* what the binary may write, a line at a time
          PipeCapacity,  \* how many lines a pipe holds
          MaxLines       \* how many lines are written at most, a bound

Tokens == [len : Nat, printable : BOOLEAN, digit : BOOLEAN]

ASSUME LinesAssumption == Lines \subseteq [marker : BOOLEAN, token : Tokens]
ASSUME BoundsAssumption == PipeCapacity \in Nat \ {0} /\ MaxLines \in Nat

VARIABLES main,     \* the main thread: spawn, receive, kill, done
          verdict,  \* what probe_proxy_version returns
          waiter,   \* the waiter thread: none, drain, reap, send, ended
          channel,  \* empty, or what the main thread would receive
          life,     \* the processes of the group
          holds,    \* the streams each of them has open for writing
          blocked,  \* the streams each of them is blocked writing to
          status,   \* the leader's exit status, once it has one
          pipe,     \* what is written to a stream and not read yet
          output    \* what the waiter has read of it

threads == <<main, verdict, waiter, channel>>
group   == <<life, holds, blocked, status>>
vars    == <<threads, group, pipe, output>>

Streams == {"stdout", "stderr"}

Procs == {"leader", "helper"}

\* doomed: SIGKILL is on its way. zombie: exited and not waited for.
Lives == {"absent", "running", "doomed", "zombie", "reaped"}

Unexited == "unexited"
Signaled == "signaled"

Statuses == {Unexited, Signaled, "success", "failure"}

NoToken == [len |-> 0, printable |-> TRUE, digit |-> FALSE]

Verdict(kind, token) == [kind |-> kind, token |-> token]

Kinds == {"pending", "ok", "SpawnFailed", "WaitFailed", "TimedOut", "NonZeroExit",
          "IdentityMismatch"}

Init ==
  /\ main = "spawn"
  /\ verdict = Verdict("pending", NoToken)
  /\ waiter = "none"
  /\ channel = "empty"
  /\ life = [p \in Procs |-> "absent"]
  /\ holds = [p \in Procs |-> {}]
  /\ blocked = [p \in Procs |-> {}]
  /\ status = Unexited
  /\ pipe = [s \in Streams |-> <<>>]
  /\ output = [s \in Streams |-> <<>>]

-----------------------------------------------------------------------------
(* The version line.                                                       *)

MAX_PROXY_VERSION_TOKEN_LEN == 128

TokenLooksLikeVersion(token) ==
  /\ token.len \in 1..MAX_PROXY_VERSION_TOKEN_LEN
  /\ token.printable
  /\ token.digit

IsVersionLine(line) == line.marker /\ TokenLooksLikeVersion(line.token)

\* Where a text has lines that name a version.
VersionLines(text) == {i \in 1..Len(text) : IsVersionLine(text[i])}

FirstVersion(text) == text[Min(VersionLines(text))].token

\* stdout first, then stderr; the first line of a stream that names a version.
ParseProxyVersionOutput(out, err) ==
  CASE VersionLines(out) # {} -> Verdict("ok", FirstVersion(out))
    [] VersionLines(out) = {} /\ VersionLines(err) # {} ->
         Verdict("ok", FirstVersion(err))
    [] OTHER -> Verdict("IdentityMismatch", NoToken)

-----------------------------------------------------------------------------
(* The binary and its helper.                                              *)

Runs(p) == life[p] = "running"

\* It runs code: it is not sitting in a blocked write.
Acts(p) == Runs(p) /\ blocked[p] = {}

IsFull(s) == Len(pipe[s]) = PipeCapacity

Written(s) == output[s] \o pipe[s]

MayWriteMore == Len(Written("stdout")) + Len(Written("stderr")) < MaxLines

\* Nobody reads once the waiter is gone; such a write kills or fails, which
\* Exit stands for.
Write(p, s) ==
  /\ Runs(p)
  /\ blocked[p] \subseteq {s}
  /\ s \in holds[p]
  /\ waiter # "ended"
  /\ ~IsFull(s)
  /\ MayWriteMore
  /\ \E line \in Lines : pipe' = [pipe EXCEPT ![s] = Append(@, line)]
  /\ blocked' = [blocked EXCEPT ![p] = {}]
  /\ UNCHANGED <<threads, life, holds, status, output>>

Blocks(p, s) ==
  /\ Acts(p)
  /\ s \in holds[p]
  /\ IsFull(s)
  /\ MayWriteMore
  /\ blocked' = [blocked EXCEPT ![p] = {s}]
  /\ UNCHANGED <<threads, life, holds, status, pipe, output>>

Closes(p, s) ==
  /\ Acts(p)
  /\ s \in holds[p]
  /\ holds' = [holds EXCEPT ![p] = @ \ {s}]
  /\ UNCHANGED <<threads, life, blocked, status, pipe, output>>

Forks ==
  /\ Acts("leader")
  /\ life["helper"] = "absent"
  /\ life' = [life EXCEPT !["helper"] = "running"]
  /\ holds' = [holds EXCEPT !["helper"] = holds["leader"]]
  /\ UNCHANGED <<threads, blocked, status, pipe, output>>

\* p is gone: its ends of the pipes are closed, and the leader has a status.
Ends(p, s) ==
  /\ life' = [life EXCEPT ![p] = "zombie"]
  /\ holds' = [holds EXCEPT ![p] = {}]
  /\ blocked' = [blocked EXCEPT ![p] = {}]
  /\ status' = IF p = "leader" THEN s ELSE status
  /\ UNCHANGED <<threads, pipe, output>>

Exits(p) == Acts(p) /\ \E s \in {"success", "failure"} : Ends(p, s)

IsKilledByOthers(p) == Runs(p) /\ Ends(p, Signaled)

Dies(p) == life[p] = "doomed" /\ Ends(p, Signaled)

GroupStep ==
  \/ \E p \in Procs, s \in Streams : Write(p, s) \/ Blocks(p, s) \/ Closes(p, s)
  \/ Forks
  \/ \E p \in Procs : Exits(p) \/ IsKilledByOthers(p) \/ Dies(p)

-----------------------------------------------------------------------------
(* The waiter thread: wait_with_output, and the send of what it returned.  *)

IsOpen(s) == \E p \in Procs : s \in holds[p]

AtEnd(s) == pipe[s] = <<>> /\ ~IsOpen(s)

\* Mutant: stdout is read to its end before stderr is looked at.
ListenedInTurn == IF AtEnd("stdout") THEN Streams ELSE {"stdout"}

\* The streams a waiter that is still draining is ready to read from.
Listened == Streams

Drain(s) ==
  /\ waiter = "drain"
  /\ s \in Listened
  /\ pipe[s] # <<>>
  /\ output' = [output EXCEPT ![s] = Append(@, Head(pipe[s]))]
  /\ pipe' = [pipe EXCEPT ![s] = Tail(@)]
  /\ UNCHANGED <<threads, group>>

\* Mutant: the output is taken for complete once the child itself has exited.
LeaderIsGone == life["leader"] = "zombie"

OutputIsComplete == \A s \in Streams : AtEnd(s)

FinishDraining ==
  /\ waiter = "drain"
  /\ OutputIsComplete
  /\ waiter' = "reap"
  /\ UNCHANGED <<main, verdict, channel, group, pipe, output>>

\* The thread unwinds and drops its sender.
ReadPanics ==
  /\ waiter = "drain"
  /\ waiter' = "ended"
  /\ channel' = "disconnected"
  /\ UNCHANGED <<main, verdict, group, pipe, output>>

\* Mutant: the end of both streams is taken for the end of the child.
AssumedExited == TRUE

LeaderHasExited == life["leader"] = "zombie"

Reap ==
  /\ waiter = "reap"
  /\ LeaderHasExited
  /\ life' = [life EXCEPT !["leader"] = "reaped"]
  /\ waiter' = "send"
  /\ UNCHANGED <<main, verdict, channel, holds, blocked, status, pipe, output>>

WaitFails ==
  /\ waiter = "reap"
  /\ waiter' = "send"
  /\ UNCHANGED <<main, verdict, channel, group, pipe, output>>

\* A send that nobody is there to receive is ignored.
Send ==
  /\ waiter = "send"
  /\ waiter' = "ended"
  /\ channel' = IF main # "receive" THEN "empty"
                ELSE IF life["leader"] = "reaped" THEN "output" ELSE "error"
  /\ UNCHANGED <<main, verdict, group, pipe, output>>

WaiterWorks == (\E s \in Streams : Drain(s)) \/ FinishDraining \/ Reap \/ Send

WaiterStep == WaiterWorks \/ ReadPanics \/ WaitFails

-----------------------------------------------------------------------------
(* The main thread.                                                        *)

Return(v) == main' = "done" /\ verdict' = v

SpawnFails ==
  /\ main = "spawn"
  /\ Return(Verdict("SpawnFailed", NoToken))
  /\ UNCHANGED <<waiter, channel, group, pipe, output>>

Spawn ==
  /\ main = "spawn"
  /\ main' = "receive"
  /\ waiter' = "drain"
  /\ life' = [life EXCEPT !["leader"] = "running"]
  /\ holds' = [holds EXCEPT !["leader"] = Streams]
  /\ UNCHANGED <<verdict, channel, blocked, status, pipe, output>>

\* Mutant: what was written is believed whatever the exit status.
JudgeOutputOnly ==
  IF channel = "output" THEN ParseProxyVersionOutput(output["stdout"], output["stderr"])
  ELSE Verdict("WaitFailed", NoToken)

Judge ==
  CASE channel = "output" /\ status # "success" -> Verdict("NonZeroExit", NoToken)
    [] channel = "output" /\ status = "success" ->
         ParseProxyVersionOutput(output["stdout"], output["stderr"])
    [] OTHER -> Verdict("WaitFailed", NoToken)

Receive ==
  /\ main = "receive"
  /\ channel # "empty"
  /\ Return(Judge)
  /\ UNCHANGED <<waiter, channel, group, pipe, output>>

\* Mutant: the main thread waits for as long as it takes.
NeverGivesUp == FALSE

\* recv_timeout: two seconds have passed and there is nothing to receive.
GivesUp == main = "receive" /\ channel = "empty"

Timeout ==
  /\ GivesUp
  /\ main' = "kill"
  /\ UNCHANGED <<verdict, waiter, channel, group, pipe, output>>

\* Mutant: Child::kill instead of kill_process_group.
JustTheLeader == {"leader"}

\* Whom the signal is sent to.
KillTargets == Procs

TerminateVersionProbe ==
  /\ main = "kill"
  /\ life' = [p \in Procs |-> IF p \in KillTargets /\ Runs(p) THEN "doomed" ELSE life[p]]
  /\ Return(Verdict("TimedOut", NoToken))
  /\ UNCHANGED <<waiter, channel, holds, blocked, status, pipe, output>>

MainStep == SpawnFails \/ Spawn \/ Receive \/ Timeout \/ TerminateVersionProbe

-----------------------------------------------------------------------------

Next == MainStep \/ WaiterStep \/ GroupStep

Spec == Init /\ [][Next]_vars

\* Both threads run when they can (the timer of recv_timeout makes the main
\* thread one that always can), and what SIGKILL hits is gone some day. Nothing
\* is assumed of a process that runs, and no read or wait has to fail.
FairSpec == /\ Spec
            /\ WF_vars(MainStep)
            /\ WF_vars(WaiterWorks)
            /\ \A p \in Procs : WF_vars(Dies(p))

-----------------------------------------------------------------------------

\* Only live processes hold the pipes and block on them, the leader has a
\* status once it has ended, and the waiter is there from the spawn on.
GroupConsistent ==
  /\ \A p \in Procs : /\ blocked[p] \subseteq holds[p]
                      /\ holds[p] # {} => life[p] \in {"running", "doomed"}
  /\ status # Unexited <=> life["leader"] \in {"zombie", "reaped"}
  /\ waiter = "none" => life["leader"] = "absent"
  /\ life["leader"] = "absent" => life["helper"] = "absent"

TypeOK ==
  /\ main \in {"spawn", "receive", "kill", "done"}
  /\ verdict \in [kind : Kinds, token : Tokens]
  /\ waiter \in {"none", "drain", "reap", "send", "ended"}
  /\ channel \in {"empty", "output", "error", "disconnected"}
  /\ life \in [Procs -> Lives]
  /\ holds \in [Procs -> SUBSET Streams]
  /\ blocked \in [Procs -> SUBSET Streams]
  /\ status \in Statuses
  /\ pipe \in [Streams -> Seq(Lines)]
  /\ output \in [Streams -> Seq(Lines)]
  /\ GroupConsistent

\* A version is reported only for a binary that exited 0 by itself: never for
\* one that somebody killed, that failed after it had printed the line, or that
\* is still running (probe_proxy_version and run_proxy_version_command,
\* src/env/version_probe.rs:90-151).
OkIsAnExitedProxy ==
  verdict.kind = "ok" => /\ status = "success"
                         /\ life["leader"] = "reaped"
                         /\ TokenLooksLikeVersion(verdict.token)

\* A binary is called an impostor only when no process of its group ever wrote
\* a version line and none can any more: nothing is lost in a pipe, nor to a
\* helper that writes after the binary itself has exited
\* (src/env/version_probe.rs:118-130, parse_proxy_version_output).
NothingWrittenIsLost ==
  verdict.kind = "IdentityMismatch" =>
    \A s \in Streams : VersionLines(Written(s)) = {} /\ ~IsOpen(s)

\* "A merely chatty binary would look exactly like a hang" if the pipes were
\* not drained while it is waited for (src/env/version_probe.rs:118-126): while
\* the waiter lives, no process sits in a write to a full pipe that the waiter
\* is not ready to read.
NoMutualWait ==
  \A p \in Procs, s \in Streams :
    s \in blocked[p] /\ IsFull(s) /\ waiter \notin {"none", "ended"}
      => waiter = "drain" /\ s \in Listened

\* Killing only the direct child "would leave those helpers running and still
\* holding the pipes open" (src/env/version_probe.rs:166-181): after a timeout
\* no process of the group runs on, and none joins it.
NoGroupOutlivesTimeout ==
  verdict.kind = "TimedOut" => \A p \in Procs : ~Runs(p)

\* The probe returns, whatever the binary does and however its answer and the
\* timeout race: it "fails doctor instead of freezing it"
\* (src/env/version_probe.rs:17-26).
ProbeAlwaysReturns == <>(main = "done")

\* The waiter thread "reaps it via its own wait_with_output call once the kill
\* lands, so no separate wait() is needed" (src/env/version_probe.rs:174-176):
\* a timed-out probe leaves neither a blocked thread nor, unless the wait
\* itself failed, a zombie behind.
KilledIsReaped == verdict.kind = "TimedOut" ~> waiter = "ended"

=============================================================================
