------------------------ MODULE VersionProbeProofs ------------------------
(***************************************************************************)
(* Theorems about VersionProbe, for any lines the binary may write, any    *)
(* pipe capacity and any amount of output.                                 *)
(***************************************************************************)
EXTENDS VersionProbe, TLAPS, WellFoundedInduction

-----------------------------------------------------------------------------
(* The version line.                                                       *)

\* A set of line numbers has a least one.
LEMMA MinIsIn == ASSUME NEW S \in SUBSET Nat, S # {} PROVE Min(S) \in S
<1> DEFINE Less == {pair \in Nat \X Nat : pair[1] < pair[2]}
<1>1. IsWellFoundedOn(Less, Nat)
  BY NatLessThanWellFounded, Zenon DEF OpToRel
<1> HIDE DEF Less
<1>2. PICK m \in S : \A n \in S : <<n, m>> \notin Less
  BY <1>1, WFMin, Zenon
<1>3. ASSUME NEW n \in S PROVE m <= n
  <2>1. <<n, m>> \notin Less
    BY <1>2
  <2> QED BY <2>1 DEF Less
<1> QED BY <1>3, Zenon DEF Min

\* The first version line of a text that has one carries a version.
LEMMA FirstVersionLooksLikeOne ==
  ASSUME NEW text \in Seq(Lines), VersionLines(text) # {}
  PROVE  FirstVersion(text) \in Tokens /\ TokenLooksLikeVersion(FirstVersion(text))
<1>1. VersionLines(text) \subseteq Nat
  BY DEF VersionLines
<1>2. Min(VersionLines(text)) \in VersionLines(text)
  BY <1>1, MinIsIn
<1>3. PICK i \in 1..Len(text) : i = Min(VersionLines(text)) /\ IsVersionLine(text[i])
  BY <1>2 DEF VersionLines
<1>4. text[i] \in Lines
  BY <1>3
<1> QED
  BY <1>3, <1>4, LinesAssumption DEF FirstVersion, IsVersionLine

\* What parsing answers: a version that looks like one, or a mismatch when
\* neither stream has a version line.
LEMMA ParseSound ==
  ASSUME NEW out \in Seq(Lines), NEW err \in Seq(Lines)
  PROVE  LET v == ParseProxyVersionOutput(out, err) IN
         /\ v \in [kind : {"ok", "IdentityMismatch"}, token : Tokens]
         /\ v.kind = "ok" => TokenLooksLikeVersion(v.token)
         /\ v.kind = "IdentityMismatch" =>
              VersionLines(out) = {} /\ VersionLines(err) = {}
<1>1. NoToken \in Tokens
  BY DEF NoToken, Tokens
<1>2. CASE VersionLines(out) # {}
  BY <1>2, FirstVersionLooksLikeOne DEF ParseProxyVersionOutput, Verdict
<1>3. CASE VersionLines(out) = {} /\ VersionLines(err) # {}
  BY <1>3, FirstVersionLooksLikeOne DEF ParseProxyVersionOutput, Verdict
<1>4. CASE VersionLines(out) = {} /\ VersionLines(err) = {}
  BY <1>1, <1>4 DEF ParseProxyVersionOutput, Verdict
<1> QED BY <1>2, <1>3, <1>4

-----------------------------------------------------------------------------
(* Types.                                                                  *)

\* The first state is typed.
LEMMA InitTyped == Init => TypeOK
<1> SUFFICES ASSUME Init PROVE TypeOK
  OBVIOUS
<1>1. NoToken \in Tokens
  BY DEF NoToken, Tokens
<1> QED
  BY <1>1 DEF Init, TypeOK, GroupConsistent, Verdict, Kinds, Procs, Lives, Streams,
              Statuses, Unexited

\* What the binary and its helper do keeps the types, and who holds what.
LEMMA GroupTyped == ASSUME TypeOK, GroupStep PROVE TypeOK'
<1> USE DEF threads, Procs, Streams, Lives, Statuses, Unexited, Signaled, Runs, Acts
<1>1. ASSUME NEW p \in Procs, NEW s \in Streams, Write(p, s) PROVE TypeOK'
  <2>1. PICK line \in Lines : pipe' = [pipe EXCEPT ![s] = Append(@, line)]
    BY <1>1 DEF Write
  <2>2. pipe' \in [Streams -> Seq(Lines)]
    BY <2>1 DEF TypeOK
  <2> QED BY <1>1, <2>2 DEF TypeOK, GroupConsistent, Write
<1>2. ASSUME NEW p \in Procs, NEW s \in Streams, Blocks(p, s) PROVE TypeOK'
  BY <1>2 DEF TypeOK, GroupConsistent, Blocks
<1>3. ASSUME NEW p \in Procs, NEW s \in Streams, Closes(p, s) PROVE TypeOK'
  BY <1>3 DEF TypeOK, GroupConsistent, Closes
<1>4. ASSUME Forks PROVE TypeOK'
  BY <1>4 DEF TypeOK, GroupConsistent, Forks
<1>5. ASSUME NEW p \in Procs, Runs(p) \/ life[p] = "doomed",
             NEW s \in Statuses \ {Unexited}, Ends(p, s)
      PROVE  TypeOK'
  BY <1>5 DEF TypeOK, GroupConsistent, Ends
<1>6. ASSUME NEW p \in Procs, Exits(p) \/ IsKilledByOthers(p) \/ Dies(p) PROVE TypeOK'
  BY <1>5, <1>6 DEF Exits, IsKilledByOthers, Dies
<1> QED BY <1>1, <1>2, <1>3, <1>4, <1>6 DEF GroupStep

\* What the waiter thread does keeps the types.
LEMMA WaiterTyped == ASSUME TypeOK, WaiterStep PROVE TypeOK'
<1> USE DEF threads, group, Procs, Streams, Lives, Statuses, Unexited, Signaled
<1>1. ASSUME NEW s \in Streams, Drain(s) PROVE TypeOK'
  <2>1. /\ pipe[s] \in Seq(Lines) /\ pipe[s] # <<>>
        /\ output[s] \in Seq(Lines)
    BY <1>1 DEF TypeOK, Drain
  <2>2. Head(pipe[s]) \in Lines /\ Tail(pipe[s]) \in Seq(Lines)
    BY <2>1
  <2>3. pipe' \in [Streams -> Seq(Lines)] /\ output' \in [Streams -> Seq(Lines)]
    BY <1>1, <2>1, <2>2 DEF TypeOK, Drain
  <2> QED BY <1>1, <2>3 DEF TypeOK, GroupConsistent, Drain
<1>2. ASSUME FinishDraining \/ ReadPanics \/ WaitFails \/ Send PROVE TypeOK'
  BY <1>2 DEF TypeOK, GroupConsistent, FinishDraining, ReadPanics, WaitFails, Send
<1>3. ASSUME Reap PROVE TypeOK'
  BY <1>3 DEF TypeOK, GroupConsistent, Reap, LeaderHasExited
<1> QED BY <1>1, <1>2, <1>3 DEF WaiterStep, WaiterWorks

\* The answers are verdicts.
LEMMA JudgeTyped ==
  ASSUME TypeOK PROVE Judge \in [kind : Kinds \ {"pending"}, token : Tokens]
<1>1. output["stdout"] \in Seq(Lines) /\ output["stderr"] \in Seq(Lines)
  BY DEF TypeOK, Streams
<1>2. NoToken \in Tokens
  BY DEF NoToken, Tokens
<1>3. ParseProxyVersionOutput(output["stdout"], output["stderr"])
        \in [kind : Kinds \ {"pending"}, token : Tokens]
  BY <1>1, ParseSound DEF Kinds
<1> QED BY <1>2, <1>3 DEF Judge, Verdict, Kinds

\* What the main thread does keeps the types.
LEMMA MainTyped ==
  ASSUME TypeOK, MainStep, waiter = "none" \/ main # "spawn", waiter = "none" => main # "kill"
  PROVE  TypeOK'
<1> USE DEF group, Procs, Streams, Lives, Statuses, Unexited, Signaled, Runs
<1>1. NoToken \in Tokens
  BY DEF NoToken, Tokens
<1>2. CASE SpawnFails
  BY <1>1, <1>2 DEF TypeOK, GroupConsistent, SpawnFails, Return, Verdict, Kinds
<1>3. CASE Spawn
  BY <1>3 DEF TypeOK, GroupConsistent, Spawn
<1>4. CASE Receive
  BY <1>4, JudgeTyped DEF TypeOK, GroupConsistent, Receive, Return
<1>5. CASE Timeout
  BY <1>5 DEF TypeOK, GroupConsistent, Timeout, GivesUp
<1>6. CASE TerminateVersionProbe
  <2>1. verdict' \in [kind : Kinds, token : Tokens] /\ main' = "done"
    BY <1>1, <1>6 DEF TerminateVersionProbe, Return, Verdict, Kinds
  <2> QED BY <1>6, <2>1 DEF TypeOK, GroupConsistent, TerminateVersionProbe
<1> QED BY <1>2, <1>3, <1>4, <1>5, <1>6 DEF MainStep

-----------------------------------------------------------------------------
(* The inductive invariant: how far the two threads have come, and that    *)
(* what an answer rests on does not change any more.                       *)

Phases ==
  /\ verdict.kind = "pending" <=> main # "done"
  /\ main = "spawn" => waiter = "none" /\ channel = "empty"
  /\ waiter = "none" => main = "spawn" \/ verdict.kind = "SpawnFailed"
  /\ waiter \in {"none", "drain", "reap"} => life["leader"] # "reaped"

\* Past the end of both streams nothing is written any more.
Settled ==
  /\ waiter = "reap" => OutputIsComplete
  /\ life["leader"] = "reaped" => OutputIsComplete
  /\ waiter = "send" => OutputIsComplete
  /\ channel = "output" => life["leader"] = "reaped"
  /\ verdict.kind = "IdentityMismatch" => life["leader"] = "reaped"

IInv == TypeOK /\ Phases /\ Settled
          /\ OkIsAnExitedProxy /\ NothingWrittenIsLost /\ NoGroupOutlivesTimeout

\* The invariant holds at first.
LEMMA IInvInit == Init => IInv
<1> SUFFICES ASSUME Init PROVE IInv
  OBVIOUS
<1>1. TypeOK
  BY InitTyped
<1> QED
  BY <1>1 DEF Init, IInv, Phases, Settled, OkIsAnExitedProxy, NothingWrittenIsLost,
              NoGroupOutlivesTimeout, Verdict, Procs, Runs

\* When nothing is left to read and nobody can write, it stays so whatever the
\* binary and its helper do, and the leader stays reaped.
LEMMA CompleteStays ==
  ASSUME TypeOK, GroupStep
  PROVE  /\ OutputIsComplete => OutputIsComplete' /\ pipe' = pipe
         /\ output' = output /\ UNCHANGED threads
         /\ life["leader"] = "reaped" => life'["leader"] = "reaped" /\ status' = status
         /\ life["leader"] # "reaped" => life'["leader"] # "reaped"
<1> USE DEF threads, Procs, Streams, Lives, Runs, Acts, OutputIsComplete, AtEnd, IsOpen
<1>1. ASSUME NEW p \in Procs, NEW s \in Streams, Write(p, s) \/ Blocks(p, s) \/ Closes(p, s)
      PROVE  /\ OutputIsComplete => OutputIsComplete' /\ pipe' = pipe
             /\ output' = output /\ UNCHANGED threads
             /\ life["leader"] = "reaped" => life'["leader"] = "reaped" /\ status' = status
             /\ life["leader"] # "reaped" => life'["leader"] # "reaped"
  BY <1>1 DEF TypeOK, Write, Blocks, Closes
<1>2. CASE Forks
  BY <1>2 DEF TypeOK, Forks
<1>3. ASSUME NEW p \in Procs, Exits(p) \/ IsKilledByOthers(p) \/ Dies(p)
      PROVE  /\ OutputIsComplete => OutputIsComplete' /\ pipe' = pipe
             /\ output' = output /\ UNCHANGED threads
             /\ life["leader"] = "reaped" => life'["leader"] = "reaped" /\ status' = status
             /\ life["leader"] # "reaped" => life'["leader"] # "reaped"
  BY <1>3 DEF TypeOK, Exits, IsKilledByOthers, Dies, Ends
<1> QED BY <1>1, <1>2, <1>3 DEF GroupStep

\* No process of the group starts to run once its leader does not.
LEMMA NobodyJoins ==
  ASSUME TypeOK, GroupStep, \A p \in Procs : ~Runs(p)
  PROVE  \A p \in Procs : ~Runs(p)'
<1> USE DEF Procs, Lives, Runs, Acts
<1>1. ASSUME NEW p \in Procs, NEW s \in Streams, Write(p, s) \/ Blocks(p, s) \/ Closes(p, s)
      PROVE  life' = life
  BY <1>1 DEF Write, Blocks, Closes
<1>2. CASE Forks
  BY <1>2 DEF Forks
<1>3. ASSUME NEW p \in Procs, Exits(p) \/ IsKilledByOthers(p) \/ Dies(p)
      PROVE  \A q \in Procs : life'[q] # "running"
  BY <1>3 DEF TypeOK, Exits, IsKilledByOthers, Dies, Ends
<1> QED BY <1>1, <1>2, <1>3 DEF GroupStep

\* What was said of a finished probe stays true while its processes move.
LEMMA GroupKeeps == ASSUME IInv, GroupStep PROVE IInv'
<1>1. TypeOK'
  BY GroupTyped DEF IInv
<1>2. Phases' /\ Settled'
  BY CompleteStays DEF IInv, Phases, Settled, threads
<1>3. OkIsAnExitedProxy'
  BY CompleteStays DEF IInv, OkIsAnExitedProxy, threads
<1>4. NothingWrittenIsLost'
  <2> SUFFICES ASSUME verdict.kind = "IdentityMismatch"
               PROVE  \A s \in Streams : (VersionLines(Written(s)) = {} /\ ~IsOpen(s))'
    BY CompleteStays DEF IInv, NothingWrittenIsLost, threads
  <2>1. OutputIsComplete' /\ pipe' = pipe /\ output' = output
    BY CompleteStays DEF IInv, Settled
  <2>2. \A s \in Streams : Written(s)' = Written(s)
    BY <2>1 DEF Written
  <2> QED
    BY <2>1, <2>2 DEF IInv, NothingWrittenIsLost, OutputIsComplete, AtEnd, VersionLines
<1>5. NoGroupOutlivesTimeout'
  BY CompleteStays, NobodyJoins DEF IInv, NoGroupOutlivesTimeout, threads
<1> QED BY <1>1, <1>2, <1>3, <1>4, <1>5 DEF IInv

\* The waiter thread changes no verdict, and reads nothing past the end.
LEMMA WaiterKeeps == ASSUME IInv, WaiterStep PROVE IInv'
<1> USE DEF threads, group
<1>1. TypeOK'
  BY WaiterTyped DEF IInv
<1>2. main' = main /\ verdict' = verdict /\ holds' = holds /\ status' = status
  BY DEF WaiterStep, WaiterWorks, Drain, FinishDraining, ReadPanics, WaitFails, Send, Reap
<1>3. CASE \E s \in Streams : Drain(s)
  <2>1. PICK s \in Streams : Drain(s)
    BY <1>3
  <2>2. life["leader"] # "reaped" /\ UNCHANGED <<threads, group>>
    BY <2>1 DEF IInv, Phases, Drain
  <2>3. Phases' /\ Settled'
    BY <2>1, <2>2 DEF IInv, Phases, Settled, Drain
  <2>4. OkIsAnExitedProxy' /\ NoGroupOutlivesTimeout'
    BY <2>2 DEF IInv, OkIsAnExitedProxy, NoGroupOutlivesTimeout, Runs
  <2>5. NothingWrittenIsLost'
    BY <2>2 DEF IInv, NothingWrittenIsLost, Settled
  <2> QED BY <1>1, <2>3, <2>4, <2>5 DEF IInv
<1>4. CASE FinishDraining \/ ReadPanics \/ WaitFails \/ Send
  <2>1. UNCHANGED <<group, pipe, output, main, verdict>>
    BY <1>4 DEF FinishDraining, ReadPanics, WaitFails, Send
  <2>2. OutputIsComplete' = OutputIsComplete
    BY <2>1 DEF OutputIsComplete, AtEnd, IsOpen
  <2>3. Phases'
    BY <1>4, <2>1 DEF IInv, Phases, FinishDraining, ReadPanics, WaitFails, Send
  <2>4. Settled'
    BY <1>4, <2>1, <2>2 DEF IInv, Phases, Settled, FinishDraining, ReadPanics, WaitFails, Send
  <2>5. OkIsAnExitedProxy' /\ NoGroupOutlivesTimeout'
    BY <2>1 DEF IInv, OkIsAnExitedProxy, NoGroupOutlivesTimeout, Runs
  <2>6. NothingWrittenIsLost'
    BY <2>1 DEF IInv, NothingWrittenIsLost, Written, IsOpen, VersionLines
  <2> QED BY <1>1, <2>3, <2>4, <2>5, <2>6 DEF IInv
<1>5. CASE Reap
  <2>1. life' = [life EXCEPT !["leader"] = "reaped"] /\ life["leader"] = "zombie"
        /\ UNCHANGED <<main, verdict, channel, holds, blocked, status, pipe, output>>
        /\ waiter = "reap" /\ waiter' = "send"
    BY <1>5 DEF Reap, LeaderHasExited
  <2>2. life'["leader"] = "reaped"
    BY <2>1 DEF IInv, TypeOK, Procs
  <2>3. OutputIsComplete' = OutputIsComplete
    BY <2>1 DEF OutputIsComplete, AtEnd, IsOpen
  <2>4. Phases' /\ Settled'
    BY <2>1, <2>2, <2>3 DEF IInv, Phases, Settled
  <2>5. OkIsAnExitedProxy'
    BY <2>1, <2>2 DEF IInv, OkIsAnExitedProxy
  <2>6. NoGroupOutlivesTimeout'
    BY <2>1 DEF IInv, TypeOK, NoGroupOutlivesTimeout, Runs, Procs
  <2>7. NothingWrittenIsLost'
    BY <2>1 DEF IInv, NothingWrittenIsLost, Written, IsOpen, VersionLines
  <2> QED BY <1>1, <2>4, <2>5, <2>6, <2>7 DEF IInv
<1> QED BY <1>3, <1>4, <1>5 DEF WaiterStep, WaiterWorks

\* A received answer is judged by what is settled when it is received.
LEMMA ReceiveKeeps == ASSUME IInv, Receive PROVE IInv'
<1> USE DEF group
<1>1. TypeOK'
  BY MainTyped DEF IInv, Phases, MainStep, Receive
<1>2. /\ UNCHANGED <<waiter, channel, group, pipe, output>>
      /\ main = "receive" /\ main' = "done" /\ verdict' = Judge
  BY DEF Receive, Return
<1>3. OutputIsComplete' = OutputIsComplete
  BY <1>2 DEF OutputIsComplete, AtEnd, IsOpen
<1>4. Judge \in [kind : Kinds \ {"pending"}, token : Tokens]
  BY JudgeTyped DEF IInv
<1>5. output["stdout"] \in Seq(Lines) /\ output["stderr"] \in Seq(Lines)
  BY DEF IInv, TypeOK, Streams
<1>6. CASE channel = "output" /\ status = "success"
  <2>1. Judge = ParseProxyVersionOutput(output["stdout"], output["stderr"])
    BY <1>6 DEF Judge
  <2>2. /\ verdict'.kind \in {"ok", "IdentityMismatch"}
        /\ verdict'.kind = "ok" => TokenLooksLikeVersion(verdict'.token)
        /\ verdict'.kind = "IdentityMismatch" =>
             VersionLines(output["stdout"]) = {} /\ VersionLines(output["stderr"]) = {}
    BY <1>2, <1>5, <2>1, ParseSound
  <2>3. life["leader"] = "reaped" /\ OutputIsComplete
    BY <1>6 DEF IInv, Settled
  <2>4. \A s \in Streams : Written(s)' = output[s] /\ ~IsOpen(s)'
    BY <1>2, <1>5, <2>3 DEF Written, OutputIsComplete, AtEnd, IsOpen, Streams, IInv, TypeOK
  <2>5. NothingWrittenIsLost'
    BY <2>2, <2>4 DEF NothingWrittenIsLost, Streams, VersionLines
  <2>6. OkIsAnExitedProxy'
    BY <1>2, <1>6, <2>2, <2>3 DEF OkIsAnExitedProxy, TokenLooksLikeVersion
  <2>7. NoGroupOutlivesTimeout' /\ Phases' /\ Settled'
    BY <1>2, <1>3, <2>2, <2>3 DEF IInv, NoGroupOutlivesTimeout, Phases, Settled
  <2> QED BY <1>1, <2>5, <2>6, <2>7 DEF IInv
<1>7. CASE ~(channel = "output" /\ status = "success")
  <2>1. verdict'.kind \in {"NonZeroExit", "WaitFailed"}
    BY <1>2, <1>7 DEF Judge, Verdict
  <2>2. NothingWrittenIsLost' /\ OkIsAnExitedProxy' /\ NoGroupOutlivesTimeout'
    BY <2>1 DEF NothingWrittenIsLost, OkIsAnExitedProxy, NoGroupOutlivesTimeout
  <2>3. Phases' /\ Settled'
    BY <1>2, <1>3, <2>1 DEF IInv, Phases, Settled
  <2> QED BY <1>1, <2>2, <2>3 DEF IInv
<1> QED BY <1>6, <1>7

\* The other steps of the main thread.
LEMMA MainKeeps == ASSUME IInv, MainStep PROVE IInv'
<1> USE DEF group
<1>1. TypeOK'
  BY MainTyped DEF IInv, Phases
<1>2. CASE SpawnFails
  <2>1. verdict'.kind = "SpawnFailed" /\ main' = "done" /\ waiter = "none"
        /\ channel = "empty" /\ UNCHANGED <<waiter, channel, group, pipe, output>>
    BY <1>2 DEF SpawnFails, Return, Verdict, IInv, Phases
  <2> QED
    BY <1>1, <2>1 DEF IInv, Phases, Settled, OkIsAnExitedProxy, NothingWrittenIsLost,
                      NoGroupOutlivesTimeout
<1>3. CASE Spawn
  <2>1. life'["leader"] = "running" /\ verdict' = verdict /\ verdict.kind = "pending"
        /\ main' = "receive" /\ waiter' = "drain" /\ channel' = "empty"
    BY <1>3 DEF Spawn, IInv, TypeOK, Procs, Phases
  <2> QED
    BY <1>1, <2>1 DEF IInv, Phases, Settled, OkIsAnExitedProxy, NothingWrittenIsLost,
                      NoGroupOutlivesTimeout
<1>4. CASE Timeout
  <2>1. verdict' = verdict /\ verdict.kind = "pending" /\ main' = "kill"
        /\ UNCHANGED <<waiter, channel, group, pipe, output>> /\ waiter # "none"
    BY <1>4 DEF Timeout, GivesUp, IInv, Phases
  <2>2. OutputIsComplete' = OutputIsComplete
    BY <2>1 DEF OutputIsComplete, AtEnd, IsOpen
  <2> QED
    BY <1>1, <2>1, <2>2 DEF IInv, Phases, Settled, OkIsAnExitedProxy, NothingWrittenIsLost,
                      NoGroupOutlivesTimeout
<1>5. CASE TerminateVersionProbe
  <2>1. verdict'.kind = "TimedOut" /\ main' = "done" /\ waiter # "none"
        /\ UNCHANGED <<waiter, channel, holds, blocked, status, pipe, output>>
    BY <1>5 DEF TerminateVersionProbe, Return, Verdict, IInv, Phases
  <2>2. OutputIsComplete' = OutputIsComplete
    BY <2>1 DEF OutputIsComplete, AtEnd, IsOpen
  <2>3. life'["leader"] = "reaped" <=> life["leader"] = "reaped"
    BY <1>5 DEF TerminateVersionProbe, Procs, Runs, IInv, TypeOK
  <2>4. \A p \in Procs : life'[p] # "running"
    BY <1>5 DEF TerminateVersionProbe, KillTargets, Runs
  <2> QED
    BY <1>1, <2>1, <2>2, <2>3, <2>4 DEF IInv, Phases, Settled, OkIsAnExitedProxy,
       NothingWrittenIsLost, NoGroupOutlivesTimeout, Runs
<1> QED BY <1>2, <1>3, <1>4, <1>5, ReceiveKeeps DEF MainStep

\* Every step keeps it.
LEMMA IInvNext == IInv /\ [Next]_vars => IInv'
<1> SUFFICES ASSUME IInv, [Next]_vars PROVE IInv'
  OBVIOUS
<1>1. CASE UNCHANGED vars
  BY <1>1 DEF vars, threads, group, IInv, TypeOK, GroupConsistent, Phases, Settled,
     OkIsAnExitedProxy, NothingWrittenIsLost, NoGroupOutlivesTimeout, OutputIsComplete,
     AtEnd, IsOpen, Written, VersionLines, Runs
<1> QED BY <1>1, GroupKeeps, WaiterKeeps, MainKeeps DEF Next

\* The inductive invariant: how far the threads have come and what is settled
\* by then (src/env/version_probe.rs:86-181).
THEOREM ProbeInvariance == Spec => []IInv
<1> QED BY IInvInit, IInvNext, PTL DEF Spec

\* Every variable of the probe keeps its type, and only live processes hold the
\* pipes (src/env/version_probe.rs:106-181).
THEOREM ProbeTypeCorrect == Spec => []TypeOK
<1>1. IInv => TypeOK
  BY DEF IInv
<1> QED BY <1>1, ProbeInvariance, PTL

\* Only a binary that exited 0 by itself, with a token that looks like a version,
\* passes (src/env/version_probe.rs:90-98, 224-230).
THEOREM OnlyAnExitedProxyPasses == Spec => []OkIsAnExitedProxy
<1>1. IInv => OkIsAnExitedProxy
  BY DEF IInv
<1> QED BY <1>1, ProbeInvariance, PTL

\* No version line is lost, whoever of the group wrote it and whenever
\* (src/env/version_probe.rs:118-130).
THEOREM NothingIsLost == Spec => []NothingWrittenIsLost
<1>1. IInv => NothingWrittenIsLost
  BY DEF IInv
<1> QED BY <1>1, ProbeInvariance, PTL

\* The kill reaches the whole group, and nobody joins it afterwards
\* (src/env/version_probe.rs:166-181).
THEOREM TimeoutEndsTheGroup == Spec => []NoGroupOutlivesTimeout
<1>1. IInv => NoGroupOutlivesTimeout
  BY DEF IInv
<1> QED BY <1>1, ProbeInvariance, PTL

\* A process is never left blocked on a pipe that the waiter does not drain
\* (src/env/version_probe.rs:118-126).
THEOREM ChattyIsNotAHang == Spec => []NoMutualWait
<1>1. IInv => NoMutualWait
  BY DEF IInv, TypeOK, GroupConsistent, Settled, NoMutualWait, OutputIsComplete, AtEnd,
         IsOpen, Listened
<1> QED BY <1>1, ProbeInvariance, PTL

=============================================================================
