------------------------- MODULE SystemdUnitProofs -------------------------
(***************************************************************************)
(* Lemmas about the Unit, its process and its port that both Lifecycle's   *)
(* and Diagnosis's theorems rest on: whatever the manager, the proxy,      *)
(* other programs and the calls of the CLI do, there is one unit at most,  *)
(* the last one created, and a port of ours is in its live process's hands.*)
(***************************************************************************)
EXTENDS SystemdUnit, TLAPS

UnitOK == UnitTypeOK /\ UnitConsistent

\* The endings that the steps of the world use are Endings.
LEMMA EndingsTyped ==
  /\ NotEnded \in Endings /\ CleanExit \in Endings /\ Crash \in Endings
  /\ ExecFailure \in Endings /\ FailedStops \subseteq Endings
BY DEF Endings

\* The unit an invocation creates is the only one, and its process the only
\* one of ours that may hold the port.
LEMMA CreateUnitOK == ASSUME UnitOK, CreateUnit PROVE UnitOK'
<1>1. Queued(created + 1) \in Units
  BY EndingsTyped DEF UnitOK, UnitTypeOK, Queued, Units, ActiveStates
<1>2. port \notin Nat
  BY NoneAssumption DEF UnitOK, UnitConsistent, CreateUnit, MainPid, HasProcess
<1> QED
  BY <1>1, <1>2 DEF UnitOK, UnitTypeOK, UnitConsistent, CreateUnit, Queued

\* StopUnit leaves a unit its process.
LEMMA QueueStopOK == ASSUME UnitOK, QueueStop PROVE UnitOK'
<1>1. unit \in Units /\ unit' \in Units
  BY DEF UnitOK, UnitTypeOK, QueueStop, Units
<1>2. unit'.active = unit.active /\ unit'.id = unit.id
  BY <1>1 DEF QueueStop, Units
<1>3. MainPid' = MainPid
  BY <1>1, <1>2, AbsentAssumption DEF MainPid, HasProcess
<1> QED
  BY <1>1, <1>2, <1>3 DEF UnitOK, UnitTypeOK, UnitConsistent, QueueStop, Units

\* ResetFailedUnit only touches a unit that has no process any more.
LEMMA ResetFailedOK == ASSUME UnitOK, ResetFailed PROVE UnitOK'
<1>1. CASE StateIs({"failed"})
  <2>1. unit \in Units /\ unit # Absent /\ unit.active = "failed"
    BY <1>1 DEF UnitOK, UnitTypeOK, StateIs
  <2>2. unit' \in Units /\ unit'.active = "inactive" /\ unit'.id = unit.id
        /\ unit'.job = unit.job
    BY <1>1, <2>1, EndingsTyped DEF ResetFailed, Units, ActiveStates
  <2>3. port \notin Nat
    BY <2>1, NoneAssumption DEF UnitOK, UnitConsistent, MainPid, HasProcess, Live
  <2> QED
    BY <2>1, <2>2, <2>3 DEF UnitOK, UnitTypeOK, UnitConsistent, ResetFailed
<1>2. CASE ~StateIs({"failed"})
  BY <1>2 DEF UnitOK, UnitTypeOK, UnitConsistent, ResetFailed, MainPid, HasProcess
<1> QED BY <1>1, <1>2

\* A unit whose process is gone gives the port back.
LEMMA EndsOK ==
  ASSUME UnitOK, unit # Absent, unit.active \in Live,
         NEW active \in {"inactive", "failed"}, NEW ending \in Endings,
         Ends(active, ending)
  PROVE  UnitOK'
<1>1. unit \in Units /\ unit' \in Units /\ unit'.id = unit.id /\ unit'.job = "none"
  BY DEF UnitOK, UnitTypeOK, Ends, Units, ActiveStates
<1>2. port' \in {Foreign, None}
  BY NoneAssumption, ForeignAssumption
     DEF UnitOK, UnitTypeOK, UnitConsistent, Ends, FreedBy, MainPid, HasProcess
<1> QED
  BY <1>1, <1>2, NoneAssumption, ForeignAssumption
     DEF UnitOK, UnitTypeOK, UnitConsistent, Ends

\* Nothing that happens on its own breaks the unit, its process or its port.
LEMMA WorldStepOK == ASSUME UnitOK, WorldStep PROVE UnitOK'
<1> USE DEF UnitOK, UnitTypeOK, UnitConsistent
<1>1. CASE DispatchStart
  <2>1. unit \in Units /\ unit # Absent /\ unit.job = "start" /\ unit.active = "inactive"
    BY <1>1 DEF DispatchStart, JobIs
  <2>2. unit' \in Units /\ unit'.id = unit.id /\ unit'.job = "none"
    BY <1>1, <2>1 DEF DispatchStart, Units, ActiveStates
  <2>3. port \notin Nat
    BY <2>1, NoneAssumption DEF MainPid, HasProcess, Live
  <2> QED BY <1>1, <2>1, <2>2, <2>3 DEF DispatchStart
<1>2. CASE ExecSucceeds
  <2>1. unit \in Units /\ unit # Absent /\ unit.active = "activating"
    BY <1>2 DEF ExecSucceeds, StateIs
  <2>2. unit' \in Units /\ unit'.id = unit.id /\ unit'.job = unit.job
        /\ unit'.active = "active"
    BY <1>2, <2>1 DEF ExecSucceeds, Units, ActiveStates
  <2>3. MainPid' = MainPid
    BY <2>1, <2>2, AbsentAssumption DEF MainPid, HasProcess, Live
  <2> QED BY <1>2, <2>1, <2>2, <2>3 DEF ExecSucceeds
<1>3. CASE ExecFails
  BY <1>3, EndsOK, EndingsTyped DEF ExecFails, StateIs, Live
<1>4. CASE BindsPort
  <2>1. unit \in Units /\ unit # Absent /\ unit.active = "active"
    BY <1>4 DEF BindsPort, StateIs
  <2>2. unit.id \in Nat
    BY <2>1 DEF Units
  <2> QED BY <1>4, <2>1, <2>2 DEF BindsPort, MainPid, HasProcess, Live
<1>5. CASE ProxyCrashes
  BY <1>5, EndsOK, EndingsTyped DEF ProxyCrashes, StateIs, Live
<1>6. CASE ProxyExits
  BY <1>6, EndsOK, EndingsTyped DEF ProxyExits, StateIs, Live
<1>7. CASE DispatchStop
  <2>1. unit \in Units /\ unit # Absent /\ unit.active \in {"activating", "active"}
    BY <1>7 DEF DispatchStop, JobIs
  <2>2. unit' \in Units /\ unit'.id = unit.id /\ unit'.job = "none"
        /\ unit'.active = "deactivating"
    BY <1>7, <2>1 DEF DispatchStop, Units, ActiveStates
  <2>3. MainPid' = MainPid
    BY <2>1, <2>2, AbsentAssumption DEF MainPid, HasProcess, Live
  <2> QED BY <1>7, <2>1, <2>2, <2>3 DEF DispatchStop
<1>8. CASE ClosesPort
  BY <1>8, NoneAssumption DEF ClosesPort
<1>9. CASE StopsCleanly
  BY <1>9, EndsOK, EndingsTyped DEF StopsCleanly, StateIs, Live
<1>10. CASE StopFails
  BY <1>10, EndsOK, EndingsTyped DEF StopFails, StateIs, Live
<1>11. CASE Unloads
  <2>1. port \notin Nat
    BY <1>11, NoneAssumption DEF Unloads, StateIs, MainPid, HasProcess, Live
  <2> QED BY <1>11, <2>1 DEF Unloads
<1>12. CASE StartAges
  <2>1. unit \in Units /\ unit' \in Units /\ unit'.id = unit.id
        /\ unit'.job = unit.job /\ unit'.active = unit.active
    BY <1>12 DEF StartAges, Units
  <2>2. MainPid' = MainPid
    BY <1>12, <2>1, AbsentAssumption DEF StartAges, MainPid, HasProcess
  <2> QED BY <1>12, <2>1, <2>2 DEF StartAges
<1>13. CASE ForeignBinds
  BY <1>13, ForeignAssumption DEF ForeignBinds
<1>14. CASE ForeignLeaves
  BY <1>14, NoneAssumption DEF ForeignLeaves
<1> QED
  BY <1>1, <1>2, <1>3, <1>4, <1>5, <1>6, <1>7, <1>8, <1>9, <1>10, <1>11, <1>12,
     <1>13, <1>14 DEF WorldStep, ManagerStep

\* Every world an invocation may find has one unit at most, the last one
\* created, and a port of ours only in its hands.
LEMMA FoundWorldsTyped ==
  ASSUME NEW w \in FoundWorlds
  PROVE  /\ w.unit \in Units \cup {Absent}
         /\ w.port \in Nat \cup {Foreign, None}
         /\ w.created \in Nat
         /\ w.unit # Absent =>
              /\ w.unit.id = w.created
              /\ w.unit.job = "start" => w.unit.active = "inactive"
              /\ w.unit.job # "stop"
         /\ w.port \in Nat => /\ w.unit # Absent
                              /\ w.unit.active \in Live
                              /\ w.port = w.unit.id
<1>1. /\ \A aged \in BOOLEAN : Up(1, aged) \in Units
      /\ Crashed(1) \in Units /\ Queued(1) \in Units
  <2>1. \A aged \in BOOLEAN : Up(1, aged) \in Units
    BY EndingsTyped DEF Up, Units, ActiveStates
  <2>2. Crashed(1) \in Units
    BY EndingsTyped DEF Crashed, Units, ActiveStates
  <2>3. Queued(1) \in Units
    BY EndingsTyped DEF Queued, Units, ActiveStates
  <2> QED BY <2>1, <2>2, <2>3
<1>2. CASE w.unit = Absent /\ w.port \in {None, Foreign} /\ w.created = 0
  BY <1>2, NoneAssumption, ForeignAssumption
<1>3. CASE w.unit \in {Up(1, aged) : aged \in BOOLEAN} /\ w.port = 1 /\ w.created = 1
  BY <1>1, <1>3, AbsentAssumption DEF Up, Live
<1>4. CASE w.unit \in {Crashed(1), Queued(1)} /\ w.port \in {None, Foreign} /\ w.created = 1
  <2>1. w.port \notin Nat
    BY <1>4, NoneAssumption, ForeignAssumption
  <2>2. w.unit \in Units
    BY <1>1, <1>4
  <2>3. w.unit.id = 1 /\ (w.unit.job = "start" => w.unit.active = "inactive")
        /\ w.unit.job # "stop"
    BY <1>4 DEF Crashed, Queued
  <2> QED BY <1>4, <2>1, <2>2, <2>3
<1> QED BY <1>2, <1>3, <1>4 DEF FoundWorlds

\* So it is when it is found.
LEMMA FoundWorldsOK ==
  ASSUME NEW w \in FoundWorlds, unit = w.unit, port = w.port, created = w.created
  PROVE  UnitOK
BY FoundWorldsTyped DEF UnitOK, UnitTypeOK, UnitConsistent, MainPid, HasProcess

\* And when another Connection is turned to.
LEMMA TurnToWorldOK ==
  ASSUME NEW w \in FoundWorlds, unit' = w.unit, port' = w.port, created' = w.created
  PROVE  UnitOK'
BY FoundWorldsTyped DEF UnitOK, UnitTypeOK, UnitConsistent, MainPid, HasProcess

=============================================================================
