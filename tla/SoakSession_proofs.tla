-------------------------- MODULE SoakSession_proofs --------------------------
(* Proofs about SoakSession for every set of controllers, every number of      *)
(* campaigns, commands, polls and faults, and every choice of fault kinds.     *)
EXTENDS SoakSession, TLAPS

(* A command's record of locals keeps its type field by field. *)
LEMMA JobFields ==
  \A j \in Job :
    /\ \A op \in {"start", "gate", "stop", "backup"} : [j EXCEPT !.op = op] \in Job
    /\ \A c \in Campaign \cup {None} :
         [j EXCEPT !.mine = c] \in Job /\ [j EXCEPT !.target = c] \in Job
    /\ \A g \in Gates \cup {"unavailable"} : [j EXCEPT !.seen = g] \in Job
    /\ \A n \in 0 .. MaxPolls : [j EXCEPT !.polls = n] \in Job
    /\ \A b \in BOOLEAN :
         /\ [j EXCEPT !.green = b] \in Job /\ [j EXCEPT !.obs = b] \in Job
         /\ [j EXCEPT !.lau = b] \in Job /\ [j EXCEPT !.wat = b] \in Job
         /\ [j EXCEPT !.fin = b] \in Job
BY DEF Job

(* The locals a command starts with. *)
LEMMA NewJob ==
  /\ NoJob \in Job
  /\ \A op \in {"start", "gate", "stop", "backup"} : [NoJob EXCEPT !.op = op] \in Job
<1>1. NoJob \in Job
  BY SessionAssumption DEF NoJob, Job, Gates, None
<1>2. QED
  BY <1>1, JobFields

(* Ending the gate wait keeps the locals typed. *)
LEMMA GateWaitJob ==
  ASSUME NEW j \in Job, NEW b \in BOOLEAN
  PROVE  [j EXCEPT !.green = b, !.seen = "pending", !.polls = 0] \in Job
<1> DEFINE j1 == [j EXCEPT !.green = b]
           j2 == [j1 EXCEPT !.seen = "pending"]
<1>1. j1 \in Job
  BY JobFields
<1>2. j2 \in Job
  BY <1>1, JobFields DEF Gates
<1>3. [j2 EXCEPT !.polls = 0] \in Job
  <2>1. 0 \in 0 .. MaxPolls
    BY SessionAssumption
  <2>2. \A i \in Job : [i EXCEPT !.polls = 0] \in Job
    BY <2>1, JobFields
  <2>3. QED
    BY <1>2, <2>2
<1>4. QED
  BY <1>3

(* Replacing one command's locals. *)
LEMMA JobUpdate ==
  ASSUME NEW js \in [Controllers -> Job], NEW k \in Controllers, NEW j \in Job
  PROVE  [js EXCEPT ![k] = j] \in [Controllers -> Job]
OBVIOUS

(* Killing trees keeps the types of the launchers. *)
LEMMA KillTreesType ==
  ASSUME NEW C, ProcessType, KillTrees(C)
  PROVE  /\ root' \in [Campaign -> BOOLEAN] /\ clients' \in [Campaign -> BOOLEAN]
         /\ phase' \in [Campaign -> Phases]
BY DEF ProcessType, KillTrees, Phases

(* So does ending a watcher, for the watchers. *)
LEMMA WatcherEndsType ==
  ASSUME NEW c \in Campaign, WatcherType, WatcherEnds(c)
  PROVE  WatcherType'
BY DEF WatcherType, WatcherEnds, Watchers, NoSample, Sample, None

(* A stop that is under way has a campaign to stop. *)
TargetInv ==
  \A k \in Controllers : pc[k] \in StopSteps => job[k].target \in Campaign

(* The type invariant holds initially. *)
LEMMA TypeInit == Init => TypeOK
<1> SUFFICES ASSUME Init PROVE TypeOK
  OBVIOUS
<1>1. CommandType
  BY NewJob, SessionAssumption DEF Init, CommandType, Labels, None
<1>2. FileType
  BY DEF Init, FileType, NoManifest, Manifest, LastRun, NoSample, Sample, None
<1>3. ProcessType
  BY DEF Init, ProcessType, Phases, Gates
<1>4. WatcherType
  BY DEF Init, WatcherType, Watchers, NoSample, Sample, None
<1>5. QED
  BY <1>1, <1>2, <1>3, <1>4 DEF TypeOK

(* Every step keeps the types. *)
LEMMA TypeStep == TypeOK /\ TargetInv /\ [Next]_vars => TypeOK'
<1> SUFFICES ASSUME TypeOK, TargetInv, [Next]_vars PROVE TypeOK'
  OBVIOUS
<1> USE SessionAssumption DEF TypeOK
<1>1. ASSUME NEW k \in Controllers, CheckStart(k) PROVE TypeOK'
  <2>1. FileType' /\ ProcessType' /\ WatcherType'
    BY <1>1 DEF CheckStart, FileType, ProcessType, WatcherType, control, files,
       launchers, watchers
  <2>2. CommandType'
    <3>1. NoJob \in Job
      BY NewJob
    <3>2. job[k] \in Job
      BY DEF CommandType
    <3>3. started < MaxCampaign => started + 1 \in Campaign
      BY SessionAssumption DEF CommandType, Campaign
    <3>4. started < MaxCampaign => [job[k] EXCEPT !.mine = started + 1] \in Job
      BY <3>2, <3>3, JobFields
    <3>5. job' \in [Controllers -> Job]
      BY <1>1, JobUpdate, <3>1, <3>2, <3>3, <3>4 DEF CheckStart, CommandType,
         Finish
    <3>6. QED
      BY <1>1, <3>5 DEF CheckStart, CommandType, counters, Finish, Release,
         Goto, Labels, Locked, None
  <2>3. QED
    BY <2>1, <2>2
<1>2. ASSUME NEW k \in Controllers, SpawnLauncher(k) PROVE TypeOK'
  <2>1. WatcherType'
    BY <1>2 DEF SpawnLauncher, WatcherType, watchers
  <2>2. CommandType'
    BY <1>2 DEF SpawnLauncher, CommandType, control, counters, Goto, Labels,
       Locked
  <2>3. FileType'
    BY <1>2 DEF SpawnLauncher, FileType, control, files
  <2>4. ProcessType'
    BY <1>2 DEF SpawnLauncher, ProcessType, launchers, Phases
  <2>5. QED
    BY <2>1, <2>2, <2>3, <2>4
<1>3. ASSUME NEW k \in Controllers, PublishLauncher(k) PROVE TypeOK'
  <2>1. ProcessType' /\ WatcherType'
    BY <1>3 DEF PublishLauncher, ProcessType, WatcherType, launchers, watchers
  <2>2. CommandType'
    BY <1>3 DEF PublishLauncher, CommandType, control, counters, Goto, Labels,
       Locked
  <2>3. FileType'
    BY <1>3 DEF PublishLauncher, FileType, control, files, CommandType, Job,
       NoManifest, Manifest
  <2>4. QED
    BY <2>1, <2>2, <2>3
<1>4. ASSUME NEW k \in Controllers, SpawnObserver(k) PROVE TypeOK'
  <2>1. FileType' /\ WatcherType'
    BY <1>4 DEF SpawnObserver, FileType, WatcherType, control, files, watchers
  <2>2. CommandType'
    BY <1>4 DEF SpawnObserver, CommandType, control, counters, Goto, Labels,
       Locked
  <2>3. ProcessType'
    BY <1>4 DEF SpawnObserver, ProcessType, launchers
  <2>4. QED
    BY <2>1, <2>2, <2>3
<1>5. ASSUME NEW k \in Controllers, PublishObserver(k) PROVE TypeOK'
  <2>1. ProcessType' /\ WatcherType'
    BY <1>5 DEF PublishObserver, ProcessType, WatcherType, launchers, watchers
  <2>2. CommandType'
    BY <1>5 DEF PublishObserver, CommandType, control, counters, Goto, Labels,
       Locked
  <2>3. FileType'
    BY <1>5 DEF PublishObserver, FileType, control, files, Manifest
  <2>4. QED
    BY <2>1, <2>2, <2>3
<1>6. ASSUME NEW k \in Controllers, SpawnWatcher(k) PROVE TypeOK'
  <2>1. FileType' /\ ProcessType'
    BY <1>6 DEF SpawnWatcher, FileType, ProcessType, control, files, launchers
  <2>2. CommandType'
    BY <1>6 DEF SpawnWatcher, CommandType, control, counters, Goto, Labels,
       Locked
  <2>3. WatcherType'
    BY <1>6 DEF SpawnWatcher, WatcherType, watchers, Watchers
  <2>4. QED
    BY <2>1, <2>2, <2>3
<1>7. ASSUME NEW k \in Controllers, PublishWatcher(k) PROVE TypeOK'
  <2>1. ProcessType' /\ WatcherType'
    BY <1>7 DEF PublishWatcher, ProcessType, WatcherType, launchers, watchers
  <2>2. CommandType'
    BY <1>7, NewJob DEF PublishWatcher, CommandType, control, counters,
       Release, Goto, Labels, GateWait, None
  <2>3. FileType'
    BY <1>7 DEF PublishWatcher, FileType, control, files, Manifest
  <2>4. QED
    BY <2>1, <2>2, <2>3
<1>8. ASSUME NEW k \in Controllers, AbortObserver(k) PROVE TypeOK'
  <2>1. FileType' /\ WatcherType'
    BY <1>8 DEF AbortObserver, FileType, WatcherType, control, files, watchers
  <2>2. CommandType'
    BY <1>8 DEF AbortObserver, CommandType, control, counters, Goto, Labels,
       Locked
  <2>3. ProcessType'
    BY <1>8 DEF AbortObserver, ProcessType, launchers, StopObserverProcess
  <2>4. QED
    BY <2>1, <2>2, <2>3
<1>9. ASSUME NEW k \in Controllers, AbortLauncher(k) PROVE TypeOK'
  <2>1. WatcherType'
    BY <1>9 DEF AbortLauncher, WatcherType, watchers
  <2>2. CommandType'
    BY <1>9, NewJob DEF AbortLauncher, CommandType, control, counters, Finish,
       Release, Goto, Labels, None
  <2>3. FileType'
    BY <1>9 DEF AbortLauncher, FileType, control, files, Manifest
  <2>4. ProcessType'
    BY <1>9, KillTreesType DEF AbortLauncher, ProcessType, launchers,
       StopLauncherTree
  <2>5. QED
    BY <2>1, <2>2, <2>3, <2>4
<1>10. ASSUME NEW k \in Controllers, CheckOwner(k) PROVE TypeOK'
  <2>1. FileType' /\ ProcessType' /\ WatcherType'
    BY <1>10 DEF CheckOwner, FileType, ProcessType, WatcherType, control,
       files, launchers, watchers
  <2>2. CommandType'
    <3>1. job[k] \in Job
      BY DEF CommandType
    <3>2. \A b \in BOOLEAN :
            [job[k] EXCEPT !.green = b, !.seen = "pending", !.polls = 0] \in Job
      BY <3>1, GateWaitJob
    <3>3. job' \in [Controllers -> Job]
      <4>1. job \in [Controllers -> Job]
        BY DEF CommandType
      <4>2. CASE UNCHANGED job
        BY <4>1, <4>2
      <4>3. CASE GateWaitEnds(k, FALSE)
        <5> DEFINE j == [job[k] EXCEPT !.green = FALSE, !.seen = "pending", !.polls = 0]
        <5>1. j \in Job
          BY <3>2
        <5>2. job' = [job EXCEPT ![k] = j]
          BY <4>1, <4>3 DEF GateWaitEnds
        <5> HIDE DEF j
        <5>3. QED
          BY <4>1, <5>1, <5>2, JobUpdate
      <4>4. QED
        BY <1>10, <4>2, <4>3 DEF CheckOwner
    <3>4. QED
      BY <1>10, <3>3 DEF CheckOwner, CommandType, counters, GateWaitEnds, Goto,
         Labels, GateWait
  <2>3. QED
    BY <2>1, <2>2
<1>11. ASSUME NEW k \in Controllers, ReadGate(k) PROVE TypeOK'
  <2>1. FileType' /\ ProcessType' /\ WatcherType'
    BY <1>11 DEF ReadGate, FileType, ProcessType, WatcherType, control, files,
       launchers, watchers
  <2>2. CommandType'
    <3>1. job[k] \in Job
      BY DEF CommandType
    <3>2. GateStatus \in Gates
      BY DEF GateStatus, FileType, Manifest, ProcessType, Gates
    <3>3. \A g \in {GateStatus, "unavailable"} : [job[k] EXCEPT !.seen = g] \in Job
      BY <3>1, <3>2, JobFields
    <3>4. job' \in [Controllers -> Job]
      BY <1>11, JobUpdate, <3>1, <3>2, <3>3 DEF ReadGate, CommandType, Gates
    <3>5. QED
      BY <1>11, <3>4 DEF ReadGate, CommandType, counters, Goto, Labels,
         GateWait
  <2>3. QED
    BY <2>1, <2>2
<1>12. ASSUME NEW k \in Controllers, JudgeGate(k) PROVE TypeOK'
  <2>1. FileType' /\ ProcessType' /\ WatcherType'
    BY <1>12 DEF JudgeGate, FileType, ProcessType, WatcherType, control, files,
       launchers, watchers
  <2>2. CommandType'
    <3>1. job[k] \in Job
      BY DEF CommandType
    <3>2. \A b \in BOOLEAN :
            [job[k] EXCEPT !.green = b, !.seen = "pending", !.polls = 0] \in Job
      BY <3>1, GateWaitJob
    <3>3. job[k].polls \in 0 .. MaxPolls
      BY <3>1 DEF Job
    <3>4. ~TimedOut(k) => job[k].polls + 1 \in 0 .. MaxPolls
      BY <3>3 DEF TimedOut
    <3>5. ~TimedOut(k) => [job[k] EXCEPT !.polls = job[k].polls + 1] \in Job
      BY <3>1, <3>4, JobFields
    <3>6. job' \in [Controllers -> Job]
      BY <1>12, JobUpdate, <3>1, <3>2, <3>3, <3>4, <3>5 DEF JudgeGate,
         CommandType, GateWaitEnds
    <3>7. QED
      BY <1>12, <3>6 DEF JudgeGate, CommandType, counters, GateWaitEnds, Goto,
         Labels, GateWait
  <2>3. QED
    BY <2>1, <2>2
<1>13. ASSUME NEW k \in Controllers, JudgeHealth(k) PROVE TypeOK'
  <2>1. FileType' /\ ProcessType' /\ WatcherType'
    BY <1>13 DEF JudgeHealth, FileType, ProcessType, WatcherType, control,
       files, launchers, watchers
  <2>2. CommandType'
    <3>1. job[k] \in Job
      BY DEF CommandType
    <3>2. \A b \in BOOLEAN :
            [job[k] EXCEPT !.green = b, !.seen = "pending", !.polls = 0] \in Job
      BY <3>1, GateWaitJob
    <3>3. job' \in [Controllers -> Job]
      BY <1>13, JobUpdate, <3>1, <3>2 DEF JudgeHealth, CommandType,
         GateWaitEnds
    <3>4. QED
      BY <1>13, <3>3 DEF JudgeHealth, CommandType, counters, GateWaitEnds,
         Goto, Labels
  <2>3. QED
    BY <2>1, <2>2
<1>14. ASSUME NEW k \in Controllers, EnterStop(k) PROVE TypeOK'
  <2>1. FileType' /\ ProcessType' /\ WatcherType'
    BY <1>14 DEF EnterStop, FileType, ProcessType, WatcherType, control, files,
       launchers, watchers
  <2>2. CommandType'
    BY <1>14, NewJob DEF EnterStop, CommandType, control, counters, Finish,
       Release, Goto, Labels, None, Locked
  <2>3. QED
    BY <2>1, <2>2
<1>15. ASSUME NEW k \in Controllers, ReadManifest(k) PROVE TypeOK'
  <2>1. ProcessType' /\ WatcherType'
    BY <1>15 DEF ReadManifest, ProcessType, WatcherType, launchers, watchers
  <2>2. CommandType'
    <3>1. NoJob \in Job
      BY NewJob
    <3>2. job[k] \in Job
      BY DEF CommandType
    <3>3. [job[k] EXCEPT !.target = manifest.campaign] \in Job
      BY <3>2, JobFields DEF FileType, Manifest
    <3>4. job' \in [Controllers -> Job]
      BY <1>15, JobUpdate, <3>1, <3>2, <3>3 DEF ReadManifest, CommandType,
         Finish
    <3>5. QED
      BY <1>15, <3>4 DEF ReadManifest, CommandType, counters, Finish, Release,
         Goto, Labels, Locked, None
  <2>3. FileType'
    BY <1>15 DEF ReadManifest, FileType, control, files
  <2>4. QED
    BY <2>1, <2>2, <2>3
<1>16. ASSUME NEW k \in Controllers, StopObserver(k) PROVE TypeOK'
  <2>1. FileType' /\ WatcherType'
    BY <1>16 DEF StopObserver, FileType, WatcherType, control, files, watchers
  <2>2. CommandType'
    <3>1. job[k] \in Job
      BY DEF CommandType
    <3>2. \A b \in BOOLEAN : [job[k] EXCEPT !.obs = b] \in Job
      BY <3>1, JobFields
    <3>3. job' \in [Controllers -> Job]
      BY <1>16, JobUpdate, <3>1, <3>2 DEF StopObserver, CommandType, Goto
    <3>4. QED
      BY <1>16, <3>3 DEF StopObserver, CommandType, counters, Goto, Labels,
         Locked
  <2>3. ProcessType'
    BY <1>16 DEF StopObserver, ProcessType, launchers, StopObserverProcess
  <2>4. QED
    BY <2>1, <2>2, <2>3
<1>17. ASSUME NEW k \in Controllers, StopLauncher(k) PROVE TypeOK'
  <2>1. FileType' /\ WatcherType'
    BY <1>17 DEF StopLauncher, FileType, WatcherType, control, files, watchers
  <2>2. CommandType'
    <3>1. job[k] \in Job
      BY DEF CommandType
    <3>2. \A b \in BOOLEAN : [job[k] EXCEPT !.lau = b] \in Job
      BY <3>1, JobFields
    <3>3. job' \in [Controllers -> Job]
      BY <1>17, JobUpdate, <3>1, <3>2 DEF StopLauncher, CommandType, Goto
    <3>4. QED
      BY <1>17, <3>3 DEF StopLauncher, CommandType, counters, Goto, Labels,
         Locked
  <2>3. ProcessType'
    BY <1>17, KillTreesType DEF StopLauncher, ProcessType, launchers,
       StopLauncherTree
  <2>4. QED
    BY <2>1, <2>2, <2>3
<1>18. ASSUME NEW k \in Controllers, StopWatcher(k) PROVE TypeOK'
  <2>1. FileType' /\ ProcessType'
    BY <1>18 DEF StopWatcher, FileType, ProcessType, control, files, launchers
  <2>2. CommandType'
    <3>1. job[k] \in Job
      BY DEF CommandType
    <3>2. \A b \in BOOLEAN : [job[k] EXCEPT !.wat = b] \in Job
      BY <3>1, JobFields
    <3>3. job' \in [Controllers -> Job]
      BY <1>18, JobUpdate, <3>1, <3>2 DEF StopWatcher, CommandType, Goto
    <3>4. QED
      BY <1>18, <3>3 DEF StopWatcher, CommandType, counters, Goto, Labels,
         Locked
  <2>3. WatcherType'
    <3>1. CASE UNCHANGED watchers
      BY <3>1 DEF WatcherType, watchers
    <3>2. CASE WatcherEnds(job[k].target)
      BY <3>2 DEF WatcherType, WatcherEnds, Watchers, NoSample, Sample, None
    <3>3. QED
      BY <1>18, <3>1, <3>2 DEF StopWatcher, StopWatcherProcess
  <2>4. QED
    BY <2>1, <2>2, <2>3
<1>19. ASSUME NEW k \in Controllers, FinalizeDiagnostics(k) PROVE TypeOK'
  <2>1. ProcessType' /\ WatcherType'
    BY <1>19 DEF FinalizeDiagnostics, ProcessType, WatcherType, launchers,
       watchers
  <2>2. CommandType'
    <3>1. job[k] \in Job
      BY DEF CommandType
    <3>2. [job[k] EXCEPT !.fin = TRUE] \in Job
      BY <3>1, JobFields
    <3>3. job' \in [Controllers -> Job]
      BY <1>19, JobUpdate, <3>1, <3>2 DEF FinalizeDiagnostics, CommandType,
         Goto
    <3>4. QED
      BY <1>19, <3>3 DEF FinalizeDiagnostics, CommandType, counters, Goto,
         Labels, Locked
  <2>3. FileType'
    BY <1>19 DEF FinalizeDiagnostics, FileType, control, files, TargetInv,
       StopSteps
  <2>4. QED
    BY <2>1, <2>2, <2>3
<1>20. ASSUME NEW k \in Controllers, RecordStop(k) PROVE TypeOK'
  <2>1. ProcessType' /\ WatcherType'
    BY <1>20 DEF RecordStop, ProcessType, WatcherType, launchers, watchers
  <2>2. CommandType'
    BY <1>20, NewJob DEF RecordStop, CommandType, control, counters, Finish,
       Release, Goto, Labels, None
  <2>3. FileType'
    BY <1>20 DEF RecordStop, FileType, control, files, Manifest
  <2>4. QED
    BY <2>1, <2>2, <2>3
<1>21. ASSUME NEW k \in Controllers, EndBackup(k) PROVE TypeOK'
  <2>1. FileType' /\ ProcessType' /\ WatcherType'
    BY <1>21 DEF EndBackup, FileType, ProcessType, WatcherType, control, files,
       launchers, watchers
  <2>2. CommandType'
    BY <1>21, NewJob DEF EndBackup, CommandType, control, counters, Finish,
       Release, Goto, Labels, None
  <2>3. QED
    BY <2>1, <2>2
<1>22. ASSUME NEW k \in Controllers, BeginStart(k) PROVE TypeOK'
  <2>1. FileType' /\ ProcessType' /\ WatcherType'
    BY <1>22 DEF BeginStart, FileType, ProcessType, WatcherType, control,
       files, launchers, watchers
  <2>2. CommandType'
    BY <1>22, NewJob DEF BeginStart, CommandType, control, counters, Issue,
       Goto, Labels, Locked
  <2>3. QED
    BY <2>1, <2>2
<1>23. ASSUME NEW k \in Controllers, BeginStop(k) PROVE TypeOK'
  <2>1. FileType' /\ ProcessType' /\ WatcherType'
    BY <1>23 DEF BeginStop, FileType, ProcessType, WatcherType, control, files,
       launchers, watchers
  <2>2. CommandType'
    BY <1>23, NewJob DEF BeginStop, CommandType, control, counters, Issue,
       Goto, Labels
  <2>3. QED
    BY <2>1, <2>2
<1>24. ASSUME NEW k \in Controllers, BeginBackup(k) PROVE TypeOK'
  <2>1. FileType' /\ ProcessType' /\ WatcherType'
    BY <1>24 DEF BeginBackup, FileType, ProcessType, WatcherType, control,
       files, launchers, watchers
  <2>2. CommandType'
    BY <1>24, NewJob DEF BeginBackup, CommandType, control, counters, Issue,
       Goto, Labels
  <2>3. QED
    BY <2>1, <2>2
<1>25. ASSUME NEW k \in Controllers, RollbackLauncher(k) PROVE TypeOK'
  <2>1. WatcherType'
    BY <1>25 DEF RollbackLauncher, WatcherType, watchers
  <2>2. CommandType'
    BY <1>25, NewJob DEF RollbackLauncher, CommandType, control, counters,
       Finish, Release, Goto, Labels, None, Fault
  <2>3. FileType'
    BY <1>25 DEF RollbackLauncher, FileType, control, files
  <2>4. ProcessType'
    BY <1>25, KillTreesType DEF RollbackLauncher, ProcessType, launchers
  <2>5. QED
    BY <2>1, <2>2, <2>3, <2>4
<1>26. ASSUME NEW k \in Controllers, FailObserver(k) PROVE TypeOK'
  <2>1. WatcherType'
    BY <1>26 DEF FailObserver, WatcherType, watchers
  <2>2. CommandType'
    BY <1>26 DEF FailObserver, CommandType, control, counters, Goto, Labels,
       Locked, Fault
  <2>3. FileType'
    BY <1>26 DEF FailObserver, FileType, control, files
  <2>4. ProcessType'
    BY <1>26 DEF FailObserver, ProcessType, launchers
  <2>5. QED
    BY <2>1, <2>2, <2>3, <2>4
<1>27. ASSUME NEW k \in Controllers, FailWatcher(k) PROVE TypeOK'
  <2>1. ProcessType' /\ WatcherType'
    BY <1>27 DEF FailWatcher, ProcessType, WatcherType, launchers, watchers
  <2>2. CommandType'
    BY <1>27 DEF FailWatcher, CommandType, control, counters, Goto, Labels,
       Locked, Fault
  <2>3. FileType'
    BY <1>27 DEF FailWatcher, FileType, control, files
  <2>4. QED
    BY <2>1, <2>2, <2>3
<1>28. ASSUME NEW k \in Controllers, Kill(k) PROVE TypeOK'
  <2>1. FileType' /\ ProcessType' /\ WatcherType'
    BY <1>28 DEF Kill, FileType, ProcessType, WatcherType, control, files,
       launchers, watchers
  <2>2. CommandType'
    BY <1>28, NewJob DEF Kill, CommandType, control, counters, Finish, Release,
       Goto, Labels, None, Fault
  <2>3. QED
    BY <2>1, <2>2
<1>29. ASSUME NEW k \in Controllers, Interrupt(k) PROVE TypeOK'
  <2>1. FileType' /\ ProcessType' /\ WatcherType'
    BY <1>29 DEF Interrupt, FileType, ProcessType, WatcherType, control, files,
       launchers, watchers
  <2>2. CommandType'
    BY <1>29, NewJob DEF Interrupt, CommandType, control, counters, Finish,
       Release, Goto, Labels, None, Fault
  <2>3. QED
    BY <2>1, <2>2
<1>30. ASSUME NEW c \in Campaign, PrepareRun(c) PROVE TypeOK'
  <2>1. CommandType' /\ WatcherType'
    BY <1>30 DEF PrepareRun, CommandType, WatcherType, control, counters,
       watchers
  <2>2. FileType'
    BY <1>30 DEF PrepareRun, FileType, control, files, LastRun
  <2>3. ProcessType'
    <3>1. CASE \E D \in SUBSET Stale(c) : KillTrees({c} \cup D)
      BY <1>30, <3>1, KillTreesType DEF PrepareRun, ProcessType
    <3>2. CASE ~\E D \in SUBSET Stale(c) : KillTrees({c} \cup D)
      <4>1. /\ root' = [d \in Campaign |-> root[d] /\ d \notin Stale(c)]
            /\ clients' = [d \in Campaign |-> clients[d] /\ d \notin Stale(c)]
            /\ phase' = [d \in Campaign |-> IF d = c THEN "prepared"
                                            ELSE IF d \in Stale(c) THEN "gone"
                                            ELSE phase[d]]
            /\ UNCHANGED <<gate, observer>>
        BY <1>30, <3>2 DEF PrepareRun
      <4>2. QED
        BY <4>1 DEF ProcessType, Phases
    <3>3. QED
      BY <3>1, <3>2
  <2>4. QED
    BY <2>1, <2>2, <2>3
<1>31. ASSUME NEW c \in Campaign, BringUpClients(c) PROVE TypeOK'
  <2>1. CommandType' /\ FileType' /\ WatcherType'
    BY <1>31 DEF BringUpClients, CommandType, FileType, WatcherType, control,
       counters, files, watchers
  <2>2. ProcessType'
    BY <1>31 DEF BringUpClients, ProcessType, launchers, Phases
  <2>3. QED
    BY <2>1, <2>2
<1>32. ASSUME NEW c \in Campaign, BringUpFails(c) PROVE TypeOK'
  <2>1. CommandType' /\ FileType' /\ WatcherType'
    BY <1>32 DEF BringUpFails, CommandType, FileType, WatcherType, control,
       counters, files, watchers
  <2>2. ProcessType'
    BY <1>32, KillTreesType DEF BringUpFails, ProcessType
  <2>3. QED
    BY <2>1, <2>2
<1>33. ASSUME NEW c \in Campaign, MarkRunning(c) PROVE TypeOK'
  <2>1. CommandType' /\ WatcherType'
    BY <1>33 DEF MarkRunning, CommandType, WatcherType, control, counters,
       watchers
  <2>2. FileType'
    BY <1>33 DEF MarkRunning, FileType, control, files, LastRun
  <2>3. ProcessType'
    BY <1>33 DEF MarkRunning, ProcessType, launchers, Phases
  <2>4. QED
    BY <2>1, <2>2, <2>3
<1>34. ASSUME NEW c \in Campaign, Teardown(c) PROVE TypeOK'
  <2>1. CommandType' /\ FileType' /\ WatcherType'
    BY <1>34 DEF Teardown, CommandType, FileType, WatcherType, control,
       counters, files, watchers
  <2>2. ProcessType'
    BY <1>34 DEF Teardown, ProcessType, launchers, Phases
  <2>3. QED
    BY <2>1, <2>2
<1>35. ASSUME NEW c \in Campaign, MarkFinished(c) PROVE TypeOK'
  <2>1. CommandType' /\ WatcherType'
    BY <1>35 DEF MarkFinished, CommandType, WatcherType, control, counters,
       watchers
  <2>2. FileType'
    BY <1>35 DEF MarkFinished, FileType, control, files, LastRun
  <2>3. ProcessType'
    BY <1>35 DEF MarkFinished, ProcessType, launchers, Phases
  <2>4. QED
    BY <2>1, <2>2, <2>3
<1>36. ASSUME NEW c \in Campaign, RootLost(c) PROVE TypeOK'
  <2>1. FileType' /\ WatcherType'
    BY <1>36 DEF RootLost, FileType, WatcherType, control, files, watchers
  <2>2. CommandType'
    BY <1>36 DEF RootLost, CommandType, control, counters, Fault
  <2>3. ProcessType'
    BY <1>36 DEF RootLost, ProcessType, launchers
  <2>4. QED
    BY <2>1, <2>2, <2>3
<1>37. ASSUME NEW c \in Campaign, ObserverReports(c) PROVE TypeOK'
  <2>1. CommandType' /\ FileType' /\ WatcherType'
    BY <1>37 DEF ObserverReports, CommandType, FileType, WatcherType, control,
       counters, files, watchers
  <2>2. ProcessType'
    BY <1>37 DEF ObserverReports, ProcessType, launchers, Gates
  <2>3. QED
    BY <2>1, <2>2
<1>38. ASSUME NEW c \in Campaign, ObserverExits(c) PROVE TypeOK'
  <2>1. CommandType' /\ FileType' /\ WatcherType'
    BY <1>38 DEF ObserverExits, CommandType, FileType, WatcherType, control,
       counters, files, watchers
  <2>2. ProcessType'
    BY <1>38 DEF ObserverExits, ProcessType, launchers
  <2>3. QED
    BY <2>1, <2>2
<1>39. ASSUME NEW c \in Campaign, WatcherStart(c) PROVE TypeOK'
  <2>1. CommandType' /\ ProcessType'
    BY <1>39 DEF WatcherStart, CommandType, ProcessType, control, counters,
       launchers
  <2>2. FileType'
    <3>1. CurrentSample \in Sample
      BY DEF CurrentSample, Sample, FileType, Manifest
    <3>2. QED
      BY <1>39, <3>1 DEF WatcherStart, FileType, control
  <2>3. WatcherType'
    BY <1>39 DEF WatcherStart, WatcherType, watchers, Watch, Watchers,
       CurrentSample, Sample, FileType, Manifest
  <2>4. QED
    BY <2>1, <2>2, <2>3
<1>40. ASSUME NEW c \in Campaign, WatcherTop(c) PROVE TypeOK'
  <2>1. CommandType' /\ FileType' /\ ProcessType'
    BY <1>40 DEF WatcherTop, CommandType, FileType, ProcessType, control,
       counters, files, launchers
  <2>2. WatcherType'
    BY <1>40, WatcherEndsType DEF WatcherTop, WatcherType, watchers, Watch,
       Watchers
  <2>3. QED
    BY <2>1, <2>2
<1>41. ASSUME NEW c \in Campaign, WatcherSample(c) PROVE TypeOK'
  <2>1. CommandType' /\ ProcessType'
    BY <1>41 DEF WatcherSample, CommandType, ProcessType, control, counters,
       launchers
  <2>2. FileType'
    <3>1. CurrentSample \in Sample
      BY DEF CurrentSample, Sample, FileType, Manifest
    <3>2. QED
      BY <1>41, <3>1 DEF WatcherSample, FileType, WatcherType, control
  <2>3. WatcherType'
    <3>1. CASE WatcherEnds(c)
      BY <3>1, WatcherEndsType
    <3>2. CASE ~WatcherEnds(c)
      <4>1. CurrentSample \in Sample
        BY DEF CurrentSample, Sample, FileType, Manifest
      <4>2. QED
        BY <1>41, <3>2, <4>1 DEF WatcherSample, Watch, WatcherType, Watchers
    <3>3. QED
      BY <3>1, <3>2
  <2>4. QED
    BY <2>1, <2>2, <2>3
<1>42. ASSUME NEW c \in Campaign, WatcherRequestsStop(c) PROVE TypeOK'
  <2>1. CommandType' /\ ProcessType'
    BY <1>42 DEF WatcherRequestsStop, CommandType, ProcessType, control,
       counters, launchers
  <2>2. FileType'
    BY <1>42 DEF WatcherRequestsStop, FileType, control, files
  <2>3. WatcherType'
    BY <1>42 DEF WatcherRequestsStop, WatcherType, watchers, Watch, Watchers,
       ProcessType
  <2>4. QED
    BY <2>1, <2>2, <2>3
<1>43. ASSUME NEW c \in Campaign, WatcherStopsObserver(c) PROVE TypeOK'
  <2>1. CommandType' /\ FileType'
    BY <1>43 DEF WatcherStopsObserver, CommandType, FileType, control,
       counters, files
  <2>2. ProcessType'
    BY <1>43 DEF WatcherStopsObserver, ProcessType, launchers,
       StopObserverProcess
  <2>3. WatcherType'
    BY <1>43 DEF WatcherStopsObserver, WatcherType, watchers, Watch, Watchers
  <2>4. QED
    BY <2>1, <2>2, <2>3
<1>44. ASSUME NEW c \in Campaign, WatcherStopsLauncher(c) PROVE TypeOK'
  <2>1. CommandType'
    BY <1>44 DEF WatcherStopsLauncher, CommandType, control, counters
  <2>2. FileType'
    BY <1>44 DEF WatcherStopsLauncher, FileType, control, files, WatcherType
  <2>3. ProcessType'
    BY <1>44, KillTreesType DEF WatcherStopsLauncher, ProcessType, launchers
  <2>4. WatcherType'
    BY <1>44, WatcherEndsType DEF WatcherStopsLauncher, WatcherType, watchers
  <2>5. QED
    BY <2>1, <2>2, <2>3, <2>4
<1>45. CASE UNCHANGED vars
  BY <1>45 DEF vars, CommandType, control, counters, FileType, files,
     ProcessType, launchers,
              WatcherType, watchers
<1>46. QED
  BY <1>1, <1>2, <1>3, <1>4, <1>5, <1>6, <1>7, <1>8, <1>9, <1>10, <1>11, <1>12,
     <1>13, <1>14, <1>15, <1>16, <1>17, <1>18, <1>19, <1>20, <1>21, <1>22,
     <1>23, <1>24, <1>25, <1>26, <1>27, <1>28, <1>29, <1>30, <1>31, <1>33,
     <1>34, <1>35, <1>36, <1>37, <1>38, <1>39, <1>40, <1>41, <1>42, <1>43,
     <1>44, <1>45, <1>32
     DEF Next, Command, Invoke, CommandFault, Processes


-------------------------------------------------------------------------------
(* The commands are serialized by the lock, so what one of them learnt about   *)
(* the manifest and the processes under the lock stays true until it releases  *)
(* it: nobody else writes the manifest, campaigns are fresh, and a dead        *)
(* process never comes back.                                                   *)

Claimed    == {"spawn", "identify"}
Publishing == {"observe", "identifyObserver", "watch", "identifyWatcher",
               "abortObserver", "abortLauncher"}

FreshInv(k) ==
  pc[k] \in Claimed =>
    /\ job[k].mine \in Campaign /\ job[k].mine <= started
    /\ manifest.campaign < job[k].mine
    /\ ~RecordedAlive

PublishInv(k) ==
  pc[k] \in Publishing =>
    manifest.campaign = job[k].mine /\ manifest.state = "running"

StopInv(k) ==
  pc[k] \in StopSteps =>
    /\ job[k].target \in Campaign /\ job[k].target = manifest.campaign
    /\ job[k].op = "gate" => job[k].target = job[k].mine

ReportInv(k) ==
  /\ pc[k] \in StopSteps \ {"stopObserver"} /\ job[k].obs
       => ~(manifest.observer /\ ObserverLive(job[k].target))
  /\ pc[k] \in {"stopWatcher", "finalize", "record"} /\ job[k].lau
       => ~root[job[k].target]
  /\ pc[k] \in {"finalize", "record"} /\ job[k].wat
       => ~(manifest.watcher /\ WatcherLive(job[k].target))

CommandInv(k) ==
  /\ pc[k] \in Locked => lock = k
  /\ FreshInv(k) /\ PublishInv(k) /\ StopInv(k) /\ ReportInv(k)

ManifestInv == manifest.campaign <= started /\ StoppedRolesGone

SessionInv == ManifestInv /\ \A k \in Controllers : CommandInv(k)

(* No dead process comes back in this step. *)
NoRevival ==
  \A c \in Campaign : /\ root'[c] => root[c]
                      /\ ObserverLive(c)' => ObserverLive(c)
                      /\ WatcherLive(c)' => WatcherLive(c)

(* The invariant gives the types their missing part. *)
LEMMA SessionTarget == SessionInv => TargetInv
BY DEF SessionInv, CommandInv, StopInv, TargetInv

(* Dead roles of an unchanged manifest stay dead. *)
LEMMA StayDead ==
  ASSUME FileType, NoRevival, manifest' = manifest, ~RecordedAlive
  PROVE  ~RecordedAlive'
BY DEF FileType, Manifest, NoRevival, RecordedAlive

(* A command that only sees dead processes stay dead and the manifest keep     *)
(* keeps its own invariant.                                                    *)
LEMMA Undisturbed ==
  ASSUME FileType, NoRevival, manifest' = manifest, started <= started',
         started \in Int, started' \in Int, CommandType,
         NEW k \in Controllers, CommandInv(k),
         pc'[k] = pc[k], job'[k] = job[k], pc[k] \in Locked => lock' = lock
  PROVE  CommandInv(k)'
<1> USE DEF CommandInv
<1>1. (pc[k] \in Locked => lock = k)'
  OBVIOUS
<1>2. FreshInv(k)'
  BY StayDead DEF FreshInv, Campaign
<1>3. PublishInv(k)'
  BY DEF PublishInv
<1>4. StopInv(k)'
  BY DEF StopInv
<1>5. ReportInv(k)'
  BY DEF ReportInv, StopInv, NoRevival, StopSteps
<1>6. QED
  BY <1>1, <1>2, <1>3, <1>4, <1>5

(* A command outside the lock has nothing to keep. *)
LEMMA Unlocked ==
  ASSUME NEW k \in Controllers, pc'[k] \notin Locked
  PROVE  CommandInv(k)'
BY DEF CommandInv, FreshInv, PublishInv, StopInv, ReportInv, Locked, Claimed,
       Publishing, StopSteps

(* Command j takes no part in the step: it stays where it is and keeps a lock  *)
(* it holds.                                                                   *)
Bystander(j) == pc'[j] = pc[j] /\ job'[j] = job[j] /\ (lock = j => lock' = lock)

(* In a step that leaves the manifest alone and revives nothing, every command *)
(* that does not act itself keeps its invariant.                               *)
LEMMA QuietStep ==
  ASSUME TypeOK, TypeOK', SessionInv, NoRevival, manifest' = manifest,
         started <= started',
         \A j \in Controllers : Bystander(j) \/ CommandInv(j)'
  PROVE  SessionInv'
<1>1. ManifestInv'
  BY StayDead DEF SessionInv, ManifestInv, StoppedRolesGone, TypeOK, FileType,
     Manifest, CommandType, Campaign, None
<1>2. ASSUME NEW j \in Controllers, Bystander(j) PROVE CommandInv(j)'
  <2>1. CommandInv(j) /\ (pc[j] \in Locked => lock' = lock)
    BY <1>2 DEF SessionInv, CommandInv, Bystander
  <2>2. started \in Int /\ started' \in Int
    BY DEF TypeOK, CommandType
  <2>3. QED
    BY <1>2, <2>1, <2>2, Undisturbed DEF TypeOK, Bystander
<1>3. QED
  BY <1>1, <1>2 DEF SessionInv

(* A step of the command that holds the lock: no other command is inside it.   *)
LEMMA LockedStep ==
  ASSUME TypeOK, SessionInv, NEW k \in Controllers, pc[k] \in Locked,
         \A j \in Controllers \ {k} : pc'[j] = pc[j],
         ManifestInv', CommandInv(k)'
  PROVE  SessionInv'
<1>1. ASSUME NEW j \in Controllers, j # k PROVE CommandInv(j)'
  <2>1. pc[j] \notin Locked
    BY <1>1 DEF SessionInv, CommandInv
  <2>2. QED
    BY <1>1, <2>1, Unlocked
<1>2. QED
  BY <1>1 DEF SessionInv

(* The invariant holds initially. *)
LEMMA SessionInit == Init => SessionInv
BY DEF Init, SessionInv, ManifestInv, StoppedRolesGone, NoManifest, None,
       CommandInv, FreshInv, PublishInv, StopInv, ReportInv, Locked, Claimed,
       Publishing, StopSteps

(* Nothing a launcher, an observer or a watcher does disturbs it. *)
LEMMA ProcessStep ==
  ASSUME TypeOK, TypeOK', SessionInv, NEW c \in Campaign, Processes(c)
  PROVE  SessionInv'
<1>1. /\ manifest' = manifest /\ started' = started
      /\ pc' = pc /\ job' = job /\ lock' = lock
  BY DEF Processes, PrepareRun, BringUpClients, BringUpFails, MarkRunning, Teardown,
     MarkFinished, RootLost, ObserverReports, ObserverExits, WatcherStart,
     WatcherTop, WatcherSample, WatcherRequestsStop, WatcherStopsObserver,
     WatcherStopsLauncher, control, counters
<1>2. NoRevival
  <2>1. CASE PrepareRun(c) \/ BringUpClients(c) \/ BringUpFails(c)
             \/ MarkRunning(c) \/ Teardown(c) \/ MarkFinished(c) \/ RootLost(c)
    BY <2>1 DEF PrepareRun, BringUpClients, BringUpFails, MarkRunning, Teardown, MarkFinished,
       RootLost, NoRevival, KillTrees, watchers, TypeOK, ProcessType,
       ObserverLive, WatcherLive
  <2>2. CASE ObserverReports(c) \/ ObserverExits(c)
    BY <2>2 DEF ObserverReports, ObserverExits, NoRevival, launchers, watchers,
       TypeOK, ProcessType, ObserverLive, WatcherLive
  <2>3. CASE WatcherStart(c) \/ WatcherTop(c) \/ WatcherSample(c)
    BY <2>3 DEF WatcherStart, WatcherTop, WatcherSample, Watch, WatcherEnds,
       NoRevival, launchers, watchers, TypeOK, WatcherType, ObserverLive,
       WatcherLive
  <2>4. CASE WatcherRequestsStop(c)
    BY <2>4 DEF WatcherRequestsStop, Watch, NoRevival, launchers, TypeOK,
       WatcherType, ObserverLive, WatcherLive
  <2>5. CASE WatcherStopsObserver(c)
    BY <2>5 DEF WatcherStopsObserver, StopObserverProcess, Watch, NoRevival,
       launchers, TypeOK, WatcherType, ProcessType, ObserverLive, WatcherLive
  <2>6. CASE WatcherStopsLauncher(c)
    BY <2>6 DEF WatcherStopsLauncher, KillTrees, WatcherEnds, NoRevival,
       launchers, TypeOK, WatcherType, ProcessType, ObserverLive, WatcherLive
  <2>7. QED
    BY <2>1, <2>2, <2>3, <2>4, <2>5, <2>6 DEF Processes
<1>3. started <= started'
  BY <1>1 DEF TypeOK, CommandType
<1>4. \A j \in Controllers : Bystander(j)
  BY <1>1 DEF Bystander
<1>5. QED
  BY <1>1, <1>2, <1>3, <1>4, QuietStep

(* Commands that leave the manifest alone and spawn nothing. *)
LEMMA QuietCommandStep ==
  ASSUME TypeOK, TypeOK', SessionInv, NEW k \in Controllers,
         \/ CheckStart(k) \/ CheckOwner(k) \/ ReadGate(k) \/
            JudgeGate(k) \/ JudgeHealth(k) \/ EnterStop(k) \/
            ReadManifest(k) \/ StopObserver(k) \/ StopLauncher(k) \/
            StopWatcher(k) \/ FinalizeDiagnostics(k) \/
            AbortObserver(k) \/ EndBackup(k) \/ BeginStart(k) \/
            BeginStop(k) \/ BeginBackup(k) \/ RollbackLauncher(k) \/
            FailObserver(k) \/ FailWatcher(k) \/ Kill(k) \/
            Interrupt(k)
  PROVE  SessionInv'
<1> DEFINE Quiet == /\ NoRevival /\ manifest' = manifest
                    /\ started <= started'
                    /\ \A j \in Controllers \ {k} : Bystander(j)
<1>1. CommandInv(k)
  BY DEF SessionInv
<1>2. Quiet /\ CommandInv(k)' => SessionInv'
  BY QuietStep
<1> HIDE DEF Quiet
<1>3. CASE CheckStart(k)
  <2>1. Quiet
    BY <1>3, SessionAssumption, <1>1 DEF Quiet, Bystander, CheckStart, Finish,
       Release, Goto, NoRevival, launchers, watchers, counters, files, TypeOK,
       CommandType, ProcessType, WatcherType, ObserverLive, WatcherLive
  <2>2. CommandInv(k)'
    <3>1. CASE pc'[k] \notin Locked
      BY <3>1, Unlocked
    <3>2. CASE pc'[k] \in Locked
      <4>1. /\ pc[k] = "check" /\ pc'[k] = "spawn" /\ lock' = lock
            /\ ~RecordedAlive /\ started < MaxCampaign /\ started' = started + 1
            /\ job' = [job EXCEPT ![k].mine = started + 1]
        BY <1>3, <3>2 DEF CheckStart, Finish, Goto, TypeOK, CommandType, Locked
      <4>2. job'[k].mine = started + 1
        BY <4>1 DEF TypeOK, CommandType, Job
      <4>3. manifest' = manifest /\ ~RecordedAlive'
        BY <1>3, <4>1 DEF CheckStart, RecordedAlive, launchers, watchers,
           ObserverLive, WatcherLive
      <4>4. manifest.campaign \in Int /\ manifest.campaign <= started
        BY DEF SessionInv, ManifestInv, TypeOK, FileType, Manifest, Campaign,
           None
      <4>5. FreshInv(k)'
        BY <4>1, <4>2, <4>3, <4>4, SessionAssumption
           DEF FreshInv, TypeOK, CommandType, Campaign
      <4>6. QED
        BY <1>1, <4>1, <4>5 DEF CommandInv, PublishInv, StopInv, ReportInv,
           Locked, Publishing, StopSteps
    <3>3. QED
      BY <3>1, <3>2
  <2>3. QED
    BY <1>2, <2>1, <2>2
<1>4. CASE CheckOwner(k)
  <2>1. Quiet
    BY <1>4, SessionAssumption, <1>1 DEF Quiet, Bystander, CheckOwner,
       GateWaitEnds, Goto, NoRevival, launchers, watchers, counters, files,
       TypeOK, CommandType, ProcessType, WatcherType, ObserverLive, WatcherLive
  <2>2. CommandInv(k)'
    <3>1. pc'[k] \notin Locked
      BY <1>4 DEF TypeOK, CommandType, Goto, CheckOwner, GateWaitEnds,
         GateWait, Locked
    <3>2. QED
      BY <3>1, Unlocked
  <2>3. QED
    BY <1>2, <2>1, <2>2
<1>5. CASE ReadGate(k)
  <2>1. Quiet
    BY <1>5, SessionAssumption, <1>1 DEF Quiet, Bystander, ReadGate, Goto,
       NoRevival, launchers, watchers, counters, files, TypeOK, CommandType,
       ProcessType, WatcherType, ObserverLive, WatcherLive
  <2>2. CommandInv(k)'
    <3>1. pc'[k] \notin Locked
      BY <1>5 DEF TypeOK, CommandType, Goto, ReadGate, GateWait, Locked
    <3>2. QED
      BY <3>1, Unlocked
  <2>3. QED
    BY <1>2, <2>1, <2>2
<1>6. CASE JudgeGate(k)
  <2>1. Quiet
    BY <1>6, SessionAssumption, <1>1 DEF Quiet, Bystander, JudgeGate,
       GateWaitEnds, Goto, NoRevival, launchers, watchers, counters, files,
       TypeOK, CommandType, ProcessType, WatcherType, ObserverLive, WatcherLive
  <2>2. CommandInv(k)'
    <3>1. pc'[k] \notin Locked
      BY <1>6 DEF TypeOK, CommandType, Goto, JudgeGate, GateWaitEnds, GateWait,
         Locked
    <3>2. QED
      BY <3>1, Unlocked
  <2>3. QED
    BY <1>2, <2>1, <2>2
<1>7. CASE JudgeHealth(k)
  <2>1. Quiet
    BY <1>7, SessionAssumption, <1>1 DEF Quiet, Bystander, JudgeHealth,
       GateWaitEnds, Goto, NoRevival, launchers, watchers, counters, files,
       TypeOK, CommandType, ProcessType, WatcherType, ObserverLive, WatcherLive
  <2>2. CommandInv(k)'
    <3>1. pc'[k] \notin Locked
      BY <1>7 DEF TypeOK, CommandType, Goto, JudgeHealth, GateWaitEnds,
         GateWait, Locked
    <3>2. QED
      BY <3>1, Unlocked
  <2>3. QED
    BY <1>2, <2>1, <2>2
<1>8. CASE EnterStop(k)
  <2>1. Quiet
    BY <1>8, SessionAssumption, <1>1 DEF Quiet, Bystander, EnterStop, Finish,
       Release, None, Goto, NoRevival, launchers, watchers, counters, files,
       TypeOK, CommandType, ProcessType, WatcherType, ObserverLive, WatcherLive
  <2>2. CommandInv(k)'
    <3>1. CASE pc'[k] \notin Locked
      BY <3>1, Unlocked
    <3>2. CASE pc'[k] \in Locked
      BY <1>8, <1>1, <3>2, SessionAssumption DEF TypeOK, CommandType, Goto,
         EnterStop, Finish, Release, None, CommandInv, FreshInv, PublishInv,
         StopInv, ReportInv, Locked, Claimed, Publishing, StopSteps
    <3>3. QED
      BY <3>1, <3>2
  <2>3. QED
    BY <1>2, <2>1, <2>2
<1>9. CASE ReadManifest(k)
  <2>1. Quiet
    BY <1>9, SessionAssumption, <1>1 DEF Quiet, Bystander, ReadManifest,
       Finish, Release, Goto, NoRevival, launchers, watchers, counters, files,
       TypeOK, CommandType, ProcessType, WatcherType, ObserverLive, WatcherLive
  <2>2. CommandInv(k)'
    <3>1. CASE pc'[k] \notin Locked
      BY <3>1, Unlocked
    <3>2. CASE pc'[k] \in Locked
      <4>1. /\ pc[k] = "stopRead" /\ pc'[k] = "stopObserver" /\ lock' = lock
            /\ manifest.campaign # None /\ manifest' = manifest
            /\ job[k].op = "gate" => Owned(k)
            /\ job' = [job EXCEPT ![k].target = manifest.campaign]
        BY <1>9, <3>2 DEF ReadManifest, Finish, Goto, TypeOK, CommandType,
           Locked
      <4>2. /\ job'[k].target = manifest.campaign
            /\ job'[k].op = job[k].op /\ job'[k].mine = job[k].mine
        BY <4>1 DEF TypeOK, CommandType, Job
      <4>3. StopInv(k)'
        BY <4>1, <4>2 DEF StopInv, Owned, TypeOK, FileType, Manifest
      <4>4. QED
        BY <1>1, <4>1, <4>3 DEF CommandInv, FreshInv, PublishInv, ReportInv,
           Locked, Claimed, Publishing, StopSteps
    <3>3. QED
      BY <3>1, <3>2
  <2>3. QED
    BY <1>2, <2>1, <2>2
<1>10. CASE StopObserver(k)
  <2>1. Quiet
    BY <1>10, SessionAssumption, <1>1 DEF Quiet, Bystander, StopObserver,
       StopObserverProcess, Goto, NoRevival, launchers, watchers, counters,
       files, TypeOK, CommandType, ProcessType, WatcherType, ObserverLive,
       WatcherLive, CommandInv, StopInv, StopSteps
  <2>2. CommandInv(k)'
    <3>1. CASE pc'[k] \notin Locked
      BY <3>1, Unlocked
    <3>2. CASE pc'[k] \in Locked
      BY <1>10, <1>1, <3>2, SessionAssumption DEF TypeOK, CommandType, Goto,
         StopObserver, StopObserverProcess, StopInv, ReportInv, launchers,
         watchers, ProcessType, WatcherType, ObserverLive, WatcherLive,
         CommandInv, FreshInv, PublishInv, Locked, Claimed, Publishing,
         StopSteps
    <3>3. QED
      BY <3>1, <3>2
  <2>3. QED
    BY <1>2, <2>1, <2>2
<1>11. CASE StopLauncher(k)
  <2>1. Quiet
    BY <1>11, SessionAssumption, <1>1 DEF Quiet, Bystander, StopLauncher,
       StopLauncherTree, KillTrees, Goto, NoRevival, launchers, watchers,
       counters, files, TypeOK, CommandType, ProcessType, WatcherType,
       ObserverLive, WatcherLive, CommandInv, StopInv, StopSteps
  <2>2. CommandInv(k)'
    <3>1. CASE pc'[k] \notin Locked
      BY <3>1, Unlocked
    <3>2. CASE pc'[k] \in Locked
      BY <1>11, <1>1, <3>2, SessionAssumption DEF TypeOK, CommandType, Goto,
         StopLauncher, StopLauncherTree, KillTrees, StopInv, ReportInv,
         launchers, watchers, ProcessType, WatcherType, ObserverLive,
         WatcherLive, CommandInv, FreshInv, PublishInv, Locked, Claimed,
         Publishing, StopSteps
    <3>3. QED
      BY <3>1, <3>2
  <2>3. QED
    BY <1>2, <2>1, <2>2
<1>12. CASE StopWatcher(k)
  <2>1. Quiet
    BY <1>12, SessionAssumption, <1>1 DEF Quiet, Bystander, StopWatcher,
       StopWatcherProcess, WatcherEnds, Goto, NoRevival, launchers, watchers,
       counters, files, TypeOK, CommandType, ProcessType, WatcherType,
       ObserverLive, WatcherLive, CommandInv, StopInv, StopSteps
  <2>2. CommandInv(k)'
    <3>1. CASE pc'[k] \notin Locked
      BY <3>1, Unlocked
    <3>2. CASE pc'[k] \in Locked
      BY <1>12, <1>1, <3>2, SessionAssumption DEF TypeOK, CommandType, Goto,
         StopWatcher, StopWatcherProcess, WatcherEnds, StopInv, ReportInv,
         launchers, watchers, ProcessType, WatcherType, ObserverLive,
         WatcherLive, CommandInv, FreshInv, PublishInv, Locked, Claimed,
         Publishing, StopSteps
    <3>3. QED
      BY <3>1, <3>2
  <2>3. QED
    BY <1>2, <2>1, <2>2
<1>13. CASE FinalizeDiagnostics(k)
  <2>1. Quiet
    BY <1>13, SessionAssumption, <1>1 DEF Quiet, Bystander,
       FinalizeDiagnostics, Goto, NoRevival, launchers, watchers, counters,
       files, TypeOK, CommandType, ProcessType, WatcherType, ObserverLive,
       WatcherLive, CommandInv, StopInv, StopSteps
  <2>2. CommandInv(k)'
    <3>1. CASE pc'[k] \notin Locked
      BY <3>1, Unlocked
    <3>2. CASE pc'[k] \in Locked
      <4>1. /\ pc[k] = "finalize" /\ pc'[k] = "record" /\ lock' = lock
            /\ manifest' = manifest
            /\ UNCHANGED <<launchers, observer, watchers>>
            /\ job' = job \/ job' = [job EXCEPT ![k].fin = TRUE]
        BY <1>13 DEF FinalizeDiagnostics, Goto, TypeOK, CommandType
      <4>2. /\ job'[k].target = job[k].target /\ job'[k].op = job[k].op
            /\ job'[k].mine = job[k].mine /\ job'[k].obs = job[k].obs
            /\ job'[k].lau = job[k].lau /\ job'[k].wat = job[k].wat
        BY <4>1 DEF TypeOK, CommandType, Job
      <4>3. StopInv(k)' /\ ReportInv(k)'
        BY <1>1, <4>1, <4>2 DEF CommandInv, StopInv, ReportInv, launchers,
           watchers, ObserverLive, WatcherLive, StopSteps
      <4>4. QED
        BY <1>1, <4>1, <4>3 DEF CommandInv, FreshInv, PublishInv, Locked,
           Claimed, Publishing
    <3>3. QED
      BY <3>1, <3>2
  <2>3. QED
    BY <1>2, <2>1, <2>2
<1>14. CASE AbortObserver(k)
  <2>1. Quiet
    BY <1>14, SessionAssumption, <1>1 DEF Quiet, Bystander, AbortObserver,
       StopObserverProcess, Goto, NoRevival, launchers, watchers, counters,
       files, TypeOK, CommandType, ProcessType, WatcherType, ObserverLive,
       WatcherLive
  <2>2. CommandInv(k)'
    <3>1. /\ pc'[k] \in Publishing /\ pc[k] \in Publishing
          /\ job' = job /\ lock' = lock
      BY <1>14 DEF TypeOK, CommandType, Goto, AbortObserver, Publishing
    <3>2. manifest' = manifest
      BY <1>14 DEF AbortObserver
    <3>3. QED
      BY <1>1, <3>1, <3>2 DEF CommandInv, PublishInv, FreshInv, StopInv,
         ReportInv, Locked, Claimed, Publishing, StopSteps
  <2>3. QED
    BY <1>2, <2>1, <2>2
<1>15. CASE EndBackup(k)
  <2>1. Quiet
    BY <1>15, SessionAssumption, <1>1 DEF Quiet, Bystander, EndBackup, Finish,
       Release, Goto, NoRevival, launchers, watchers, counters, files, TypeOK,
       CommandType, ProcessType, WatcherType, ObserverLive, WatcherLive
  <2>2. CommandInv(k)'
    <3>1. pc'[k] \notin Locked
      BY <1>15 DEF TypeOK, CommandType, Goto, EndBackup, Finish, Locked
    <3>2. QED
      BY <3>1, Unlocked
  <2>3. QED
    BY <1>2, <2>1, <2>2
<1>16. CASE BeginStart(k)
  <2>1. Quiet
    BY <1>16, SessionAssumption, <1>1 DEF Quiet, Bystander, BeginStart, Issue,
       None, Goto, NoRevival, launchers, watchers, counters, files, TypeOK,
       CommandType, ProcessType, WatcherType, ObserverLive, WatcherLive
  <2>2. CommandInv(k)'
    <3>1. CASE pc'[k] \notin Locked
      BY <3>1, Unlocked
    <3>2. CASE pc'[k] \in Locked
      BY <1>16, <1>1, <3>2, SessionAssumption DEF TypeOK, CommandType, Goto,
         BeginStart, Issue, None, CommandInv, FreshInv, PublishInv, StopInv,
         ReportInv, Locked, Claimed, Publishing, StopSteps
    <3>3. QED
      BY <3>1, <3>2
  <2>3. QED
    BY <1>2, <2>1, <2>2
<1>17. CASE BeginStop(k)
  <2>1. Quiet
    BY <1>17, SessionAssumption, <1>1 DEF Quiet, Bystander, BeginStop, Issue,
       Goto, NoRevival, launchers, watchers, counters, files, TypeOK,
       CommandType, ProcessType, WatcherType, ObserverLive, WatcherLive
  <2>2. CommandInv(k)'
    <3>1. pc'[k] \notin Locked
      BY <1>17 DEF TypeOK, CommandType, Goto, BeginStop, Locked
    <3>2. QED
      BY <3>1, Unlocked
  <2>3. QED
    BY <1>2, <2>1, <2>2
<1>18. CASE BeginBackup(k)
  <2>1. Quiet
    BY <1>18, SessionAssumption, <1>1 DEF Quiet, Bystander, BeginBackup, Issue,
       Goto, NoRevival, launchers, watchers, counters, files, TypeOK,
       CommandType, ProcessType, WatcherType, ObserverLive, WatcherLive
  <2>2. CommandInv(k)'
    <3>1. pc'[k] \notin Locked
      BY <1>18 DEF TypeOK, CommandType, Goto, BeginBackup, Locked
    <3>2. QED
      BY <3>1, Unlocked
  <2>3. QED
    BY <1>2, <2>1, <2>2
<1>19. CASE RollbackLauncher(k)
  <2>1. Quiet
    BY <1>19, SessionAssumption, <1>1 DEF Quiet, Bystander, RollbackLauncher,
       Finish, Release, KillTrees, Fault, Goto, NoRevival, launchers, watchers,
       counters, files, TypeOK, CommandType, ProcessType, WatcherType,
       ObserverLive, WatcherLive
  <2>2. CommandInv(k)'
    <3>1. pc'[k] \notin Locked
      BY <1>19 DEF TypeOK, CommandType, Goto, RollbackLauncher, Finish, Locked
    <3>2. QED
      BY <3>1, Unlocked
  <2>3. QED
    BY <1>2, <2>1, <2>2
<1>20. CASE FailObserver(k)
  <2>1. Quiet
    BY <1>20, SessionAssumption, <1>1 DEF Quiet, Bystander, FailObserver,
       Fault, Goto, NoRevival, launchers, watchers, counters, files, TypeOK,
       CommandType, ProcessType, WatcherType, ObserverLive, WatcherLive
  <2>2. CommandInv(k)'
    <3>1. /\ pc'[k] \in Publishing /\ pc[k] \in Publishing
          /\ job' = job /\ lock' = lock
      BY <1>20 DEF TypeOK, CommandType, Goto, FailObserver, Publishing
    <3>2. manifest' = manifest
      BY <1>20 DEF FailObserver
    <3>3. QED
      BY <1>1, <3>1, <3>2 DEF CommandInv, PublishInv, FreshInv, StopInv,
         ReportInv, Locked, Claimed, Publishing, StopSteps
  <2>3. QED
    BY <1>2, <2>1, <2>2
<1>21. CASE FailWatcher(k)
  <2>1. Quiet
    BY <1>21, SessionAssumption, <1>1 DEF Quiet, Bystander, FailWatcher, Fault,
       Goto, NoRevival, launchers, watchers, counters, files, TypeOK,
       CommandType, ProcessType, WatcherType, ObserverLive, WatcherLive
  <2>2. CommandInv(k)'
    <3>1. /\ pc'[k] \in Publishing /\ pc[k] \in Publishing
          /\ job' = job /\ lock' = lock
      BY <1>21 DEF TypeOK, CommandType, Goto, FailWatcher, Publishing
    <3>2. manifest' = manifest
      BY <1>21 DEF FailWatcher
    <3>3. QED
      BY <1>1, <3>1, <3>2 DEF CommandInv, PublishInv, FreshInv, StopInv,
         ReportInv, Locked, Claimed, Publishing, StopSteps
  <2>3. QED
    BY <1>2, <2>1, <2>2
<1>22. CASE Kill(k)
  <2>1. Quiet
    BY <1>22, SessionAssumption, <1>1 DEF Quiet, Bystander, Kill, Finish,
       Release, Fault, Goto, NoRevival, launchers, watchers, counters, files,
       TypeOK, CommandType, ProcessType, WatcherType, ObserverLive, WatcherLive
  <2>2. CommandInv(k)'
    <3>1. pc'[k] \notin Locked
      BY <1>22 DEF TypeOK, CommandType, Goto, Kill, Finish, Locked
    <3>2. QED
      BY <3>1, Unlocked
  <2>3. QED
    BY <1>2, <2>1, <2>2
<1>23. CASE Interrupt(k)
  <2>1. Quiet
    BY <1>23, SessionAssumption, <1>1 DEF Quiet, Bystander, Interrupt, Finish,
       Release, Fault, Goto, NoRevival, launchers, watchers, counters, files,
       TypeOK, CommandType, ProcessType, WatcherType, ObserverLive, WatcherLive
  <2>2. CommandInv(k)'
    <3>1. pc'[k] \notin Locked
      BY <1>23 DEF TypeOK, CommandType, Goto, Interrupt, Finish, GateWait,
         Locked
    <3>2. QED
      BY <3>1, Unlocked
  <2>3. QED
    BY <1>2, <2>1, <2>2
<1>24. QED
  BY <1>3, <1>4, <1>5, <1>6, <1>7, <1>8, <1>9, <1>10, <1>11, <1>12, <1>13,
     <1>14, <1>15, <1>16, <1>17, <1>18, <1>19, <1>20, <1>21, <1>22, <1>23

(* Commands that write the manifest or spawn a process hold the lock. *)
LEMMA PublishingCommandStep ==
  ASSUME TypeOK, TypeOK', SessionInv, NEW k \in Controllers,
         \/ SpawnLauncher(k) \/ PublishLauncher(k) \/ SpawnObserver(k)
            \/ PublishObserver(k) \/ SpawnWatcher(k) \/ PublishWatcher(k)
            \/ AbortLauncher(k) \/ RecordStop(k)
  PROVE  SessionInv'
<1>1. CommandInv(k) /\ ManifestInv
  BY DEF SessionInv
<1> DEFINE Serialized == /\ pc[k] \in Locked
                         /\ \A j \in Controllers \ {k} : pc'[j] = pc[j]
<1>2. Serialized /\ ManifestInv' /\ CommandInv(k)' => SessionInv'
  BY LockedStep
<1> HIDE DEF Serialized
<1>3. CASE SpawnLauncher(k)
  <2>1. Serialized
    BY <1>3 DEF Serialized, SpawnLauncher, Goto, Locked, TypeOK, CommandType
  <2>2. ManifestInv'
    BY <1>3, <1>1 DEF SpawnLauncher, ManifestInv, StoppedRolesGone, CommandInv,
       TypeOK, FileType, Manifest, CommandType, counters, FreshInv, Claimed,
       RecordedAlive, launchers, watchers, ObserverLive, WatcherLive,
       ProcessType, Campaign, None
  <2>3. CommandInv(k)'
    BY <1>3, <1>1 DEF SpawnLauncher, Goto, TypeOK, CommandType, CommandInv,
       FreshInv, PublishInv, StopInv, ReportInv, Locked, Claimed, Publishing,
       StopSteps, RecordedAlive, counters, watchers, ObserverLive, WatcherLive,
       ProcessType, FileType, Manifest, Campaign, None
  <2>4. QED
    BY <1>2, <2>1, <2>2, <2>3
<1>4. CASE PublishLauncher(k)
  <2>1. Serialized
    BY <1>4 DEF Serialized, PublishLauncher, Goto, Locked, TypeOK, CommandType
  <2>2. ManifestInv'
    BY <1>4, <1>1 DEF PublishLauncher, ManifestInv, StoppedRolesGone,
       CommandInv, TypeOK, FileType, Manifest, CommandType, counters, FreshInv,
       Claimed, NoManifest
  <2>3. CommandInv(k)'
    BY <1>4, <1>1 DEF PublishLauncher, Goto, TypeOK, CommandType, CommandInv,
       FreshInv, PublishInv, StopInv, ReportInv, Locked, Claimed, Publishing,
       StopSteps, NoManifest
  <2>4. QED
    BY <1>2, <2>1, <2>2, <2>3
<1>5. CASE SpawnObserver(k)
  <2>1. Serialized
    BY <1>5 DEF Serialized, SpawnObserver, Goto, Locked, TypeOK, CommandType
  <2>2. ManifestInv'
    BY <1>5, <1>1 DEF SpawnObserver, ManifestInv, StoppedRolesGone, CommandInv,
       TypeOK, FileType, Manifest, CommandType, counters, PublishInv,
       Publishing
  <2>3. CommandInv(k)'
    BY <1>5, <1>1 DEF SpawnObserver, Goto, TypeOK, CommandType, CommandInv,
       FreshInv, PublishInv, StopInv, ReportInv, Locked, Claimed, Publishing,
       StopSteps
  <2>4. QED
    BY <1>2, <2>1, <2>2, <2>3
<1>6. CASE PublishObserver(k)
  <2>1. Serialized
    BY <1>6 DEF Serialized, PublishObserver, Goto, Locked, TypeOK, CommandType
  <2>2. ManifestInv'
    BY <1>6, <1>1 DEF PublishObserver, ManifestInv, StoppedRolesGone,
       CommandInv, TypeOK, FileType, Manifest, CommandType, counters,
       PublishInv, Publishing
  <2>3. CommandInv(k)'
    BY <1>6, <1>1 DEF PublishObserver, Goto, TypeOK, CommandType, CommandInv,
       FreshInv, PublishInv, StopInv, ReportInv, Locked, Claimed, Publishing,
       StopSteps
  <2>4. QED
    BY <1>2, <2>1, <2>2, <2>3
<1>7. CASE SpawnWatcher(k)
  <2>1. Serialized
    BY <1>7 DEF Serialized, SpawnWatcher, Goto, Locked, TypeOK, CommandType
  <2>2. ManifestInv'
    BY <1>7, <1>1 DEF SpawnWatcher, ManifestInv, StoppedRolesGone, CommandInv,
       TypeOK, FileType, Manifest, CommandType, counters, PublishInv,
       Publishing
  <2>3. CommandInv(k)'
    BY <1>7, <1>1 DEF SpawnWatcher, Goto, TypeOK, CommandType, CommandInv,
       FreshInv, PublishInv, StopInv, ReportInv, Locked, Claimed, Publishing,
       StopSteps
  <2>4. QED
    BY <1>2, <2>1, <2>2, <2>3
<1>8. CASE PublishWatcher(k)
  <2>1. Serialized
    BY <1>8 DEF Serialized, PublishWatcher, Goto, Locked, TypeOK, CommandType
  <2>2. ManifestInv'
    BY <1>8, <1>1 DEF PublishWatcher, ManifestInv, StoppedRolesGone,
       CommandInv, TypeOK, FileType, Manifest, CommandType, counters,
       PublishInv, Publishing
  <2>3. CommandInv(k)'
    <3>1. pc'[k] \notin Locked
      BY <1>8 DEF TypeOK, CommandType, Goto, PublishWatcher, GateWait, Locked
    <3>2. QED
      BY <3>1, Unlocked
  <2>4. QED
    BY <1>2, <2>1, <2>2, <2>3
<1>9. CASE AbortLauncher(k)
  <2>1. Serialized
    BY <1>9 DEF Serialized, AbortLauncher, Finish, Goto, Locked, TypeOK,
       CommandType
  <2>2. ManifestInv'
    BY <1>9, <1>1 DEF AbortLauncher, ManifestInv, StoppedRolesGone, CommandInv,
       TypeOK, FileType, Manifest, CommandType, counters, PublishInv,
       Publishing
  <2>3. CommandInv(k)'
    <3>1. pc'[k] \notin Locked
      BY <1>9 DEF TypeOK, CommandType, Goto, AbortLauncher, Finish, Locked
    <3>2. QED
      BY <3>1, Unlocked
  <2>4. QED
    BY <1>2, <2>1, <2>2, <2>3
<1>10. CASE RecordStop(k)
  <2>1. Serialized
    BY <1>10 DEF Serialized, RecordStop, Finish, Goto, Locked, TypeOK,
       CommandType
  <2>2. ManifestInv'
    BY <1>10, <1>1 DEF RecordStop, ManifestInv, StoppedRolesGone, CommandInv,
       TypeOK, FileType, Manifest, CommandType, counters, StopOk, ReportInv,
       StopInv, StopSteps, RecordedAlive, launchers, watchers, ObserverLive,
       WatcherLive, Job, Campaign, None
  <2>3. CommandInv(k)'
    <3>1. pc'[k] \notin Locked
      BY <1>10 DEF TypeOK, CommandType, Goto, RecordStop, Finish, Locked
    <3>2. QED
      BY <3>1, Unlocked
  <2>4. QED
    BY <1>2, <2>1, <2>2, <2>3
<1>11. QED
  BY <1>3, <1>4, <1>5, <1>6, <1>7, <1>8, <1>9, <1>10

(* Every step keeps the invariant. *)
LEMMA SessionStep == TypeOK /\ SessionInv /\ [Next]_vars => TypeOK' /\ SessionInv'
<1> SUFFICES ASSUME TypeOK, SessionInv, [Next]_vars PROVE TypeOK' /\ SessionInv'
  OBVIOUS
<1>1. TypeOK'
  BY SessionTarget, TypeStep
<1>2. ASSUME NEW k \in Controllers, Command(k) \/ Invoke(k) \/ CommandFault(k)
      PROVE  SessionInv'
  BY <1>1, <1>2, QuietCommandStep, PublishingCommandStep
     DEF Command, Invoke, CommandFault
<1>3. ASSUME NEW c \in Campaign, Processes(c) PROVE SessionInv'
  BY <1>1, <1>3, ProcessStep
<1>4. CASE UNCHANGED vars
  <2>1. NoRevival
    BY <1>4 DEF NoRevival, vars, launchers, watchers, ObserverLive, WatcherLive
  <2>2. /\ manifest' = manifest /\ started <= started'
        /\ \A j \in Controllers : Bystander(j)
    BY <1>4 DEF Bystander, vars, control, counters, TypeOK, CommandType
  <2>3. QED
    BY <1>1, <2>1, <2>2, QuietStep
<1>5. QED
  BY <1>1, <1>2, <1>3, <1>4 DEF Next

(* Every reachable state has the types and the session invariant. *)
LEMMA SessionInvariant == Spec => [](TypeOK /\ SessionInv)
<1>1. Init => TypeOK /\ SessionInv
  BY TypeInit, SessionInit
<1>2. QED
  BY <1>1, SessionStep, PTL DEF Spec

(* A step of one command leaves the locals of the others alone. *)
LEMMA OnlyActor ==
  ASSUME TypeOK, NEW k \in Controllers, Command(k) \/ Invoke(k) \/ CommandFault(k),
         NEW j \in Controllers \ {k}
  PROVE  pc'[j] = pc[j] /\ job'[j] = job[j]
BY DEF Command, Invoke, CommandFault, CheckStart, SpawnLauncher,
   PublishLauncher, SpawnObserver, PublishObserver, SpawnWatcher,
   PublishWatcher, AbortObserver, AbortLauncher, CheckOwner, ReadGate,
   JudgeGate, JudgeHealth, GateWaitEnds, EnterStop, ReadManifest, StopObserver,
   StopLauncher, StopWatcher, FinalizeDiagnostics, RecordStop, EndBackup,
   BeginStart, BeginStop, BeginBackup, RollbackLauncher, FailObserver,
   FailWatcher, Kill, Interrupt, Finish, Goto, TypeOK, CommandType

(* Launchers, observers and watchers leave the commands and the manifest alone. *)
LEMMA ProcessesControl ==
  ASSUME NEW c \in Campaign, Processes(c)
  PROVE  UNCHANGED <<lock, manifest, pc, job, started>>
BY DEF Processes, PrepareRun, BringUpClients, BringUpFails, MarkRunning,
   Teardown, MarkFinished, RootLost, ObserverReports, ObserverExits,
   WatcherStart, WatcherTop, WatcherSample, WatcherRequestsStop,
   WatcherStopsObserver, WatcherStopsLauncher, control, counters

(* Only PublishLauncher makes the manifest name another campaign.              *)
LEMMA ManifestSteps ==
  ASSUME TypeOK, [Next]_vars
  PROVE  \/ manifest'.campaign = manifest.campaign
         \/ \E k \in Controllers : PublishLauncher(k)
<1>1. ASSUME NEW k \in Controllers, Command(k) \/ Invoke(k) \/ CommandFault(k)
      PROVE  \/ PublishLauncher(k) \/ PublishObserver(k) \/ PublishWatcher(k)
             \/ AbortLauncher(k) \/ RecordStop(k) \/ manifest' = manifest
  BY <1>1 DEF Command, Invoke, CommandFault, CheckStart, SpawnLauncher,
     SpawnObserver, SpawnWatcher, AbortObserver, CheckOwner, ReadGate,
     JudgeGate, JudgeHealth, EnterStop, ReadManifest, StopObserver,
     StopLauncher, StopWatcher, FinalizeDiagnostics, EndBackup, BeginStart,
     BeginStop, BeginBackup, RollbackLauncher, FailObserver, FailWatcher,
     Kill, Interrupt
<1>2. ASSUME NEW k \in Controllers,
             \/ PublishObserver(k) \/ PublishWatcher(k) \/ AbortLauncher(k)
             \/ RecordStop(k)
      PROVE  manifest'.campaign = manifest.campaign
  BY <1>2 DEF PublishObserver, PublishWatcher, AbortLauncher, RecordStop,
     TypeOK, FileType, Manifest
<1>3. ASSUME NEW c \in Campaign, Processes(c) PROVE manifest' = manifest
  BY <1>3, ProcessesControl
<1>4. CASE UNCHANGED vars
  BY <1>4 DEF vars, control
<1>5. QED
  BY <1>1, <1>2, <1>3, <1>4 DEF Next

(* TypeOK: the session's files, processes and command locals keep their types. *)
THEOREM TypeCorrect == Spec => []TypeOK
BY SessionInvariant, PTL

(* StopsOwnCampaign: because a stop reads the manifest and works under the     *)
(* lock, no interleaving of commands, kills and interrupts makes it stop or    *)
(* record a campaign other than the one the manifest names, or run-to-gate     *)
(* stop a campaign it did not start.                                           *)
THEOREM StopIsolated == Spec => []StopsOwnCampaign
<1>1. SessionInv => StopsOwnCampaign
  BY DEF SessionInv, CommandInv, StopInv, StopsOwnCampaign
<1>2. QED
  BY <1>1, SessionInvariant, PTL

(* StoppedRolesGone: stop_session records "stopped" only over dead processes,  *)
(* and they stay dead for as long as that manifest stands.                     *)
THEOREM StoppedMeansGone == Spec => []StoppedRolesGone
<1>1. SessionInv => StoppedRolesGone
  BY DEF SessionInv, ManifestInv
<1>2. QED
  BY <1>1, SessionInvariant, PTL

(* ReplacesDeadSession: the check start_session makes still holds when the     *)
(* manifest is replaced several steps later, so a live session is never        *)
(* orphaned by the next campaign.                                              *)
THEOREM LiveSessionKept == Spec => ReplacesDeadSession
<1>1. ASSUME TypeOK, SessionInv, [Next]_vars
      PROVE  [manifest'.campaign # manifest.campaign => ~RecordedAlive]_vars
  <2>1. ASSUME NEW k \in Controllers, PublishLauncher(k) PROVE ~RecordedAlive
    BY <1>1, <2>1 DEF PublishLauncher, SessionInv, CommandInv, FreshInv, Claimed
  <2>2. QED
    BY <1>1, <2>1, ManifestSteps
<1>2. QED
  BY <1>1, SessionInvariant, PTL DEF Spec, ReplacesDeadSession

-------------------------------------------------------------------------------
(* The clients.  A profile is in use by a launcher between prepare_clean_run   *)
(* and the end of its teardown, and by one launcher only; a campaign that is   *)
(* not named yet, or whose launcher is not spawned yet, has no launcher.       *)

InUse == {"prepared", "up", "running", "finishing"}

PairInv ==
  /\ \A c \in Campaign : clients[c] => phase[c] \in {"up", "running"}
  /\ \A c, d \in Campaign : phase[c] \in InUse /\ phase[d] \in InUse => c = d

UnusedInv ==
  /\ \A c \in Campaign : c > started => phase[c] = "none"
  /\ \A k \in Controllers :
       /\ pc[k] = "spawn" => phase[job[k].mine] = "none"
       /\ pc[k] = "identify" => phase[job[k].mine] # "none"
  /\ manifest.campaign # None => phase[manifest.campaign] # "none"

ClientsInv == PairInv /\ UnusedInv

(* What a step may do to the launchers: nothing, one of the launcher's own     *)
(* steps, a spawn, or the kill of some trees.                                  *)
Prepares(c) ==
  /\ phase[c] = "spawned"
  /\ root' = [d \in Campaign |-> root[d] /\ d \notin Stale(c)]
  /\ clients' = [d \in Campaign |-> clients[d] /\ d \notin Stale(c)]
  /\ phase' = [d \in Campaign |-> IF d = c THEN "prepared"
                                  ELSE IF d \in Stale(c) THEN "gone"
                                  ELSE phase[d]]

LauncherStep ==
  \/ UNCHANGED launchers
  \/ \E k \in Controllers : SpawnLauncher(k)
  \/ \E C \in SUBSET Campaign : KillTrees(C)
  \/ \E c \in Campaign : \/ Prepares(c) \/ BringUpClients(c) \/ MarkRunning(c)
                         \/ Teardown(c) \/ MarkFinished(c) \/ RootLost(c)

LEMMA LauncherSteps ==
  ASSUME TypeOK, SessionInv, [Next]_vars
  PROVE  LauncherStep
<1>1. ASSUME NEW k \in Controllers, Command(k) \/ Invoke(k) \/ CommandFault(k)
      PROVE  LauncherStep
  <2>1. CASE SpawnLauncher(k)
    BY <2>1 DEF LauncherStep
  <2>2. CASE StopLauncher(k)
    <3>1. job[k].target \in Campaign
      BY <2>2 DEF SessionInv, CommandInv, StopInv, StopSteps, StopLauncher
    <3>2. UNCHANGED launchers \/ KillTrees({job[k].target})
      BY <2>2 DEF StopLauncher, StopLauncherTree
    <3>3. QED
      BY <3>1, <3>2 DEF LauncherStep
  <2>3. CASE AbortLauncher(k) \/ RollbackLauncher(k)
    <3>1. UNCHANGED launchers \/ KillTrees({job[k].mine})
      BY <2>3 DEF AbortLauncher, RollbackLauncher, StopLauncherTree
    <3>2. KillTrees({job[k].mine}) => KillTrees({job[k].mine} \cap Campaign)
      BY DEF KillTrees
    <3>3. QED
      BY <3>1, <3>2 DEF LauncherStep
  <2>4. CASE ~(\/ SpawnLauncher(k) \/ StopLauncher(k) \/ AbortLauncher(k)
               \/ RollbackLauncher(k))
    <3>1. UNCHANGED launchers
      BY <1>1, <2>4 DEF Command, Invoke, CommandFault, CheckStart,
       PublishLauncher, SpawnObserver, PublishObserver, SpawnWatcher,
       PublishWatcher, AbortObserver, CheckOwner, ReadGate,
       JudgeGate, JudgeHealth, EnterStop, ReadManifest, StopObserver,
       StopWatcher, FinalizeDiagnostics, RecordStop, EndBackup, BeginStart,
       BeginStop, BeginBackup, FailObserver, FailWatcher, Kill, Interrupt
    <3>2. QED
      BY <3>1 DEF LauncherStep
  <2>5. QED
    BY <2>1, <2>2, <2>3, <2>4
<1>2. ASSUME NEW c \in Campaign, Processes(c) PROVE LauncherStep
  <2>1. CASE PrepareRun(c)
    <3>1. Prepares(c) \/ \E D \in SUBSET Stale(c) : KillTrees({c} \cup D)
      BY <2>1 DEF PrepareRun, Prepares
    <3>2. ASSUME NEW D \in SUBSET Stale(c) PROVE {c} \cup D \in SUBSET Campaign
      BY DEF Stale
    <3>3. QED
      BY <3>1, <3>2 DEF LauncherStep
  <2>2. CASE BringUpFails(c)
    BY <2>2 DEF BringUpFails, LauncherStep
  <2>3. CASE WatcherStopsLauncher(c)
    BY <2>3 DEF WatcherStopsLauncher, LauncherStep
  <2>4. CASE \/ BringUpClients(c) \/ MarkRunning(c) \/ Teardown(c)
             \/ MarkFinished(c) \/ RootLost(c)
    BY <2>4 DEF LauncherStep
  <2>5. CASE \/ ObserverReports(c) \/ ObserverExits(c) \/ WatcherStart(c)
             \/ WatcherTop(c) \/ WatcherSample(c) \/ WatcherRequestsStop(c)
             \/ WatcherStopsObserver(c)
    <3>1. UNCHANGED launchers
      BY <2>5 DEF ObserverReports, ObserverExits, WatcherStart, WatcherTop,
         WatcherSample, WatcherRequestsStop, WatcherStopsObserver
    <3>2. QED
      BY <3>1 DEF LauncherStep
  <2>6. QED
    BY <1>2, <2>1, <2>2, <2>3, <2>4, <2>5 DEF Processes
<1>3. CASE UNCHANGED vars
  BY <1>3 DEF vars, LauncherStep
<1>4. QED
  BY <1>1, <1>2, <1>3 DEF Next

(* A launcher starts from nothing and never returns to it: only a spawn leaves *)
(* "none", and "gone" is left by none of the others.                           *)
LEMMA PairStep ==
  ASSUME TypeOK, SessionInv, ClientsInv, LauncherStep
  PROVE  PairInv'
<1>1. CASE UNCHANGED launchers
  BY <1>1 DEF ClientsInv, PairInv, launchers
<1>2. ASSUME NEW k \in Controllers, SpawnLauncher(k) PROVE PairInv'
  <2>1. phase[job[k].mine] = "none" /\ job[k].mine \in Campaign
    BY <1>2 DEF SpawnLauncher, ClientsInv, UnusedInv, SessionInv, CommandInv,
       FreshInv, Claimed
  <2>2. QED
    BY <1>2, <2>1 DEF SpawnLauncher, ClientsInv, PairInv, TypeOK, ProcessType, InUse
<1>3. ASSUME NEW C \in SUBSET Campaign, KillTrees(C) PROVE PairInv'
  BY <1>3 DEF KillTrees, ClientsInv, PairInv, TypeOK, ProcessType, InUse
<1>4. ASSUME NEW c \in Campaign, Prepares(c) PROVE PairInv'
  BY <1>4 DEF Prepares, Stale, ClientsInv, PairInv, TypeOK, ProcessType, InUse
<1>5. ASSUME NEW c \in Campaign,
             BringUpClients(c) \/ MarkRunning(c) \/ Teardown(c) \/ MarkFinished(c)
      PROVE PairInv'
  BY <1>5 DEF BringUpClients, MarkRunning, Teardown, MarkFinished, ClientsInv,
     PairInv, TypeOK, ProcessType, InUse
<1>6. ASSUME NEW c \in Campaign, RootLost(c) PROVE PairInv'
  BY <1>6 DEF RootLost, ClientsInv, PairInv
<1>7. QED
  BY <1>1, <1>2, <1>3, <1>4, <1>5, <1>6 DEF LauncherStep

(* Only a spawn turns "none" into something else, and nothing turns back. *)
LEMMA NoneKept ==
  ASSUME TypeOK, LauncherStep, NEW c \in Campaign
  PROVE  \/ (phase'[c] = "none") <=> (phase[c] = "none")
         \/ \E k \in Controllers : SpawnLauncher(k) /\ job[k].mine = c
<1>1. CASE UNCHANGED launchers
  BY <1>1 DEF launchers
<1>2. ASSUME NEW k \in Controllers, SpawnLauncher(k)
      PROVE  job[k].mine = c \/ phase'[c] = phase[c]
  BY <1>2 DEF SpawnLauncher, TypeOK, ProcessType
<1>3. ASSUME NEW C \in SUBSET Campaign, KillTrees(C)
      PROVE  (phase'[c] = "none") <=> (phase[c] = "none")
  BY <1>3 DEF KillTrees, TypeOK, ProcessType
<1>4. ASSUME NEW d \in Campaign, Prepares(d)
      PROVE  (phase'[c] = "none") <=> (phase[c] = "none")
  BY <1>4 DEF Prepares, Stale, TypeOK, ProcessType
<1>5. ASSUME NEW d \in Campaign,
             \/ BringUpClients(d) \/ MarkRunning(d) \/ Teardown(d)
             \/ MarkFinished(d) \/ RootLost(d)
      PROVE  (phase'[c] = "none") <=> (phase[c] = "none")
  BY <1>5 DEF BringUpClients, MarkRunning, Teardown, MarkFinished, RootLost,
     TypeOK, ProcessType
<1>6. QED
  BY <1>1, <1>2, <1>3, <1>4, <1>5 DEF LauncherStep

(* The campaign a manifest names never decreases: a command that waits for    *)
(* its gate sees its own campaign or newer ones.                               *)
LEMMA ManifestGrows ==
  ASSUME TypeOK, SessionInv, [Next]_vars
  PROVE  /\ manifest.campaign \in Nat /\ manifest'.campaign \in Nat
         /\ \/ manifest'.campaign = manifest.campaign
            \/ manifest'.campaign > manifest.campaign
<1>1. manifest.campaign \in Nat
  BY DEF TypeOK, FileType, Manifest, Campaign, None
<1>2. ASSUME NEW k \in Controllers, PublishLauncher(k)
      PROVE  manifest'.campaign \in Nat /\ manifest'.campaign > manifest.campaign
  <2>1. manifest'.campaign = job[k].mine
    BY <1>2 DEF PublishLauncher, NoManifest
  <2>2. job[k].mine \in Campaign /\ manifest.campaign < job[k].mine
    BY <1>2 DEF PublishLauncher, SessionInv, CommandInv, FreshInv, Claimed
  <2>3. QED
    BY <1>1, <2>1, <2>2 DEF Campaign
<1>3. QED
  BY <1>1, <1>2, ManifestSteps

(* The counter of campaigns never decreases and is raised by CheckStart only. *)
LEMMA StartedSteps ==
  ASSUME TypeOK, [Next]_vars
  PROVE  \/ started' = started
         \/ started' = started + 1 /\ UNCHANGED launchers
            /\ \E k \in Controllers : CheckStart(k)
<1>1. ASSUME NEW k \in Controllers, Command(k) \/ Invoke(k) \/ CommandFault(k)
      PROVE  started' = started \/ CheckStart(k)
  BY <1>1 DEF Command, Invoke, CommandFault, SpawnLauncher,
     PublishLauncher, SpawnObserver, PublishObserver, SpawnWatcher,
     PublishWatcher, AbortObserver, AbortLauncher, CheckOwner, ReadGate,
     JudgeGate, JudgeHealth, EnterStop, ReadManifest, StopObserver,
     StopLauncher, StopWatcher, FinalizeDiagnostics, RecordStop, EndBackup,
     BeginStart, BeginStop, BeginBackup, RollbackLauncher, FailObserver,
     FailWatcher, Kill, Interrupt, counters
<1>2. ASSUME NEW k \in Controllers, CheckStart(k)
      PROVE  started' = started
             \/ (started' = started + 1 /\ UNCHANGED launchers)
  BY <1>2 DEF CheckStart
<1>3. ASSUME NEW c \in Campaign, Processes(c) PROVE started' = started
  BY <1>3, ProcessesControl
<1>4. CASE UNCHANGED vars
  BY <1>4 DEF vars, control, counters
<1>5. QED
  BY <1>1, <1>2, <1>3, <1>4 DEF Next

(* How a command comes to "spawn" and to "identify". *)
LEMMA SpawnArrivals ==
  ASSUME TypeOK, [Next]_vars, NEW k \in Controllers,
         pc'[k] \in {"spawn", "identify"}
  PROVE  \/ pc'[k] = pc[k] /\ job'[k] = job[k]
         \/ /\ pc'[k] = "spawn" /\ CheckStart(k) /\ started' = started + 1
            /\ job'[k].mine = started + 1
         \/ pc'[k] = "identify" /\ SpawnLauncher(k) /\ job'[k] = job[k]
<1>1. CASE Command(k) \/ Invoke(k) \/ CommandFault(k)
  <2>1. CASE CheckStart(k)
    <3>1. /\ pc'[k] = "spawn" /\ started' = started + 1
          /\ job' = [job EXCEPT ![k].mine = started + 1]
      BY <2>1 DEF CheckStart, Finish, Goto, TypeOK, CommandType
    <3>2. job'[k].mine = started + 1
      BY <3>1 DEF TypeOK, CommandType, Job
    <3>3. QED
      BY <2>1, <3>1, <3>2
  <2>2. CASE SpawnLauncher(k)
    BY <2>2 DEF SpawnLauncher, Goto, TypeOK, CommandType
  <2>3. CASE ~CheckStart(k) /\ ~SpawnLauncher(k)
    BY <1>1, <2>3 DEF Command, Invoke, CommandFault,
       PublishLauncher, SpawnObserver, PublishObserver, SpawnWatcher,
       PublishWatcher, AbortObserver, AbortLauncher, CheckOwner, ReadGate,
       JudgeGate, JudgeHealth, GateWaitEnds, EnterStop, ReadManifest,
       StopObserver, StopLauncher, StopWatcher, FinalizeDiagnostics, RecordStop,
       EndBackup, BeginStart, BeginStop, BeginBackup, RollbackLauncher,
       FailObserver, FailWatcher, Kill, Interrupt, Finish, Goto, TypeOK,
       CommandType
  <2>4. QED
    BY <2>1, <2>2, <2>3
<1>2. ASSUME NEW j \in Controllers \ {k}, Command(j) \/ Invoke(j) \/ CommandFault(j)
      PROVE  pc'[k] = pc[k] /\ job'[k] = job[k]
  BY <1>2, OnlyActor
<1>3. ASSUME NEW c \in Campaign, Processes(c) PROVE pc' = pc /\ job' = job
  BY <1>3, ProcessesControl
<1>4. CASE UNCHANGED vars
  BY <1>4 DEF vars, control
<1>5. QED
  BY <1>1, <1>2, <1>3, <1>4 DEF Next

(* The launcher of a campaign exists only once that campaign is spawned. *)
LEMMA UnusedStep ==
  ASSUME TypeOK, SessionInv, ClientsInv, [Next]_vars
  PROVE  UnusedInv'
<1>1. LauncherStep
  BY LauncherSteps
<1>2. started \in Nat /\ (started' = started \/ started' = started + 1)
  BY StartedSteps DEF TypeOK, CommandType
<1>3. ASSUME NEW j \in Controllers, SpawnLauncher(j)
      PROVE  /\ pc[j] \in Locked /\ lock = j /\ started' = started
             /\ job[j].mine \in Campaign /\ job[j].mine <= started
             /\ manifest' = manifest
             /\ phase' = [phase EXCEPT ![job[j].mine] = "spawned"]
  BY <1>3 DEF SpawnLauncher, SessionInv, CommandInv, FreshInv, Claimed, Locked,
     counters
<1>4. ASSUME NEW c \in Campaign, c > started' PROVE phase'[c] = "none"
  <2>1. phase[c] = "none" /\ c > started
    BY <1>2, <1>4 DEF ClientsInv, UnusedInv, Campaign
  <2>2. ASSUME NEW j \in Controllers, SpawnLauncher(j) PROVE job[j].mine # c
    BY <1>2, <1>3, <2>1, <2>2 DEF Campaign
  <2>3. QED
    BY <1>1, <2>1, <2>2, NoneKept
<1>5. ASSUME NEW k \in Controllers, pc'[k] = "spawn"
      PROVE  phase'[job'[k].mine] = "none"
  <2>1. CASE pc[k] = "spawn" /\ job'[k] = job[k]
    <3>1. job[k].mine \in Campaign /\ phase[job[k].mine] = "none" /\ lock = k
      BY <2>1 DEF SessionInv, CommandInv, FreshInv, Claimed, ClientsInv,
         UnusedInv, Locked
    <3>2. ASSUME NEW j \in Controllers PROVE ~SpawnLauncher(j)
      BY <1>3, <1>5, <3>1 DEF SpawnLauncher, Goto, TypeOK, CommandType
    <3>3. QED
      BY <1>1, <2>1, <3>1, <3>2, NoneKept
  <2>2. CASE /\ CheckStart(k) /\ started' = started + 1
             /\ job'[k].mine = started + 1
    <3>1. phase' = phase /\ started < MaxCampaign
      BY <2>2, <1>2 DEF CheckStart, launchers
    <3>2. started + 1 \in Campaign /\ started + 1 > started
      BY <1>2, <3>1, SessionAssumption DEF Campaign
    <3>3. QED
      BY <2>2, <3>1, <3>2 DEF ClientsInv, UnusedInv
  <2>3. QED
    BY <1>5, <2>1, <2>2, SpawnArrivals
<1>6. ASSUME NEW k \in Controllers, pc'[k] = "identify"
      PROVE  phase'[job'[k].mine] # "none"
  <2>1. CASE pc[k] = "identify" /\ job'[k] = job[k]
    <3>1. job[k].mine \in Campaign /\ phase[job[k].mine] # "none"
      BY <2>1 DEF SessionInv, CommandInv, FreshInv, Claimed, ClientsInv,
         UnusedInv
    <3>2. ASSUME NEW j \in Controllers, SpawnLauncher(j)
          PROVE  phase'[job[k].mine] # "none"
      BY <1>3, <3>1, <3>2 DEF TypeOK, ProcessType
    <3>3. QED
      BY <1>1, <2>1, <3>1, <3>2, NoneKept
  <2>2. CASE SpawnLauncher(k) /\ job'[k] = job[k]
    BY <1>3, <2>2 DEF TypeOK, ProcessType
  <2>3. QED
    BY <1>6, <2>1, <2>2, SpawnArrivals
<1>7. ASSUME manifest'.campaign # None
      PROVE  phase'[manifest'.campaign] # "none"
  <2>1. CASE manifest'.campaign = manifest.campaign
    <3>1. manifest.campaign \in Campaign /\ phase[manifest.campaign] # "none"
      BY <1>7, <2>1 DEF ClientsInv, UnusedInv, TypeOK, FileType, Manifest
    <3>2. ASSUME NEW j \in Controllers, SpawnLauncher(j)
          PROVE  phase'[manifest.campaign] # "none"
      BY <1>3, <3>1, <3>2 DEF TypeOK, ProcessType
    <3>3. QED
      BY <1>1, <2>1, <3>1, <3>2, NoneKept
  <2>2. ASSUME NEW k \in Controllers, PublishLauncher(k)
        PROVE  phase'[manifest'.campaign] # "none"
    BY <2>2 DEF PublishLauncher, NoManifest, launchers, ClientsInv, UnusedInv
  <2>3. QED
    BY <2>1, <2>2, ManifestSteps
<1>8. QED
  BY <1>4, <1>5, <1>6, <1>7 DEF UnusedInv

LEMMA ClientsInit == Init => ClientsInv
BY DEF Init, ClientsInv, PairInv, UnusedInv, InUse, NoManifest, None

(* Every reachable state has the session invariant and that of the clients. *)
LEMMA ClientsInvariant == Spec => [](TypeOK /\ SessionInv /\ ClientsInv)
<1>1. TypeOK /\ SessionInv /\ ClientsInv /\ [Next]_vars => ClientsInv'
  BY LauncherSteps, PairStep, UnusedStep DEF ClientsInv
<1>2. QED
  BY <1>1, ClientsInit, SessionInvariant, PTL DEF Spec

(* OneClientPair: whatever is killed, interrupted or left over, the launcher   *)
(* that brings its clients up first stops every other one, so the persistent   *)
(* profiles are never used by the clients of two campaigns.                    *)
THEOREM OnePairOfClients == Spec => []OneClientPair
<1>1. ClientsInv => OneClientPair
  BY DEF ClientsInv, PairInv, OneClientPair, InUse
<1>2. QED
  BY <1>1, ClientsInvariant, PTL

-------------------------------------------------------------------------------
(* Sealing.  While no recorded root dies alone, a launcher's root is alive for *)
(* as long as the launcher is, so a stop that found the root dead seals the    *)
(* index of a campaign whose launcher, and clients, are gone for good.         *)

RootInv == \A c \in Campaign : phase[c] \notin {"none", "gone"} => root[c]

SealInv == RootInv /\ \A c \in sealed : phase[c] = "gone"

LEMMA RootStep ==
  ASSUME "rootLost" \notin Faults, TypeOK, SessionInv, RootInv, LauncherStep
  PROVE  RootInv'
<1>1. CASE UNCHANGED launchers
  BY <1>1 DEF RootInv, launchers
<1>2. ASSUME NEW k \in Controllers, SpawnLauncher(k) PROVE RootInv'
  BY <1>2 DEF SpawnLauncher, RootInv, TypeOK, ProcessType
<1>3. ASSUME NEW C \in SUBSET Campaign, KillTrees(C) PROVE RootInv'
  BY <1>3 DEF KillTrees, RootInv, TypeOK, ProcessType
<1>4. ASSUME NEW c \in Campaign, Prepares(c) PROVE RootInv'
  BY <1>4 DEF Prepares, Stale, RootInv, TypeOK, ProcessType
<1>5. ASSUME NEW c \in Campaign,
             BringUpClients(c) \/ MarkRunning(c) \/ Teardown(c) \/ MarkFinished(c)
      PROVE RootInv'
  BY <1>5 DEF BringUpClients, MarkRunning, Teardown, MarkFinished, RootInv,
     TypeOK, ProcessType
<1>6. ASSUME NEW c \in Campaign PROVE ~RootLost(c)
  BY DEF RootLost, Fault
<1>7. QED
  BY <1>1, <1>2, <1>3, <1>4, <1>5, <1>6 DEF LauncherStep

(* A launcher that is gone stays gone. *)
LEMMA GoneKept ==
  ASSUME TypeOK, SessionInv, ClientsInv, LauncherStep, NEW c \in Campaign,
         phase[c] = "gone"
  PROVE  phase'[c] = "gone"
<1>1. CASE UNCHANGED launchers
  BY <1>1 DEF launchers
<1>2. ASSUME NEW k \in Controllers, SpawnLauncher(k) PROVE phase'[c] = "gone"
  <2>1. job[k].mine \in Campaign /\ phase[job[k].mine] = "none"
    BY <1>2 DEF SpawnLauncher, ClientsInv, UnusedInv, SessionInv, CommandInv,
       FreshInv, Claimed
  <2>2. QED
    BY <1>2, <2>1 DEF SpawnLauncher, TypeOK, ProcessType
<1>3. ASSUME NEW C \in SUBSET Campaign, KillTrees(C) PROVE phase'[c] = "gone"
  BY <1>3 DEF KillTrees
<1>4. ASSUME NEW d \in Campaign, Prepares(d) PROVE phase'[c] = "gone"
  BY <1>4 DEF Prepares, Stale
<1>5. ASSUME NEW d \in Campaign,
             \/ BringUpClients(d) \/ MarkRunning(d) \/ Teardown(d)
             \/ MarkFinished(d) \/ RootLost(d)
      PROVE  phase'[c] = "gone"
  BY <1>5 DEF BringUpClients, MarkRunning, Teardown, MarkFinished, RootLost,
     TypeOK, ProcessType
<1>6. QED
  BY <1>1, <1>2, <1>3, <1>4, <1>5 DEF LauncherStep

(* Only finalize_stopped_session_diagnostics seals, with a launcher it found   *)
(* stopped.                                                                    *)
LEMMA SealingSteps ==
  ASSUME TypeOK, [Next]_vars
  PROVE  \/ sealed' = sealed
         \/ \E k \in Controllers :
              /\ pc[k] = "finalize" /\ job[k].lau /\ phase' = phase
              /\ sealed' = sealed \cup {job[k].target}
<1>1. ASSUME NEW k \in Controllers, Command(k) \/ Invoke(k) \/ CommandFault(k)
      PROVE  sealed' = sealed \/ FinalizeDiagnostics(k)
  BY <1>1 DEF Command, Invoke, CommandFault, CheckStart, SpawnLauncher,
     PublishLauncher, SpawnObserver, PublishObserver, SpawnWatcher,
     PublishWatcher, AbortObserver, AbortLauncher, CheckOwner, ReadGate,
     JudgeGate, JudgeHealth, EnterStop, ReadManifest, StopObserver,
     StopLauncher, StopWatcher, RecordStop, EndBackup, BeginStart, BeginStop,
     BeginBackup, RollbackLauncher, FailObserver, FailWatcher, Kill, Interrupt
<1>2. ASSUME NEW k \in Controllers, FinalizeDiagnostics(k)
      PROVE  \/ sealed' = sealed
             \/ /\ pc[k] = "finalize" /\ job[k].lau /\ phase' = phase
                /\ sealed' = sealed \cup {job[k].target}
  BY <1>2 DEF FinalizeDiagnostics, launchers
<1>3. ASSUME NEW c \in Campaign, Processes(c) PROVE sealed' = sealed
  BY <1>3 DEF Processes, PrepareRun, BringUpClients, BringUpFails, MarkRunning,
     Teardown, MarkFinished, RootLost, ObserverReports, ObserverExits,
     WatcherStart, WatcherTop, WatcherSample, WatcherRequestsStop,
     WatcherStopsObserver, WatcherStopsLauncher
<1>4. CASE UNCHANGED vars
  BY <1>4 DEF vars
<1>5. QED
  BY <1>1, <1>2, <1>3, <1>4 DEF Next

LEMMA SealStep ==
  ASSUME "rootLost" \notin Faults, TypeOK, SessionInv, ClientsInv, SealInv,
         [Next]_vars
  PROVE  SealInv'
<1>1. LauncherStep
  BY LauncherSteps
<1>2. RootInv'
  BY <1>1, RootStep DEF SealInv
<1>3. sealed \subseteq Campaign
  BY DEF TypeOK, FileType
<1>4. CASE sealed' = sealed
  BY <1>1, <1>2, <1>3, <1>4, GoneKept DEF SealInv
<1>5. ASSUME NEW k \in Controllers, pc[k] = "finalize", job[k].lau, phase' = phase,
             sealed' = sealed \cup {job[k].target}
      PROVE  SealInv'
  <2> DEFINE t == job[k].target
  <2>1. t \in Campaign /\ t = manifest.campaign /\ ~root[t]
    BY <1>5 DEF SessionInv, CommandInv, StopInv, ReportInv, StopSteps
  <2>2. phase[t] # "none"
    BY <2>1 DEF ClientsInv, UnusedInv, Campaign, None
  <2>3. phase[t] = "gone"
    BY <2>1, <2>2 DEF SealInv, RootInv
  <2>4. QED
    BY <1>2, <1>5, <2>3 DEF SealInv
<1>6. QED
  BY <1>4, <1>5, SealingSteps

(* SealedAfterClients: finalize_stopped_session_diagnostics runs after the     *)
(* launcher's tree is reported stopped, so no client of a sealed campaign can  *)
(* still write, now or later.  The hypothesis is needed: a recorded root that  *)
(* dies alone is reported as a stopped launcher while its clients run on.      *)
THEOREM SealedLast ==
  ASSUME "rootLost" \notin Faults
  PROVE  Spec => []SealedAfterClients
<1>1. Init => SealInv
  BY DEF Init, SealInv, RootInv
<1>2. TypeOK /\ SessionInv /\ ClientsInv /\ SealInv /\ [Next]_vars => SealInv'
  BY SealStep
<1>3. TypeOK /\ ClientsInv /\ SealInv => SealedAfterClients
  BY DEF TypeOK, FileType, ClientsInv, PairInv, SealInv, SealedAfterClients
<1>4. QED
  BY <1>1, <1>2, <1>3, ClientsInvariant, PTL DEF Spec

-------------------------------------------------------------------------------
(* The verdict.  What run-to-gate read may belong to a newer campaign, but     *)
(* then the manifest has moved on for good and the second ownership check      *)
(* rejects it.                                                                 *)

VerdictInv(k) ==
  /\ pc[k] \in Publishing \cup GateWait => job[k].mine \in Campaign
  /\ pc[k] \in GateWait => job[k].mine <= manifest.campaign
  /\ pc[k] \in {"gateRead", "gateHealth"} /\ job[k].seen = "green" =>
       gate[job[k].mine] # "pending" \/ manifest.campaign # job[k].mine
  /\ pc[k] = "gateHealth" => job[k].seen = "green"
  /\ job[k].green => job[k].mine \in Campaign /\ gate[job[k].mine] # "pending"
  /\ pc[k] = "check" => ~job[k].green

(* A published gate is never withdrawn. *)
LEMMA GateKept ==
  ASSUME TypeOK, [Next]_vars, NEW c \in Campaign, gate[c] # "pending"
  PROVE  gate'[c] # "pending"
<1>1. ASSUME NEW k \in Controllers, Command(k) \/ Invoke(k) \/ CommandFault(k)
      PROVE  gate' = gate
  BY <1>1 DEF Command, Invoke, CommandFault, CheckStart, SpawnLauncher,
     PublishLauncher, SpawnObserver, PublishObserver, SpawnWatcher,
     PublishWatcher, AbortObserver, AbortLauncher, CheckOwner, ReadGate,
     JudgeGate, JudgeHealth, EnterStop, ReadManifest, StopObserver,
     StopLauncher, StopWatcher, FinalizeDiagnostics, RecordStop, EndBackup,
     BeginStart, BeginStop, BeginBackup, RollbackLauncher, FailObserver,
     FailWatcher, Kill, Interrupt
<1>2. ASSUME NEW d \in Campaign, Processes(d) PROVE gate'[c] # "pending"
  BY <1>2 DEF Processes, PrepareRun, BringUpClients, BringUpFails, MarkRunning,
     Teardown, MarkFinished, RootLost, ObserverReports, ObserverExits,
     WatcherStart, WatcherTop, WatcherSample, WatcherRequestsStop,
     WatcherStopsObserver, WatcherStopsLauncher, TypeOK, ProcessType
<1>3. CASE UNCHANGED vars
  BY <1>3 DEF vars
<1>4. QED
  BY <1>1, <1>2, <1>3 DEF Next

(* A command that does not act keeps its verdict. *)
LEMMA VerdictKept ==
  ASSUME TypeOK, SessionInv, [Next]_vars, NEW k \in Controllers, VerdictInv(k),
         pc'[k] = pc[k], job'[k] = job[k]
  PROVE  VerdictInv(k)'
<1>1. /\ manifest.campaign \in Nat /\ manifest'.campaign \in Nat
      /\ manifest'.campaign = manifest.campaign
         \/ manifest'.campaign > manifest.campaign
  BY ManifestGrows
<1>2. job[k].mine \in Campaign /\ gate[job[k].mine] # "pending"
        => gate'[job[k].mine] # "pending"
  BY GateKept
<1>3. job[k].mine \in Campaign => job[k].mine \in Nat
  BY DEF Campaign
<1>4. (pc[k] \in {"gateRead", "gateHealth"} /\ job[k].seen = "green" =>
         gate[job[k].mine] # "pending" \/ manifest.campaign # job[k].mine)'
  BY <1>1, <1>2, <1>3 DEF VerdictInv, GateWait
<1>5. (pc[k] \in GateWait => job[k].mine <= manifest.campaign)'
  BY <1>1, <1>3 DEF VerdictInv
<1>6. QED
  BY <1>2, <1>4, <1>5 DEF VerdictInv

(* A command that carries no verdict, outside the gate wait. *)
LEMMA NoVerdict ==
  ASSUME NEW k \in Controllers, ~job'[k].green,
         pc'[k] \notin Publishing \cup GateWait
  PROVE  VerdictInv(k)'
BY DEF VerdictInv, GateWait

(* A step of the command itself outside the gate wait. *)
LEMMA VerdictCommand ==
  ASSUME TypeOK, SessionInv, NEW k \in Controllers, VerdictInv(k),
         \/ CheckStart(k) \/ SpawnLauncher(k) \/ PublishLauncher(k)
         \/ SpawnObserver(k) \/ PublishObserver(k) \/ SpawnWatcher(k)
         \/ PublishWatcher(k) \/ AbortObserver(k) \/ AbortLauncher(k)
         \/ EnterStop(k) \/ ReadManifest(k) \/ StopObserver(k)
         \/ StopLauncher(k) \/ StopWatcher(k) \/ FinalizeDiagnostics(k)
         \/ RecordStop(k) \/ EndBackup(k) \/ Invoke(k) \/ CommandFault(k)
  PROVE  VerdictInv(k)'
<1>1. CASE job'[k].green = FALSE /\ pc'[k] \notin Publishing \cup GateWait
  BY <1>1, NoVerdict
<1>2. CASE CheckStart(k)
  <2>1. pc[k] = "check" /\ ~job[k].green
    BY <1>2 DEF CheckStart, VerdictInv
  <2>2. job'[k].green = FALSE /\ pc'[k] \in {"spawn", "idle"}
    BY <1>2, <2>1 DEF CheckStart, Finish, NoJob, Goto, TypeOK, CommandType, Job
  <2>3. QED
    BY <1>1, <2>2 DEF Publishing, GateWait
<1>3. CASE \/ AbortLauncher(k) \/ RecordStop(k) \/ EndBackup(k) \/ Invoke(k)
           \/ RollbackLauncher(k) \/ Kill(k)
  <2>1. job'[k].green = FALSE /\ pc'[k] \notin Publishing \cup GateWait
    BY <1>3 DEF AbortLauncher, RecordStop, EndBackup, Invoke, BeginStart,
       BeginStop, BeginBackup, RollbackLauncher, Kill, Finish, NoJob, Goto,
       TypeOK, CommandType, Publishing, GateWait
  <2>2. QED
    BY <1>1, <2>1
<1>4. CASE SpawnLauncher(k)
  BY <1>4 DEF SpawnLauncher, Goto, VerdictInv, Publishing, GateWait, TypeOK,
     CommandType
<1>5. CASE PublishLauncher(k)
  <2>1. job[k].mine \in Campaign
    BY <1>5 DEF PublishLauncher, SessionInv, CommandInv, FreshInv, Claimed
  <2>2. QED
    BY <1>5, <2>1 DEF PublishLauncher, Goto, VerdictInv, Publishing, GateWait,
       TypeOK, CommandType
<1>6. CASE \/ SpawnObserver(k) \/ PublishObserver(k) \/ SpawnWatcher(k)
           \/ AbortObserver(k) \/ FailObserver(k) \/ FailWatcher(k)
  <2>1. /\ pc[k] \in Publishing /\ pc'[k] \in Publishing
        /\ job' = job /\ gate' = gate
    BY <1>6 DEF SpawnObserver, PublishObserver, SpawnWatcher, AbortObserver,
       FailObserver, FailWatcher, Goto, Publishing, TypeOK, CommandType
  <2>2. QED
    BY <2>1 DEF VerdictInv, Publishing, GateWait
<1>7. CASE PublishWatcher(k)
  <2>1. job[k].mine \in Campaign /\ manifest.campaign = job[k].mine
    BY <1>7 DEF PublishWatcher, SessionInv, CommandInv, PublishInv, Publishing,
       VerdictInv
  <2>2. manifest'.campaign = manifest.campaign /\ gate' = gate
    BY <1>7 DEF PublishWatcher, TypeOK, FileType, Manifest
  <2>3. CASE pc'[k] = "gate" /\ job' = job
    BY <2>1, <2>2, <2>3 DEF VerdictInv, Publishing, GateWait, Campaign
  <2>4. CASE pc'[k] = "idle" /\ job'[k] = NoJob
    BY <1>1, <2>4 DEF NoJob, Publishing, GateWait
  <2>5. QED
    BY <1>7, <2>3, <2>4 DEF PublishWatcher, Goto, TypeOK, CommandType
<1>8. CASE \/ EnterStop(k) \/ ReadManifest(k) \/ StopObserver(k)
           \/ StopLauncher(k) \/ StopWatcher(k) \/ FinalizeDiagnostics(k)
  <2>1. /\ pc'[k] \notin Publishing \cup GateWait /\ pc'[k] # "check"
        /\ gate' = gate
    BY <1>8 DEF EnterStop, ReadManifest, StopObserver, StopLauncher,
       StopWatcher, FinalizeDiagnostics, Finish, Goto, TypeOK, CommandType,
       Publishing, GateWait
  <2>2. job'[k] = NoJob \/ (job'[k].green = job[k].green /\ job'[k].mine = job[k].mine)
    <3>1. CASE EnterStop(k) \/ ReadManifest(k)
      BY <3>1 DEF EnterStop, ReadManifest, Finish, TypeOK, CommandType, Job
    <3>2. CASE StopObserver(k) \/ StopLauncher(k) \/ StopWatcher(k)
      BY <3>2 DEF StopObserver, StopLauncher, StopWatcher, TypeOK, CommandType,
         Job
    <3>3. CASE FinalizeDiagnostics(k)
      <4>1. job' = job \/ job' = [job EXCEPT ![k].fin = TRUE]
        BY <3>3 DEF FinalizeDiagnostics
      <4>2. QED
        BY <4>1 DEF TypeOK, CommandType, Job
    <3>4. QED
      BY <1>8, <3>1, <3>2, <3>3
  <2>3. QED
    BY <2>1, <2>2 DEF VerdictInv, NoJob, GateWait
<1>9. CASE Interrupt(k)
  <2>1. CASE pc[k] \in GateWait
    BY <1>9, <2>1 DEF Interrupt, Goto, VerdictInv, Publishing, GateWait, TypeOK,
       CommandType
  <2>2. CASE pc[k] \notin GateWait
    <3>1. job'[k].green = FALSE /\ pc'[k] = "idle"
      BY <1>9, <2>2 DEF Interrupt, Finish, NoJob, Goto, TypeOK, CommandType
    <3>2. QED
      BY <1>1, <3>1 DEF Publishing, GateWait
  <2>3. QED
    BY <2>1, <2>2
<1>10. QED
  BY <1>2, <1>3, <1>4, <1>5, <1>6, <1>7, <1>8, <1>9 DEF CommandFault

(* A step of the gate wait. *)
LEMMA VerdictWait ==
  ASSUME TypeOK, SessionInv, NEW k \in Controllers, VerdictInv(k),
         CheckOwner(k) \/ ReadGate(k) \/ JudgeGate(k) \/ JudgeHealth(k)
  PROVE  VerdictInv(k)'
<1>1. pc[k] \in GateWait /\ manifest' = manifest /\ gate' = gate
  BY DEF CheckOwner, ReadGate, JudgeGate, JudgeHealth, GateWait
<1>2. /\ job[k].mine \in Campaign /\ job[k].mine <= manifest.campaign
      /\ manifest.campaign \in Campaign \cup {None}
  BY <1>1 DEF VerdictInv, TypeOK, FileType, Manifest
<1>3. ASSUME GateWaitEnds(k, FALSE) PROVE VerdictInv(k)'
  <2>1. ~job'[k].green /\ pc'[k] = "stopEnter"
    BY <1>3 DEF GateWaitEnds, Goto, TypeOK, CommandType, Job
  <2>2. QED
    BY <2>1, NoVerdict DEF Publishing, GateWait
<1>4. CASE CheckOwner(k)
  BY <1>1, <1>2, <1>3, <1>4 DEF CheckOwner, Goto, VerdictInv, GateWait, TypeOK,
     CommandType
<1>5. CASE ReadGate(k)
  <2>1. PICK status \in {GateStatus, "unavailable"} :
          job' = [job EXCEPT ![k].seen = status]
    BY <1>5 DEF ReadGate
  <2>2. /\ job'[k].seen = status /\ job'[k].mine = job[k].mine
        /\ job'[k].green = job[k].green /\ pc'[k] = "gateRead"
    BY <1>5, <2>1 DEF ReadGate, Goto, TypeOK, CommandType, Job
  <2>3. status = "green" /\ manifest.campaign = job[k].mine
          => gate[job[k].mine] # "pending"
    BY <2>1 DEF GateStatus
  <2>4. QED
    BY <1>1, <1>2, <2>2, <2>3 DEF VerdictInv, GateWait
<1>6. CASE JudgeGate(k)
  <2>1. CASE GateWaitEnds(k, FALSE)
    BY <1>3, <2>1
  <2>2. CASE /\ job[k].seen = "green" /\ job' = job
             /\ pc' = [pc EXCEPT ![k] = "gateHealth"]
    <3>1. pc[k] = "gateRead" /\ pc'[k] = "gateHealth"
      BY <1>6, <2>2 DEF JudgeGate, TypeOK, CommandType
    <3>2. QED
      BY <1>1, <1>2, <2>2, <3>1 DEF VerdictInv, GateWait
  <2>3. CASE /\ job' = [job EXCEPT ![k].polls = @ + 1]
             /\ pc' = [pc EXCEPT ![k] = "gate"]
    <3>1. /\ job'[k].mine = job[k].mine /\ job'[k].green = job[k].green
          /\ pc'[k] = "gate"
      BY <2>3 DEF TypeOK, CommandType, Job
    <3>2. QED
      BY <1>1, <1>2, <3>1 DEF VerdictInv, GateWait
  <2>4. QED
    BY <1>6, <2>1, <2>2, <2>3 DEF JudgeGate, Goto
<1>7. CASE JudgeHealth(k)
  <2>1. CASE GateWaitEnds(k, FALSE)
    BY <1>3, <2>1
  <2>2. CASE GateWaitEnds(k, TRUE) /\ Owned(k)
    <3>1. job[k].seen = "green"
      BY <1>7 DEF JudgeHealth, VerdictInv
    <3>2. gate[job[k].mine] # "pending"
      BY <1>7, <2>2, <3>1 DEF JudgeHealth, Owned, VerdictInv
    <3>3. job'[k].mine = job[k].mine /\ pc'[k] = "stopEnter"
      BY <2>2 DEF GateWaitEnds, Goto, TypeOK, CommandType, Job
    <3>4. QED
      BY <1>1, <1>2, <3>2, <3>3 DEF VerdictInv, Publishing, GateWait
  <2>3. QED
    BY <1>7, <2>1, <2>2 DEF JudgeHealth
<1>8. QED
  BY <1>4, <1>5, <1>6, <1>7

LEMMA VerdictStep ==
  ASSUME TypeOK, SessionInv, [Next]_vars, NEW k \in Controllers, VerdictInv(k)
  PROVE  VerdictInv(k)'
<1>1. CASE Command(k) \/ Invoke(k) \/ CommandFault(k)
  BY <1>1, VerdictCommand, VerdictWait DEF Command
<1>2. ASSUME NEW j \in Controllers \ {k}, Command(j) \/ Invoke(j) \/ CommandFault(j)
      PROVE  VerdictInv(k)'
  BY <1>2, OnlyActor, VerdictKept
<1>3. ASSUME NEW c \in Campaign, Processes(c) PROVE VerdictInv(k)'
  BY <1>3, ProcessesControl, VerdictKept
<1>4. CASE UNCHANGED vars
  BY <1>4, VerdictKept DEF vars, control
<1>5. QED
  BY <1>1, <1>2, <1>3, <1>4 DEF Next

(* GateVerdictSound: however often other commands replaced the session while   *)
(* wait_for_parity_gate was reading, the green verdict it returns was          *)
(* published for the campaign this run-to-gate started.                        *)
THEOREM VerdictIsOwn == Spec => []GateVerdictSound
<1> DEFINE Verdicts == \A k \in Controllers : VerdictInv(k)
<1>1. Init => Verdicts
  <2>1. ASSUME Init, NEW k \in Controllers PROVE VerdictInv(k)
    <3>1. pc[k] = "idle" /\ job[k] = NoJob /\ NoJob.green = FALSE
      BY <2>1 DEF Init, NoJob
    <3>2. QED
      BY <3>1 DEF VerdictInv, Publishing, GateWait
  <2>2. QED
    BY <2>1
<1>2. TypeOK /\ SessionInv /\ Verdicts /\ [Next]_vars => Verdicts'
  <2>1. ASSUME TypeOK, SessionInv, Verdicts, [Next]_vars, NEW k \in Controllers
        PROVE  VerdictInv(k)'
    BY <2>1, VerdictStep
  <2>2. QED
    BY <2>1
<1>3. Verdicts => GateVerdictSound
  BY DEF VerdictInv, GateVerdictSound
<1> HIDE DEF Verdicts
<1>4. QED
  BY <1>1, <1>2, <1>3, SessionInvariant, PTL DEF Spec
===============================================================================
