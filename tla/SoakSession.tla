------------------------------ MODULE SoakSession ------------------------------
(* The persisted soak session: concurrent controller commands (start,          *)
(* run-to-gate, stop, hash-state backup) serialized by a non-blocking lock     *)
(* file, the session manifest, the two stop files, the watcher's heartbeat and *)
(* the detached processes of each campaign: the launcher with its two clients, *)
(* the observer and the watcher.                                               *)
(*                                                                             *)
(* Exact process identities (pid and creation date) are never reused, so a     *)
(* process is named by its role and its campaign.                              *)
EXTENDS Integers

CONSTANTS Controllers,   \* controller processes that may run commands
          MaxCampaign,   \* bound: campaigns started
          MaxCommands,   \* bound: commands issued
          MaxPolls,      \* bound: gate polls before the gate timeout
          MaxFaults,     \* bound: kills, interrupts, lost roots and identities
          Faults         \* which faults of the environment are explored

FaultKinds == {"kill", "interrupt", "rootLost", "unverified", "identity"}

ASSUME SessionAssumption ==
  /\ MaxCampaign \in Nat /\ MaxCommands \in Nat /\ MaxPolls \in Nat
  /\ MaxFaults \in Nat
  /\ Faults \subseteq FaultKinds
  /\ 0 \notin Controllers

Campaign == 1 .. MaxCampaign
None == 0

VARIABLES lock, manifest, stopFile, watchStop, heartbeat, lastRun,
          root, phase, clients, observer,
          watcher, watched, sample, captured, gate,
          sealed,        \* campaigns whose diagnostic indexes are finalized
          started, issued, faults, pc, job

counters  == <<started, issued, faults>>
control   == <<lock, manifest, pc, job, counters>>
files     == <<stopFile, watchStop, heartbeat, lastRun>>
launchers == <<root, phase, clients>>
watchers  == <<watcher, watched, sample, captured>>
vars == <<control, files, launchers, observer, watchers, gate, sealed>>

NoManifest == [state |-> "none", campaign |-> None, observer |-> FALSE,
               watcher |-> FALSE]
NoSample == [campaign |-> None, required |-> "unknown"]
NoJob == [op |-> "none", mine |-> None, target |-> None, polls |-> 0,
          seen |-> "pending", green |-> FALSE, obs |-> FALSE, lau |-> FALSE,
          wat |-> FALSE, fin |-> FALSE]

-------------------------------------------------------------------------------
(* Processes of the manifest's campaign that are alive. *)

WatcherLive(c) == watcher[c] \notin {"none", "gone"}
ObserverLive(c) == observer[c] = "up"

RecordedAlive ==
  LET c == manifest.campaign IN
  /\ c # None
  /\ root[c] \/ (manifest.observer /\ ObserverLive(c))
             \/ (manifest.watcher /\ WatcherLive(c))

AllRolesAlive ==
  LET c == manifest.campaign IN
  /\ c # None
  /\ root[c] /\ manifest.observer /\ ObserverLive(c)
  /\ manifest.watcher /\ WatcherLive(c)

KillRootsOnly(C) ==
  /\ root' = [c \in Campaign |-> root[c] /\ c \notin C]
  /\ UNCHANGED <<phase, clients>>

(* Killing a launcher's exact tree takes its clients down with it. *)
KillTrees(C) ==
  /\ root' = [c \in Campaign |-> root[c] /\ c \notin C]
  /\ phase' = [c \in Campaign |-> IF c \in C /\ phase[c] # "none" THEN "gone"
                                  ELSE phase[c]]
  /\ clients' = [c \in Campaign |-> clients[c] /\ c \notin C]

(* stop_owned_process / stop_exact_process on a launcher: it has exited, or    *)
(* its tree is killed and verified, or the verification fails.                 *)
StopLauncherTree(c, verified) ==
  \/ ~root[c] /\ verified /\ UNCHANGED launchers
  \/ root[c] /\ verified /\ KillTrees({c})
  \/ root[c] /\ ~verified /\ "unverified" \in Faults /\ UNCHANGED launchers

WaitObserverExit(c, verified) ==
  ~ObserverLive(c) /\ verified /\ UNCHANGED observer

StopObserverProcess(c, verified) ==
  \/ ~ObserverLive(c) /\ verified /\ UNCHANGED observer
  \/ ObserverLive(c) /\ verified /\ observer' = [observer EXCEPT ![c] = "gone"]
  \/ ObserverLive(c) /\ ~verified /\ "unverified" \in Faults /\ UNCHANGED observer

(* A watcher that ends takes its locals with it. *)
WatcherEnds(c) ==
  /\ watcher' = [watcher EXCEPT ![c] = "gone"]
  /\ watched' = [watched EXCEPT ![c] = None]
  /\ sample' = [sample EXCEPT ![c] = NoSample]
  /\ captured' = [captured EXCEPT ![c] = FALSE]

StopWatcherProcess(c, verified) ==
  \/ ~WatcherLive(c) /\ verified /\ UNCHANGED watchers
  \/ WatcherLive(c) /\ verified /\ WatcherEnds(c)
  \/ WatcherLive(c) /\ ~verified /\ "unverified" \in Faults /\ UNCHANGED watchers

-------------------------------------------------------------------------------
(* Controller commands. *)

Locked == {"check", "spawn", "identify", "observe",
           "identifyObserver", "watch", "identifyWatcher", "abortObserver",
           "abortLauncher", "stopRead", "stopObserver", "stopLauncher",
           "stopWatcher", "finalize", "record"}

Fault(kind) == kind \in Faults /\ faults < MaxFaults /\ faults' = faults + 1

GateWait == {"gate", "gateStatus", "gateRead", "gateHealth"}

Goto(k, label) == pc' = [pc EXCEPT ![k] = label]
Release(k) == lock' = IF lock = k THEN None ELSE lock

(* The command returns or raises: its locals are gone and the lock file is     *)
(* released.                                                                   *)
Finish(k) ==
  /\ Goto(k, "idle")
  /\ job' = [job EXCEPT ![k] = NoJob]
  /\ Release(k)

Issue == issued < MaxCommands /\ issued' = issued + 1

BeginStartUnlocked(k) ==
  /\ pc[k] = "idle" /\ Issue
  /\ lock' = k
  /\ job' = [job EXCEPT ![k] = [NoJob EXCEPT !.op = "start"]]
  /\ Goto(k, "check")
  /\ UNCHANGED <<manifest, started, faults, files, launchers, observer, watchers,
                 gate, sealed>>

(* start and run-to-gate: take the lock or raise. *)
BeginStart(k) ==
  /\ pc[k] = "idle" /\ Issue /\ lock = None
  /\ lock' = k
  /\ \E op \in {"start", "gate"} :
       job' = [job EXCEPT ![k] = [NoJob EXCEPT !.op = op]]
  /\ Goto(k, "check")
  /\ UNCHANGED <<manifest, started, faults, files, launchers, observer,
                 watchers, gate, sealed>>

(* A live recorded role refuses the start; otherwise a new campaign is named. *)
CheckStart(k) ==
  /\ pc[k] = "check"
  /\ \/ /\ ~RecordedAlive /\ started < MaxCampaign
        /\ started' = started + 1
        /\ job' = [job EXCEPT ![k].mine = started + 1]
        /\ Goto(k, "spawn")
        /\ UNCHANGED lock
     \/ Finish(k) /\ UNCHANGED started
  /\ UNCHANGED <<manifest, issued, faults, files, launchers, observer,
                 watchers, gate, sealed>>

(* Old stop requests are removed just before the launcher is spawned. *)
SpawnLauncher(k) ==
  /\ pc[k] = "spawn"
  /\ stopFile' = FALSE /\ watchStop' = FALSE
  /\ root' = [root EXCEPT ![job[k].mine] = TRUE]
  /\ phase' = [phase EXCEPT ![job[k].mine] = "spawned"]
  /\ Goto(k, "identify")
  /\ UNCHANGED <<lock, manifest, job, counters, heartbeat, lastRun, clients,
                 observer, watchers, gate, sealed>>

PublishLauncher(k) ==
  /\ pc[k] = "identify"
  /\ manifest' = [NoManifest EXCEPT !.state = "running", !.campaign = job[k].mine]
  /\ Goto(k, "observe")
  /\ UNCHANGED <<lock, job, counters, files, launchers, observer, watchers,
                 gate, sealed>>

(* rollback_unpublished_launcher: no identity was recorded; both stop files    *)
(* are written and the captured tree is killed.                                *)
RollbackLauncher(k) ==
  /\ pc[k] = "identify" /\ Fault("identity")
  /\ stopFile' = TRUE /\ watchStop' = TRUE
  /\ \/ KillTrees({job[k].mine})
     \/ "unverified" \in Faults /\ UNCHANGED launchers
  /\ Finish(k)
  /\ UNCHANGED <<manifest, started, issued, heartbeat, lastRun, observer,
                 watchers, gate, sealed>>

SpawnObserver(k) ==
  /\ pc[k] = "observe"
  /\ observer' = [observer EXCEPT ![job[k].mine] = "up"]
  /\ Goto(k, "identifyObserver")
  /\ UNCHANGED <<lock, manifest, job, counters, files, launchers, watchers,
                 gate, sealed>>

PublishObserver(k) ==
  /\ pc[k] = "identifyObserver"
  /\ manifest' = [manifest EXCEPT !.observer = TRUE]
  /\ Goto(k, "watch")
  /\ UNCHANGED <<lock, job, counters, files, launchers, observer, watchers,
                 gate, sealed>>

(* The observer's identity is not established: request the launcher's stop and *)
(* terminate the observer's supervisor, which may leave the observer itself to *)
(* the stop file.                                                              *)
FailObserver(k) ==
  /\ pc[k] = "identifyObserver" /\ Fault("identity")
  /\ stopFile' = TRUE
  /\ \E left \in {observer[job[k].mine], "gone"} :
       observer' = [observer EXCEPT ![job[k].mine] = left]
  /\ Goto(k, "abortLauncher")
  /\ UNCHANGED <<lock, manifest, job, started, issued, watchStop, heartbeat,
                 lastRun, launchers, watchers, gate, sealed>>

SpawnWatcher(k) ==
  /\ pc[k] = "watch"
  /\ watcher' = [watcher EXCEPT ![job[k].mine] = "starting"]
  /\ Goto(k, "identifyWatcher")
  /\ UNCHANGED <<lock, manifest, job, counters, files, launchers, observer,
                 watched, sample, captured, gate, sealed>>

(* start returns; run-to-gate goes on to wait for its gate. *)
PublishWatcher(k) ==
  /\ pc[k] = "identifyWatcher"
  /\ manifest' = [manifest EXCEPT !.watcher = TRUE]
  /\ Release(k)
  /\ IF job[k].op = "gate"
     THEN Goto(k, "gate") /\ UNCHANGED job
     ELSE Goto(k, "idle") /\ job' = [job EXCEPT ![k] = NoJob]
  /\ UNCHANGED <<counters, files, launchers, observer, watchers, gate, sealed>>

(* The watcher's identity is not established: the process itself is left to    *)
(* the watch stop file.                                                        *)
FailWatcher(k) ==
  /\ pc[k] = "identifyWatcher" /\ Fault("identity")
  /\ stopFile' = TRUE /\ watchStop' = TRUE
  /\ Goto(k, "abortObserver")
  /\ UNCHANGED <<lock, manifest, job, started, issued, heartbeat, lastRun,
                 launchers, observer, watchers, gate, sealed>>

AbortObserver(k) ==
  /\ pc[k] = "abortObserver"
  /\ \E v \in BOOLEAN : StopObserverProcess(job[k].mine, v)
  /\ Goto(k, "abortLauncher")
  /\ UNCHANGED <<lock, manifest, job, counters, files, launchers, watchers,
                 gate, sealed>>

AbortLauncher(k) ==
  /\ pc[k] = "abortLauncher"
  /\ \E v \in BOOLEAN : StopLauncherTree(job[k].mine, v)
  /\ manifest' = [manifest EXCEPT !.state = "start-failed"]
  /\ Finish(k)
  /\ UNCHANGED <<counters, files, observer, watchers, gate, sealed>>

-------------------------------------------------------------------------------
(* wait_for_parity_gate of run-to-gate. *)

OwnedUnchecked(k) == TRUE

(* session_ownership_findings is empty: the manifest names the campaign and    *)
(* the processes this command started.                                         *)
Owned(k) == manifest.campaign = job[k].mine

GateStatusOfLastRun ==
  IF lastRun.campaign = None THEN "pending" ELSE gate[lastRun.campaign]

(* What parity_gate_status reports for the manifest's campaign. *)
GateStatus ==
  IF manifest.campaign # None /\ lastRun.campaign = manifest.campaign
  THEN gate[manifest.campaign] ELSE "pending"

TimedOutLate(k) == job[k].polls > MaxPolls

TimedOut(k) == job[k].polls >= MaxPolls

GateWaitEnds(k, green) ==
  /\ job' = [job EXCEPT ![k].green = green, ![k].seen = "pending", ![k].polls = 0]
  /\ Goto(k, "stopEnter")

CheckOwner(k) ==
  /\ pc[k] = "gate"
  /\ IF Owned(k) THEN Goto(k, "gateStatus") /\ UNCHANGED job
     ELSE GateWaitEnds(k, FALSE)
  /\ UNCHANGED <<lock, manifest, counters, files, launchers, observer, watchers,
                 gate, sealed>>

ReadGate(k) ==
  /\ pc[k] = "gateStatus"
  /\ \E status \in {GateStatus, "unavailable"} :
       job' = [job EXCEPT ![k].seen = status]
  /\ Goto(k, "gateRead")
  /\ UNCHANGED <<lock, manifest, counters, files, launchers, observer, watchers,
                 gate, sealed>>

(* The ownership is checked again after the read; a failed or unreadable gate, *)
(* a dead role or a session that is not running ends the wait, and so does the *)
(* timeout.                                                                    *)
JudgeGate(k) ==
  /\ pc[k] = "gateRead"
  /\ IF ~Owned(k) \/ job[k].seen \in {"failed", "unavailable"}
        \/ ~AllRolesAlive \/ manifest.state # "running"
     THEN GateWaitEnds(k, FALSE)
     ELSE IF job[k].seen = "green"
     THEN Goto(k, "gateHealth") /\ UNCHANGED job
     ELSE IF TimedOut(k)
     THEN GateWaitEnds(k, FALSE)
     ELSE job' = [job EXCEPT ![k].polls = @ + 1] /\ Goto(k, "gate")
  /\ UNCHANGED <<lock, manifest, counters, files, launchers, observer,
                 watchers, gate, sealed>>

(* A green gate counts only with a healthy session status of the same          *)
(* campaign.                                                                   *)
JudgeHealth(k) ==
  /\ pc[k] = "gateHealth"
  /\ \/ Owned(k) /\ AllRolesAlive /\ GateWaitEnds(k, TRUE)
     \/ GateWaitEnds(k, FALSE)
  /\ UNCHANGED <<lock, manifest, counters, files, launchers, observer,
                 watchers, gate, sealed>>

-------------------------------------------------------------------------------
(* stop_session, for the stop command and for run-to-gate. *)

BeginStop(k) ==
  /\ pc[k] = "idle" /\ Issue
  /\ job' = [job EXCEPT ![k] = [NoJob EXCEPT !.op = "stop"]]
  /\ Goto(k, "stopEnter")
  /\ UNCHANGED <<lock, manifest, started, faults, files, launchers, observer,
                 watchers, gate, sealed>>

EnterStop(k) ==
  /\ pc[k] = "stopEnter"
  /\ IF lock = None
     THEN lock' = k /\ Goto(k, "stopRead") /\ UNCHANGED job
     ELSE Finish(k)
  /\ UNCHANGED <<manifest, counters, files, launchers, observer, watchers,
                 gate, sealed>>

(* No session, or not the campaign run-to-gate started: nothing is touched. *)
ReadManifest(k) ==
  /\ pc[k] = "stopRead"
  /\ IF manifest.campaign = None \/ (job[k].op = "gate" /\ ~Owned(k))
     THEN Finish(k) /\ UNCHANGED files
     ELSE /\ stopFile' = TRUE /\ watchStop' = TRUE
          /\ job' = [job EXCEPT ![k].target = manifest.campaign]
          /\ Goto(k, "stopObserver")
          /\ UNCHANGED <<lock, heartbeat, lastRun>>
  /\ UNCHANGED <<manifest, counters, launchers, observer, watchers, gate,
                 sealed>>

StopObserver(k) ==
  /\ pc[k] = "stopObserver"
  /\ \E v \in BOOLEAN :
       /\ IF manifest.observer THEN StopObserverProcess(job[k].target, v)
          ELSE v /\ UNCHANGED observer
       /\ job' = [job EXCEPT ![k].obs = v]
  /\ Goto(k, "stopLauncher")
  /\ UNCHANGED <<lock, manifest, counters, files, launchers, watchers, gate,
                 sealed>>

StopLauncher(k) ==
  /\ pc[k] = "stopLauncher"
  /\ \E v \in BOOLEAN : /\ StopLauncherTree(job[k].target, v)
                        /\ job' = [job EXCEPT ![k].lau = v]
  /\ Goto(k, "stopWatcher")
  /\ UNCHANGED <<lock, manifest, counters, files, observer, watchers, gate,
                 sealed>>

StopWatcher(k) ==
  /\ pc[k] = "stopWatcher"
  /\ \E v \in BOOLEAN :
       /\ IF manifest.watcher THEN StopWatcherProcess(job[k].target, v)
          ELSE v /\ UNCHANGED watchers
       /\ job' = [job EXCEPT ![k].wat = v]
  /\ Goto(k, "finalize")
  /\ UNCHANGED <<lock, manifest, counters, files, launchers, observer, gate,
                 sealed>>

(* finalize_stopped_session_diagnostics: raises without a stopped launcher and *)
(* watcher and a heartbeat of this campaign; a heartbeat whose writers were    *)
(* not required seals nothing and is accepted.                                 *)
FinalizeDiagnostics(k) ==
  /\ pc[k] = "finalize"
  /\ LET t == job[k].target
         accepted == job[k].lau /\ job[k].wat /\ heartbeat.campaign = t
     IN  \/ ~accepted /\ job' = job /\ UNCHANGED sealed
         \/ /\ accepted /\ heartbeat.required = "no"
            /\ job' = [job EXCEPT ![k].fin = TRUE]
            /\ UNCHANGED sealed
         \/ /\ accepted /\ heartbeat.required = "yes"
            /\ job' = [job EXCEPT ![k].fin = TRUE]
            /\ sealed' = sealed \cup {t}
         \/ accepted /\ heartbeat.required # "no" /\ job' = job /\ UNCHANGED sealed
  /\ Goto(k, "record")
  /\ UNCHANGED <<lock, manifest, counters, files, launchers, observer,
                 watchers, gate>>

StopOkIgnoringObserver(k) == job[k].lau /\ job[k].wat /\ job[k].fin

StopOk(k) == job[k].obs /\ job[k].lau /\ job[k].wat /\ job[k].fin

RecordStop(k) ==
  /\ pc[k] = "record"
  /\ manifest' = [manifest EXCEPT !.state = IF StopOk(k) THEN "stopped"
                                            ELSE "stop-failed"]
  /\ Finish(k)
  /\ UNCHANGED <<counters, files, launchers, observer, watchers, gate, sealed>>

-------------------------------------------------------------------------------
(* backup_stopped_hash_state takes no lock: it checks, then copies. *)

BeginBackup(k) ==
  /\ pc[k] = "idle" /\ Issue
  /\ manifest.state = "stopped" /\ ~RecordedAlive
  /\ job' = [job EXCEPT ![k] = [NoJob EXCEPT !.op = "backup"]]
  /\ Goto(k, "copy")
  /\ UNCHANGED <<lock, manifest, started, faults, files, launchers, observer,
                 watchers, gate, sealed>>

EndBackup(k) ==
  /\ pc[k] = "copy"
  /\ Finish(k)
  /\ UNCHANGED <<manifest, counters, files, launchers, observer, watchers,
                 gate, sealed>>

-------------------------------------------------------------------------------
(* A killed controller, and an operator's interrupt: not an Exception, so only *)
(* the lock's and run-to-gate's finally blocks run.                            *)

Kill(k) ==
  /\ Fault("kill") /\ pc[k] # "idle"
  /\ Finish(k)
  /\ UNCHANGED <<manifest, started, issued, files, launchers, observer,
                 watchers, gate, sealed>>

Interrupt(k) ==
  /\ Fault("interrupt") /\ pc[k] # "idle"
  /\ IF pc[k] \in GateWait
     THEN Goto(k, "stopEnter") /\ UNCHANGED <<lock, job>>
     ELSE Finish(k)
  /\ UNCHANGED <<manifest, started, issued, files, launchers, observer,
                 watchers, gate, sealed>>

-------------------------------------------------------------------------------
(* launch-soak.py of campaign c. *)

StaleRecorded(c) == {manifest.campaign} \ {c, None}

Stale(c) == {d \in Campaign \ {c} : phase[d] \notin {"none", "gone"}}

(* It refuses a stop request that is already there, kills whatever launchers   *)
(* and clients older runs left, and publishes its run as starting.  It may     *)
(* raise at any point before that: no VPN route, a stale process that remains. *)
PrepareRun(c) ==
  /\ phase[c] = "spawned"
  /\ \/ /\ \E D \in SUBSET Stale(c) :
             (stopFile => D = {}) /\ KillTrees({c} \cup D)
        /\ UNCHANGED lastRun
     \/ /\ ~stopFile
        /\ root' = [d \in Campaign |-> root[d] /\ d \notin Stale(c)]
        /\ clients' = [d \in Campaign |-> clients[d] /\ d \notin Stale(c)]
        /\ phase' = [d \in Campaign |-> IF d = c THEN "prepared"
                                        ELSE IF d \in Stale(c) THEN "gone"
                                        ELSE phase[d]]
        /\ lastRun' = [campaign |-> c, status |-> "starting"]
  /\ UNCHANGED <<control, stopFile, watchStop, heartbeat, observer, watchers,
                 gate, sealed>>

BringUpClients(c) ==
  /\ phase[c] = "prepared"
  /\ clients' = [clients EXCEPT ![c] = TRUE]
  /\ phase' = [phase EXCEPT ![c] = "up"]
  /\ UNCHANGED <<control, files, root, observer, watchers, gate, sealed>>

(* The overlay recovery or the bootstrap fetch raises before the launcher's    *)
(* try block: nothing is torn down and the run stays starting.                 *)
BringUpFails(c) ==
  /\ phase[c] = "prepared"
  /\ KillTrees({c})
  /\ UNCHANGED <<control, files, observer, watchers, gate, sealed>>

MarkRunning(c) ==
  /\ phase[c] = "up"
  /\ phase' = [phase EXCEPT ![c] = "running"]
  /\ lastRun' = [campaign |-> c, status |-> "running"]
  /\ UNCHANGED <<control, stopFile, watchStop, heartbeat, root, clients,
                 observer, watchers, gate, sealed>>

(* The stop file, a client's exit or a failure: graceful_teardown. *)
Teardown(c) ==
  /\ phase[c] \in {"prepared", "up", "running"}
  /\ clients' = [clients EXCEPT ![c] = FALSE]
  /\ phase' = [phase EXCEPT ![c] = "finishing"]
  /\ UNCHANGED <<control, files, root, observer, watchers, gate, sealed>>

MarkFinished(c) ==
  /\ phase[c] = "finishing"
  /\ lastRun' = [campaign |-> c, status |-> "finished"]
  /\ root' = [root EXCEPT ![c] = FALSE]
  /\ phase' = [phase EXCEPT ![c] = "gone"]
  /\ UNCHANGED <<control, stopFile, watchStop, heartbeat, clients, observer,
                 watchers, gate, sealed>>

(* The recorded root of the launcher tree dies alone. *)
RootLost(c) ==
  /\ Fault("rootLost") /\ root[c]
  /\ root' = [root EXCEPT ![c] = FALSE]
  /\ UNCHANGED <<lock, manifest, pc, job, started, issued, files, phase,
                 clients, observer, watchers, gate, sealed>>

-------------------------------------------------------------------------------
(* The observer publishes the parity gate and exits on the stop file. *)

ObserverReports(c) ==
  /\ ObserverLive(c) /\ lastRun = [campaign |-> c, status |-> "running"]
  /\ \E s \in {"green", "failed"} :
       /\ gate[c] # "failed" /\ s # gate[c]
       /\ gate' = [gate EXCEPT ![c] = s]
  /\ UNCHANGED <<control, files, launchers, observer, watchers, sealed>>

ObserverExits(c) ==
  /\ ObserverLive(c)
  /\ observer' = [observer EXCEPT ![c] = "gone"]
  /\ UNCHANGED <<control, files, launchers, watchers, gate, sealed>>

-------------------------------------------------------------------------------
(* watch_session of campaign c. *)

Watch(c, state) == watcher' = [watcher EXCEPT ![c] = state]

(* The sample a status read gives: the campaign of the manifest and whether    *)
(* the diagnostic writers of that campaign are running.                        *)
CurrentSample ==
  [campaign |-> manifest.campaign,
   required |-> IF lastRun = [campaign |-> manifest.campaign, status |-> "running"]
                THEN "yes" ELSE "no"]

(* It loads the manifest once and cross-checks the launcher it was given; a    *)
(* manifest of another campaign is terminal.                                   *)
WatcherStart(c) ==
  /\ watcher[c] = "starting"
  /\ watched' = [watched EXCEPT ![c] = IF manifest.observer THEN manifest.campaign
                                       ELSE None]
  /\ IF manifest.campaign = c
     THEN /\ sample' = [sample EXCEPT ![c] = [campaign |-> c, required |-> "unknown"]]
          /\ Watch(c, "watching")
          /\ UNCHANGED heartbeat
     ELSE /\ sample' = [sample EXCEPT ![c] = CurrentSample]
          /\ Watch(c, "failing")
          /\ heartbeat' = CurrentSample
  /\ UNCHANGED <<control, stopFile, watchStop, lastRun, launchers, observer,
                 captured, gate, sealed>>

WatcherTop(c) ==
  /\ watcher[c] = "watching"
  /\ IF watchStop THEN WatcherEnds(c)
     ELSE Watch(c, "sampling") /\ UNCHANGED <<watched, sample, captured>>
  /\ UNCHANGED <<control, files, launchers, observer, gate, sealed>>

(* A sample reads the manifest and the run state of that moment, or repeats    *)
(* the last one when they cannot be read, and replaces the heartbeat. It is    *)
(* terminal (a persistence failure is one reason), or the watch ends with the  *)
(* launcher, or goes on.                                                       *)
WatcherSample(c) ==
  /\ watcher[c] = "sampling"
  /\ \/ /\ Watch(c, "failing")
        /\ sample' = [sample EXCEPT ![c] = CurrentSample]
        /\ heartbeat' \in {heartbeat, CurrentSample}
        /\ UNCHANGED <<watched, captured>>
     \/ /\ heartbeat' = CurrentSample
        /\ IF manifest.campaign # None /\ root[manifest.campaign]
           THEN /\ Watch(c, "watching")
                /\ sample' = [sample EXCEPT ![c] = CurrentSample]
                /\ UNCHANGED <<watched, captured>>
           ELSE WatcherEnds(c)
     \/ /\ heartbeat' = sample[c]
        /\ \E next \in {"watching", "failing"} : Watch(c, next)
        /\ UNCHANGED <<watched, sample, captured>>
  /\ UNCHANGED <<control, stopFile, watchStop, lastRun, launchers, observer,
                 gate, sealed>>

WatcherRequestsNoStop(c) ==
  /\ watcher[c] = "failing"
  /\ captured' = [captured EXCEPT ![c] = root[c]]
  /\ Watch(c, "stopObserver")
  /\ UNCHANGED <<control, files, launchers, observer, watched, sample, gate,
                 sealed>>

(* request_watch_failure_stop: capture the launcher's tree, write both stop    *)
(* files, stop the observer of the manifest loaded at the start, then the      *)
(* captured tree, and persist the terminal sample again.                       *)
WatcherRequestsStop(c) ==
  /\ watcher[c] = "failing"
  /\ captured' = [captured EXCEPT ![c] = root[c]]
  /\ stopFile' = TRUE /\ watchStop' = TRUE
  /\ Watch(c, "stopObserver")
  /\ UNCHANGED <<control, heartbeat, lastRun, launchers, observer, watched,
                 sample, gate, sealed>>

WatcherStopsObserver(c) ==
  /\ watcher[c] = "stopObserver"
  /\ IF watched[c] = None THEN UNCHANGED observer
     ELSE \E v \in BOOLEAN : StopObserverProcess(watched[c], v)
  /\ Watch(c, "stopLauncher")
  /\ UNCHANGED <<control, files, launchers, watched, sample, captured, gate,
                 sealed>>

WatcherStopsLauncher(c) ==
  /\ watcher[c] = "stopLauncher"
  /\ \/ captured[c] /\ KillTrees({c})
     \/ (~captured[c] \/ "unverified" \in Faults) /\ UNCHANGED launchers
  /\ heartbeat' \in {heartbeat, sample[c]}
  /\ WatcherEnds(c)
  /\ UNCHANGED <<control, stopFile, watchStop, lastRun, observer, gate,
                 sealed>>

-------------------------------------------------------------------------------
Init ==
  /\ lock = None /\ manifest = NoManifest
  /\ started = 0 /\ issued = 0 /\ faults = 0
  /\ stopFile = FALSE /\ watchStop = FALSE
  /\ heartbeat = NoSample
  /\ lastRun = [campaign |-> None, status |-> "none"]
  /\ root = [c \in Campaign |-> FALSE]
  /\ phase = [c \in Campaign |-> "none"]
  /\ clients = [c \in Campaign |-> FALSE]
  /\ observer = [c \in Campaign |-> "none"]
  /\ watcher = [c \in Campaign |-> "none"]
  /\ watched = [c \in Campaign |-> None]
  /\ sample = [c \in Campaign |-> NoSample]
  /\ captured = [c \in Campaign |-> FALSE]
  /\ gate = [c \in Campaign |-> "pending"]
  /\ pc = [k \in Controllers |-> "idle"]
  /\ job = [k \in Controllers |-> NoJob]
  /\ sealed = {}

Command(k) ==
  \/ CheckStart(k) \/ SpawnLauncher(k) \/ PublishLauncher(k)
  \/ SpawnObserver(k) \/ PublishObserver(k) \/ SpawnWatcher(k)
  \/ PublishWatcher(k) \/ AbortObserver(k) \/ AbortLauncher(k)
  \/ CheckOwner(k) \/ ReadGate(k) \/ JudgeGate(k) \/ JudgeHealth(k)
  \/ EnterStop(k) \/ ReadManifest(k) \/ StopObserver(k) \/ StopLauncher(k)
  \/ StopWatcher(k) \/ FinalizeDiagnostics(k) \/ RecordStop(k)
  \/ EndBackup(k)

Invoke(k) == BeginStart(k) \/ BeginStop(k) \/ BeginBackup(k)

CommandFault(k) ==
  \/ RollbackLauncher(k) \/ FailObserver(k) \/ FailWatcher(k)
  \/ Kill(k) \/ Interrupt(k)

Processes(c) ==
  \/ PrepareRun(c) \/ BringUpClients(c) \/ BringUpFails(c)
  \/ MarkRunning(c) \/ Teardown(c) \/ MarkFinished(c) \/ RootLost(c)
  \/ ObserverReports(c) \/ ObserverExits(c)
  \/ WatcherStart(c) \/ WatcherTop(c) \/ WatcherSample(c)
  \/ WatcherRequestsStop(c) \/ WatcherStopsObserver(c) \/ WatcherStopsLauncher(c)

Next ==
  \/ \E k \in Controllers : Command(k) \/ Invoke(k) \/ CommandFault(k)
  \/ \E c \in Campaign : Processes(c)

Spec == Init /\ [][Next]_vars

(* Each command is a running process and each of its waits is bounded; the     *)
(* launcher's bring-up is bounded, its loop polls the stop file, and every     *)
(* step of a failing watcher is bounded.                                       *)
SeesStopFile(c) == stopFile /\ phase[c] = "running" /\ Teardown(c)

Fairness ==
  /\ \A k \in Controllers : WF_vars(Command(k))
  /\ \A c \in Campaign :
       /\ WF_vars(PrepareRun(c)) /\ WF_vars(BringUpClients(c))
       /\ WF_vars(MarkRunning(c)) /\ WF_vars(SeesStopFile(c))
       /\ WF_vars(MarkFinished(c))
       /\ WF_vars(WatcherRequestsStop(c)) /\ WF_vars(WatcherStopsObserver(c))
       /\ WF_vars(WatcherStopsLauncher(c))

FairSpec == Spec /\ Fairness

-------------------------------------------------------------------------------
(* Properties. *)

Sample == [campaign : Campaign \cup {None}, required : {"yes", "no", "unknown"}]
Manifest == [state : {"none", "running", "start-failed", "stopped", "stop-failed"},
             campaign : Campaign \cup {None},
             observer : BOOLEAN, watcher : BOOLEAN]
LastRun == [campaign : Campaign \cup {None},
            status : {"none", "starting", "running", "finished"}]
Phases == {"none", "spawned", "prepared", "up", "running", "finishing", "gone"}
Gates == {"pending", "green", "failed"}
Watchers == {"none", "starting", "watching", "sampling", "failing",
             "stopObserver", "stopLauncher", "gone"}
Labels == Locked \cup GateWait \cup {"idle", "stopEnter", "copy"}
Job == [op : {"none", "start", "gate", "stop", "backup"},
        mine : Campaign \cup {None}, target : Campaign \cup {None},
        polls : 0 .. MaxPolls, seen : Gates \cup {"unavailable"},
        green : BOOLEAN, obs : BOOLEAN, lau : BOOLEAN, wat : BOOLEAN,
        fin : BOOLEAN]

CommandType ==
  /\ lock \in Controllers \cup {None}
  /\ pc \in [Controllers -> Labels] /\ job \in [Controllers -> Job]
  /\ started \in 0 .. MaxCampaign /\ issued \in 0 .. MaxCommands
  /\ faults \in 0 .. MaxFaults

FileType ==
  /\ manifest \in Manifest /\ lastRun \in LastRun /\ heartbeat \in Sample
  /\ stopFile \in BOOLEAN /\ watchStop \in BOOLEAN
  /\ sealed \subseteq Campaign

ProcessType ==
  /\ root \in [Campaign -> BOOLEAN] /\ clients \in [Campaign -> BOOLEAN]
  /\ phase \in [Campaign -> Phases] /\ gate \in [Campaign -> Gates]
  /\ observer \in [Campaign -> {"none", "up", "gone"}]

WatcherType ==
  /\ watcher \in [Campaign -> Watchers]
  /\ watched \in [Campaign -> Campaign \cup {None}]
  /\ sample \in [Campaign -> Sample] /\ captured \in [Campaign -> BOOLEAN]

(* The types of the session's files, processes and commands. *)
TypeOK == CommandType /\ FileType /\ ProcessType /\ WatcherType

StopSteps == {"stopObserver", "stopLauncher", "stopWatcher", "finalize", "record"}

(* A stop that is under way works on the campaign the manifest still names,    *)
(* and the one run-to-gate makes only on the campaign that command started: no *)
(* interleaving of commands lets a stop kill and record somebody else's        *)
(* session.                                                                    *)
StopsOwnCampaign ==
  \A k \in Controllers : pc[k] \in StopSteps =>
    /\ job[k].target = manifest.campaign
    /\ job[k].op = "gate" => job[k].target = job[k].mine

(* A manifest that says stopped has no live launcher, observer or watcher      *)
(* among the processes it records, whatever the watcher, the launcher and      *)
(* other commands did meanwhile.                                               *)
StoppedRolesGone == manifest.state = "stopped" => ~RecordedAlive

(* The two persistent profiles are used by the clients of one campaign only:   *)
(* prepare_clean_run stops what older launchers left before clients come up.   *)
OneClientPair == \A c, d \in Campaign : clients[c] /\ clients[d] => c = d

(* The green verdict that run-to-gate carries through its stop is that of the  *)
(* campaign it started, however often the session was replaced meanwhile.      *)
GateVerdictSound ==
  \A k \in Controllers : job[k].green => gate[job[k].mine] # "pending"

(* The diagnostic indexes of a campaign are sealed only when none of its       *)
(* clients can write any more.                                                 *)
SealedAfterClients == \A c \in sealed : ~clients[c]

(* A session's manifest is replaced by the next campaign's only when every     *)
(* role it records is dead: no start orphans a live session.                   *)
ReplacesDeadSession ==
  [][manifest'.campaign # manifest.campaign => ~RecordedAlive]_vars

(* Every command ends: the gate wait, the graceful waits and the forced        *)
(* fallbacks are all bounded, and nobody waits for the lock.                   *)
EveryCommandEnds ==
  \A k \in Controllers : pc[k] # "idle" ~> pc[k] = "idle"

(* A terminal watch sample takes its own campaign's launcher and clients down, *)
(* by the stop file or by the captured tree, even when the launcher's recorded *)
(* root is lost and no controller is left.                                     *)
WatchFailureStopsLauncher ==
  \A c \in Campaign : watcher[c] = "failing" ~> phase[c] = "gone" /\ ~clients[c]

(* The documented promises that some run of the code breaks. *)

(* Hash-state files are copied only while no client runs. *)
BackupQuiescent ==
  \A k \in Controllers : pc[k] = "copy" => \A c \in Campaign : ~clients[c]

(* A session recorded as stopped whose clients had become ready (its observer  *)
(* reported a gate) has its diagnostics sealed.                                *)
StoppedIsSealed ==
  manifest.state = "stopped" /\ gate[manifest.campaign] # "pending"
    => manifest.campaign \in sealed

(* A run-to-gate that ends leaves no running session of its own behind, unless *)
(* another command is stopping it.                                             *)
RunToGateStops ==
  [][\A k \in Controllers : LET c == job[k].mine IN
       job[k].op = "gate" /\ c # None /\ pc'[k] = "idle" =>
         \/ manifest'.campaign # c \/ manifest'.state # "running" \/ ~root'[c]
         \/ \E j \in Controllers : pc'[j] \in StopSteps \cup {"stopRead"}]_vars
===============================================================================
