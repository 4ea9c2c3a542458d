# A TLA+ verification of the eMuleBB test harness

The repository (`emulebb-build-tests`) is the shared Python harness that builds,
drives and compares the eMuleBB clients. Its own core logic, the part with
processes, files that outlive processes, and recovery, is the *persisted soak
subsystem*: a controller starts a long-running campaign of two diagnostic
clients, watches it, keeps the diagnostic evidence the clients write within a
disk budget, decides a parity gate and stops everything again. This project
models that subsystem, and the scenario fixtures that own something on the host
(interface addresses, Docker networks, routes, containers).

## 1. Inventory

| component | state it keeps | operations | what is hard |
|---|---|---|---|
| session commands, `persisted_soak_controller.py` | session manifest, lock file, two stop files, report files | start, run-to-gate, stop, backup-hash-state, status, gate-status | commands run in different processes; the lock does not wait; every check precedes its use by many steps |
| health watcher, same file | heartbeat, findings with streaks, event log | sample, fail, stop | it is both an owned process and the one that stops the others |
| diagnostic evidence round, same file with `diagnostic_run_scan.py`, `soak_storage.py` | index checkpoint, pinned segments, swap backups, temporary | advance, finalize, reconcile pins, recover | the writer rotates and prunes meanwhile; the round may die between any two file operations |
| launcher, `scripts/launch-soak.py`, `soak_launch.py`, `soak_run_layout.py` | last-run manifest, client processes, handle of the daemon's output | clear stale processes, prepare, bring up, mark running, poll stop file, tear down | orphans of earlier launchers on the same profiles; a capture thread that stops the daemon by itself |
| profile overlay, `profile_overlay.py` | journal, backup, the operator's preferences.ini | begin, restore, recover | crash at any step while the client lives on; a client that outlives its close |
| preflight archive, `soak_run_layout.py` | recovery manifest, copies, temporaries | promote, copy, verify, remove, resume | crash at any step, repetition under the same or another campaign |
| last-run manifest, same file, `converged_observer.py` | one JSON file | starting, running, finished; wait for ready; previous campaign | rewritten in place under two readers |
| observer, `converged_observer*.py`, `converged_action_driver.py` | summary, one report per action | reserve, create, poll, finalize, checkpoint, recover | two files that must agree; a POST that must not be repeated |
| process control, `windows_processes.py` | none (process table) | exact identity, tree termination | roots that die without their tree, kills that cannot be verified |
| bounded store, `soak_storage.py` | artifact directories | plan, enforce, persist_* | three processes list and prune without a lock; quota, free space and age at once |
| bounded output, `bounded_process_output.py` | rotating logs, error queue | supervise, pump, rotate, capture | two pump threads, a failing sink, a descendant that keeps the pipe |
| LAN address pool, `lan_ip_pool.py` | aliases and DAD setting of one interface | acquire, release | campaigns race for the same free address |
| source publisher, `docker_ed2k_source_publisher.py`, `server_callback_diagnostic_evidence.py` | network, route, container; request and result files | start, roll back, clean up; callback command | timeouts after which the engine goes on; strangers on the listener |
| stress lane, `scripts/rest-cold-start-dump-stress.py` | claimed hashes, transfer registry, the client's transfers | search task, claim, post, record; churn, queue fill, completion wait, cleanup, verdict | a pool of search tasks on two shared sets; posts whose answer is lost, requests that are repeated |
| other fixtures (`local_kad_peer.py`, `scripted_ed2k_udp_source.py`, `ed2k_server.py`) | sockets, observations | serve, answer | one thread each |
| comparison, reports, evidence registration, OpenAPI checks, VM and package campaigns, C++ tests | none, or data only | validate, compare | large data, no interleaving |

How they interact. A command (`start`, `stop`, ...) is one process. `start`
spawns the launcher, the observer and the watcher detached and records their
exact identities (pid and creation date) in the manifest; from then on they are
tied only by files: the launcher polls the stop file, publishes *latest-run*, the
watcher publishes its heartbeat and polls its own stop file, the observer publishes
the gate. `stop` writes both stop files, waits for each role, kills what does not
go, and seals the diagnostic indexes from the last heartbeat. The evidence round
is run by the watcher for each client while the session runs, and by `stop` to seal.

What makes each part correct:

- evidence: a segment the checkpoint says is kept can be restored after any
  crash; the index covers the run without a gap; the budget holds; a more important
  segment is never given up for a less important one; a sealed index reaches the
  end of the run.
- session: one live session at a time; a stop reaches only the campaign it was
  issued for; *stopped* means that nothing recorded is alive; indexes are sealed
  after the writers; a verdict belongs to the campaign it was asked of; one pair of
  clients per pair of profiles; no command hangs; a failing watcher takes the
  session down.
- log: bounds hold after every write, what is retained is an unbroken end of what
  was written, also when a rotation is cut off.
- launcher: the operator's profile is in place or can be rebuilt wherever a launcher
  dies, unless it was given back under a client that could not be ended; no output of a client is lost between profile and archive; lost daemon output is
  recorded; an observer attaches only to the campaign it was started for.
- attendants: a supervisor never reports success for output it lost; no search is
  posted twice; the gate is what its reports make it; transient findings are tolerated and
  lasting ones are not; nothing of the active campaign is pruned.
- fixtures: each run removes what it made and nothing else; only callbacks are accepted as
  callbacks.
- stress lane: no file is asked for twice; the cap on active downloads is exceeded at most by
  the tasks under way; the verdict's counts are the registry's; a passed run leaves no
  download it recorded.

`PROJECT.json` lists every component with its status and every hazard at its line.

## 2. Modules

| module | content |
|---|---|
| `DiagnosticEvidence` | one client's evidence round and the writer beside it |
| `DiagnosticEvidence_proofs` | its theorems |
| `MCDiagnosticEvidence` | instance for TLC |
| `SoakSession` | commands, lock, manifest, stop files, launcher, clients, observer, watcher |
| `SoakSession_proofs` | its theorems |
| `MCSoakSession` | instance for TLC (symmetry of the controllers) |
| `SuffixLog` | abstract log: bytes are added at the end and forgotten from the beginning |
| `RotatingLog` | `RotatingBinaryLog` with its files; implements `SuffixLog` |
| `RotatingLog_proofs` | its theorems, the refinement among them |
| `MCRotatingLog` | instance for TLC |
| `ProfileOverlay`, `ProfileOverlay_proofs` | the borrowed profile and its journal; theorems |
| `DaemonCapture` | the Rust daemon's output: capture thread and launcher |
| `PreflightArchive` | `prepare_clean_run`: promotion, copies, recovery manifest |
| `RunManifest` | the last-run manifest between launcher, observer and start |
| `MCLauncher` | the four modules above for TLC |
| `Launcher_proofs` | theorems of DaemonCapture, PreflightArchive and RunManifest |
| `BoundedProcess` | supervisor, pumps, child, descendant |
| `ObserverActions` | the observer's actions and the two files it lives on |
| `WatchFindings` | the verdict of the watcher: findings, streaks, heartbeat |
| `ArtifactStore` | plan, enforce and persist by processes that share a store |
| `MCAttendants` | the four modules above for TLC |
| `Attendants_proofs` | theorems of BoundedProcess, ObserverActions, WatchFindings and ArtifactStore |
| `LanIpPool`, `LanIpPool_proofs` | interface addresses and DAD setting; theorems |
| `SourcePublisher` | network, route and container of the publisher |
| `CallbackCommands` | parent, child and listener of the callback scenario |
| `StressDownloads` | search tasks, registry, churn, fill, cleanup and verdict of the stress lane |
| `MCFixtures` | the four modules above for TLC (symmetry of the searches and of the files) |
| `Fixtures_proofs` | theorems of SourcePublisher, CallbackCommands and StressDownloads |
| `MCProgress` | liveness of BoundedProcess, ObserverActions, WatchFindings, CallbackCommands |

`MCLauncher`, `MCAttendants`, `MCFixtures` and `MCProgress` each explore several
components that do not share state. Their variable `scope` says which component a
behaviour is about; the next-state relation is that component's, and the variables of the
others keep a first value. The state space is the sum of the components' and not their
product. One component is EXTENDed, the others are INSTANCEs, some of
them twice with different faults (`Killed` and `Torn`, `Steady` and `Shaken`, `Refused` and
`Disturbed`). The bounds that the theorems leave open are CONSTANTS of the MC module, given
in its cfg; those of `MCProgress`, which no theorem is about, are written beside each
INSTANCE. The proof modules `Launcher_proofs`, `Attendants_proofs` and `Fixtures_proofs` EXTEND the MC
module, so that their theorems speak of the specification that TLC explores.

### DiagnosticEvidence

A segment is its number; `kind[s]` is the importance of what it holds (0: nothing
of its own, context only; 250, 300, 400 the priorities of `_pin_priority`). The
writer (external: it is the client) has an active segment, a lowest retained one,
and stops at some point. `ckpt` is the checkpoint on disk, `files`, `swaps` and
`tmp` the pin directory; `next`, `pins`, `queue`, `cand`, `victim`, `pending`,
`deleted` are the locals of the round, lost in a `Crash` and in every exception
(`Abort`). Actions follow the code's file operations one by one:

- `ReadHealth` takes the active segment from the writer's health; `ScanClosedSegments`
  indexes the closed suffix, raising when it is not contiguous; `BeginFinalize` /
  `FinalizeStoppedRun` do the same for a stopped writer, the last segment included;
- `RecoverSwap`, `RecoverSweep`: `_recover_diagnostic_evidence_pin_swaps`, one entry a
  step; `SelectCandidates` validates the pins and chooses the candidates;
- `SkipCandidate`, `PickCandidate` (moves the victim aside), `CopyToTemporary`,
  `PublishCopy`, `AcceptPin`, `CopyRaises`, `RestoreVictim`: the loop of
  `reconcile_diagnostic_evidence_pins` with its handler;
- `ReplaceCheckpoint`, `CheckpointVerified` or `CheckpointVerificationFails`, then
  `CleanSwap` until `RoundDone`.

Both clients run the same round over disjoint directories one after the other, so
one is modelled. `PublishCopy` leaves open which files a full directory loses (the
oldest by modification time); the round checks that none was lost.

`BeginFinalize` is taken only after the writer has stopped. That is not the round's doing
but the stop's, which finalizes after it has ended the clients: `SealedAfterClients` of
`SoakSession` is the property about it.

Abstracted or left out: the content of the index; tailing the active segment of a
run already indexed; a writer that restarts under a new run id. A checkpoint that
does not read back after its replacement is unlinked by the code
(`soak_storage.py:1024`); the round after that starts from an empty manifest and
sweeps the pins. The model takes this step, and the properties about checkpointed
pins speak of what the checkpoint that exists lists.

### SoakSession

A process is named by its role and its campaign: exact identities make reuse of a
pid harmless. Per campaign: `root` (the recorded launcher process), `phase`
(launcher program), `clients`, `observer`, `watcher` with its locals (`watched`,
`sample`, `captured`), `gate`. Shared: `lock`, `manifest`, `stopFile`, `watchStop`,
`heartbeat`, `lastRun`, `sealed`. Each controller has a label `pc[k]` and locals
`job[k]`; one action stands for the code between two points where another process
can interfere.

- start: `BeginStart` (the lock or an exception), `CheckStart`, `SpawnLauncher`,
  `PublishLauncher` or `RollbackLauncher`, `SpawnObserver`, `PublishObserver` or
  `FailObserver`, `SpawnWatcher`, `PublishWatcher` or `FailWatcher`,
  `AbortObserver`, `AbortLauncher`. As in the code a failed watcher aborts the
  observer and the launcher, and the manifest stays.
- run-to-gate: start, then `CheckOwner`, `ReadGate`, `JudgeGate`, `JudgeHealth` until
  a verdict, a timeout (`TimedOut`) or an interrupt, then stop with the expected
  campaign.
- stop: `BeginStop`, `EnterStop`, `ReadManifest`, `StopObserver`, `StopLauncher`,
  `StopWatcher`, `FinalizeDiagnostics`, `RecordStop`.
- backup: `BeginBackup` checks, `EndBackup` has copied. It takes no lock.
- launcher: `PrepareRun` (stale processes are killed, or it raises), `BringUpClients`
  or `BringUpFails`, `MarkRunning`, `Teardown`, `MarkFinished`.
- watcher: `WatcherStart`, `WatcherTop`, `WatcherSample`, and on a failing sample
  `WatcherRequestsStop`, `WatcherStopsObserver`, `WatcherStopsLauncher`.
- environment: `Kill` (a controller dies; its lock is released by the operating
  system), `Interrupt`, `RootLost`, and kills that cannot be verified. `Faults`
  says which are explored; `MaxFaults` bounds the budgeted ones.

Abstracted: preflight, VPN and storage failures of start are its branch to the end;
a failed spawn or manifest write behaves like a `Kill` at that point; the verdict of
a health sample is nondeterministic; *latest-run* is read and written in one step;
start's options are observer and watcher enabled. The details behind these choices have
modules of their own: `WatchFindings` (the verdict), `RunManifest` (the file read while it
is written), `BoundedProcess` and `DaemonCapture` (stop files of a failing log).

### RotatingLog

Bytes are numbered in the order in which they reach the disk, and a file is the range
it holds; `exist` and `seg` are the files, generation 0 the active one. `limit`,
`retained` and `size` are the attributes of the log object. The constructor is `Open`,
`PruneInvalidGeneration` (one file a step, in any order) and `StartNewRun`; `_rotate`
is `BeginRotate`, `Shift` for each rename and `FinishRotate`, called by the constructor
and by `RotateFirst`; `write` and `write_record` are `Call` and then `AppendChunk` until
nothing is left. `AppendRaises` is a write that fails or is cut short, `OperationRaises`
any other file operation that raises (the constructor's caller then has no log, a
write's caller may write again), `Close` is `close` and the death of the process at any
point. Each `Open` takes any of the configured limits, so runs under different limits
follow each other. The refinement maps `kept` to the union of the files' bytes.

Abstracted: the handle (opened in append mode whenever there is none, so it carries no
state of its own) and names beside the log that are not generations.

### ProfileOverlay

A file is its content, a digest the content it was taken from. The launcher (`Launch`,
`JournalAbsent`, `TargetMismatch`, `AlreadyRestored`, `RecoverActive`) recovers what an
earlier one left, writes backup and journal (`OpenBackup`, `WriteBackup`, `WriteRaises`,
`ActivateJournal`), brings the client up, and in its `Teardown` closes the client and
restores (`Restore`, `UnlinkBackup`, `CloseJournal`). The client saves its preferences at any
time it runs, also after the launcher's death, and may exit by itself; the operator edits a
profile that nobody uses. `Crash` falls between any two file operations.

A close and a kill that fail are swallowed, in `bring_up_mfc` and in `graceful_teardown`, and
the restore follows all the same ("survive": `Closed` may leave the client alive). A Ctrl-C
in `bring_up_mfc` passes its `except Exception` by, and main has no handle to close
("interrupt"). `loose` remembers the profiles that were given back under a living client;
the properties except these and no others, and all faults are explored. `Launch` ends only a
client of the profile now chosen.

### DaemonCapture

The capture thread (`ReadChunk`, `LogChunk`, `SinkFails`, `StopDaemon`) and the launcher,
which looks at the capture and at the daemon at separate points of its bring-up
(`BringUpFails`, `BringUpDone`; `BringUpInterrupted` is a Ctrl-C, which passes the handler by
and leaves nobody to look at the capture), main loop (`CheckCapture`, `PollDaemon`) and teardown
(`TeardownStops`, `CloseCapture`, `Record`).

### PreflightArchive

Outputs carry the number of the client run that wrote them. `Promote`, `Prepare` or
`Resume`, then per entry `VerifyCopied` or `StartCopy` with `FinishCopy`, the manifest
`Copied`, `RemoveSource` per entry, `Completed`. A launcher killed inside a copy leaves its
temporary ("torn"). A later `Launch` may use the same campaign or a new one.

### RunManifest

`write_json` is `Truncate` and `Fill`; between them the observer (`Attach`, `ReadsEmpty`)
and start (`StartSession`, `StartRaises`) may read, and the launcher may die.

### BoundedProcess

Each stream is the number of bytes that entered it. The pumps read and log; a failing sink
or read puts an error into the queue; the supervisor polls the child and the queue,
requests a stop, waits, kills, joins, collects the errors and writes its own line. `heir` is
a process the child started that keeps both pipes open.

### ObserverActions

`state` is the observer's memory, `summary`, `file` and `temp` the disk. Every update of the
state is persisted before the next effect; the steps are the reservation, the intent and the
outcome of each client's create, the polls with their deadlines, the evidence, the report's
temporary and its rename, the commit of the report into the summary, and the recovery of
each of them after `Crash`, `CrashInWrite` ("torn") or `SummaryLost` ("lost": a checkpoint
that does not read back is unlinked). `Tick` is the clock.

A checkpoint is two writes: `PruneCheckpoint` and `WriteCheckpoint` change the directory of
immutable checkpoints (`checkpointFiles`), `CaptureCheckpoint` writes the summary with the
count and the number retained, unvalidated; `FailedCheckpoint` may fall before, between or
after them. `Valid` is `validate_state` with its comparison of retained and seen
(`RetentionFits`), and a state that fails it is refused by the step that follows and by every
later `LoadState` (`RejectState`). `uncounted` remembers that an attempt, killed or failed,
left a checkpoint which the state it goes on with does not count; only then may a state be
refused (`RecoversOwnFiles`), and then it is (section 6, 20). The count of checkpoints stops at
`RetainedCheckpoints`, which no number of files exceeds.

### WatchFindings

`ill`, `run`, `up` and `readable` are the world the watcher samples; `SampleOf`, `Advance`,
`Terminal` and `Restored` are the pure functions of the controller; `TakeSample`,
`AppendJsonl`, `WriteHeartbeat`, `Decide`, `PersistTerminal`, `FinishWatchFailure` the
loop. One client stands for both.

### ArtifactStore

An artifact is a number that is also its age, one unit large. An enforcement is `List`,
`MakePlan`, `Delete` one by one and `Verify`, by writers (around `WriteTemporary` and
`Replace`) and by the watcher; a name that vanished between listing and stat makes it raise.
`Expire` and `ForeignUse` are time and other users of the disk.

### LanIpPool

One step per PowerShell call, by pools on one interface. `Guarded` are the pools whose
caller releases them after an exception. `excused` remembers that a clean-up command failed
or a campaign was killed: nothing on disk knows its aliases then. `misread` are the pools
that got an answer which is no number for the DAD setting and took it for 1; they put back
that 1 (`Taken`), which `DadRestored` says and `OriginalDadRestored` denies (section 6, 21).

### SourcePublisher and CallbackCommands

A command of the engine succeeds, fails ("refuse"), times out while the engine goes on
("slow", `late`), or fails with words that read like absence ("misreport"). Network and
route exist once per host, so overlapping runs meet there. In `CallbackCommands` requests
travel over `wire`, may be lost or delivered twice, and other peers dial in ("stray").

### StressDownloads

A search task is one thread of the pool with a point of its own; the cap, the claim, the
post and the record are four steps, because each looks at a shared set under its own lock.
`accepted` are downloads the client carries out and does not show yet: a post whose answer is
lost, or whose transfer appears after the wait, leaves one that the registry never learns of.
The main thread's phases follow `main`; an exception of the churn or of the diagnostics ends
the run without cleanup. `Window` is how many transfers one list of the client shows. Which
results are candidates (names, types, sizes) is left open, and so is the verdict of the
diagnostics.

A request of the model is one call of `http_request` (`rest-api-smoke.py:2152`), which sends
it up to four times, POST and DELETE included, when the connection is refused, reset or
aborted or the client answers that it is busy; `wait_for` calls its function again and sends
nothing itself. So `posts` counts requests and not transmissions. What a repetition can do
is in the outcomes: the answer to the second transmission of a batch may not own to the links that
the first one queued, and a DELETE may have worked although its answers say neither 200 nor
404. Assumed of the client: a repeated POST of a file it has changes nothing.

Not modelled: `--skip-transfer-cleanup`, with which nothing is deleted and the verdict does not
ask for it, and the run that is *inconclusive* because no server can be reached; both leave the
tasks and the registry as they are.

## 3. Runs

| run | bounds | shows |
|---|---|---|
| `evidence` | segments 0..4, 2 pins, kinds {0, 250, 400} | the evidence properties; 4.6 million states |
| `session_commands` | 2 controllers, 2 campaigns, 3 commands | isolation, verdict, sealing order, no replacement of a live session; 2.9 million states |
| `session_faults` | 2 campaigns, 2 commands, one kill | one pair of clients although orphans are left; 4.0 million states |
| `session_unverified` | 1 campaign, 3 commands, one poll, identity and interrupt faults, unverified kills | *stopped* means gone; 2.5 million states |
| `session_liveness` | 1 campaign, 2 commands, one lost root, fair | every command ends; a watcher failure stops the launcher; 345 thousand states |
| `backup_race` | 2 campaigns, 3 commands, no faults | the first disagreement of section 6 |
| `log_suffix` | 3 generations of 2 bytes, writes of 1..5, 16 bytes in all | the files hold an unbroken end of what was written (`SuffixLog`); 15 thousand states |
| `log_limits` | limits 2 and 3, retentions 1 to 3, 14 bytes | order of age and hard bounds across runs of different limits; 196 thousand states |
| `launcher` | 2 profiles, 2 contents, crashes, interrupts, closes that fail; 6 bytes over a pipe of 3; 2 outputs, 3 campaigns, 3 client runs, 2 crashes; 3 campaigns of the manifest | profile, output, archive and manifest survive a launcher that dies anywhere; 483 thousand states |
| `attendants` | 4 bytes per stream, pipe of 2; 2 actions, 2 kills, 2 checkpoints retained; threshold 3, 3 watch commands; 2 writers and the watcher, 3 artifacts | fail-closed supervision, no repeated search, sound streaks, the active campaign kept; 2.9 million states |
| `fixtures` | 2 pools, 4 addresses, 2 each, one failure, one kill; 2 publishers; 2 targets, 5 connections; 2 waves of 2 searches, 3 files, cap 2, one synthetic link | each removes its own, only callbacks accepted, each file asked for once and cleaned up; 1.0 million states |
| `progress` | as above, smaller; fair | supervisor, action, watch and callback come to an end; 191 thousand states |

Why the bounds are enough. Five segments with a budget of two make the round fill the
budget, evict twice in one round, meet a pruned candidate and a context neighbour on
each side, and crash with two swap backups on disk; a third pin or a sixth segment adds
no new kind of state. Two campaigns are what a stale command needs to meet a replaced
session; three commands let a start, a stop and a second start overlap in two
controllers. The budgeted faults are one per behaviour because the code keeps no
memory of earlier ones. A log of three
generations has a middle one, which is both the target and the source of a rename;
five bytes span three segments of two. Two profiles are what a journal of another profile
needs. A pipe smaller than the stream makes the writer block. Two kills of the observer let
the second one fall into the recovery of the first. With two checkpoints retained, the third
prunes one, and one that is not counted shows at the next. Three watch commands carry a streak
over two restarts; the watcher under every fault has two. The state constraint `Bounded` of
`attendants` lets a skipped slot count as one of the two kills, leaves skipped slots out where
files are torn or lost, and an unhealthy VPN guard, which is reported at once and has no
streak, out where the watcher is killed; the theorems have none of these bounds. With three artifacts and a limit of one,
two writers and the watcher plan deletions from listings that are out of date. Three files under a cap of two let two tasks meet at the cap and one file be found by both, in
one wave and in the next; a second wave finds what churn has deleted. Four addresses
for two pools of two, one of them taken, make one pool fall short. The theorems of section 5
hold for every value of these bounds that meets the hypotheses they name.

Deadlock is not checked where a bounded number of commands, campaigns or actions has an end:
the session runs and the four runs with a scope. It is checked in `evidence` and in the log
runs.

Each property has a mutant of the code in `PROJECT.json`: an operator defined just
before the one it replaces (dropped guard, missing restore, off-by-one, unlocked
start, ...). TLC finds each of them.

### Properties

Evidence: `PinsRecoverable` (a checkpointed pin is present as itself or as its
backup), `SwapsUnambiguous` (never both, so recovery is never ambiguous),
`RecoveryRestoresManifest` (after recovery the directory is the manifest), `PinBudget`
(publishing a copy never unlinks a pin), `SelectionSound` (a round never evicts what it
pinned itself, and an important indexed segment is pinned or the budget is full of segments
that outrank it), `IndexSound` (a gap-free range, each segment counted once; a finalized
index reaches the end), `RoundsMonotone` (a pin gives way only to higher ranks; a sealed
checkpoint stays as it is).

Session: `StopsOwnCampaign`, `StoppedRolesGone`, `OneClientPair`, `GateVerdictSound`,
`SealedAfterClients`, `ReplacesDeadSession`, `EveryCommandEnds`,
`WatchFailureStopsLauncher`; and `BackupQuiescent`, which the code does not have.

Log: `AgeOrder` (a higher number means older bytes and no byte is in two files),
`BoundsKept`, `ImplementsSuffixLog`.

Launcher: `OriginalRecoverable` (the operator's bytes are in place or an active journal
rebuilds them), `RecoveryNeverStuck` (nothing a launcher left of its own profile makes the
next one raise), `ClientUnderJournal` (a client runs under an active journal, and none is left
on the chosen profile from recovery to launch), each but for a client that the launcher could
not end; `LossRecorded`, `ArchiveSound`, `ManifestSound`. `PreferencesRestored`, without that
exception, is disagreement 6.

Attendants: `FailClosed`, `LineAfterOutput`, `ObserverSound`, `StreaksSound`, `StoreSound`.
`StateLoads` is disagreement 20.

Fixtures: `OwnOnly`, `InterfaceRestored`, `PublisherSound`, `CallbackSound`, `StressSound`.
`OriginalDadRestored` is disagreement 21.

Progress: `SupervisorEnds`, `ActionSettles`, `UnhealthyEndsWatch`, `ChildAnswers`.

A property called ...`Sound` is the conjunction of the component's type invariant and of the
properties that its comment lists; each conjunct is defined in the component's module. The
type invariants of RotatingLog, ProfileOverlay and BoundedProcess are not checked again by a
run: they are proved.

## 4. Fairness

`FairSpec` assumes weak fairness of each command's next step (a controller is a running
process and all its waits have deadlines), of the launcher's way from spawn to running
and from a stop file to its end (bring-up is bounded, the main loop polls the stop file
every two seconds), and of the three steps a watcher takes after it has decided to fail.
Nothing is assumed of issuing commands, of the health verdict, of the observer, of the
clients or of the faults.

In `progress`: the supervisor and each pump thread are scheduled (WF of `Supervisor` and of
`Pump(s)`), nothing of the child; the observer's loop and the clock go on (WF of `Observer`
and `Tick`), nothing of the clients' answers; the watcher's loop goes on (WF of
`WatcherStep`), nothing of the clients; the publisher's child goes on (WF of `Child`), whose
waits have deadlines, nothing of the parent, the server or the listener. `SupervisorEnds`
is checked without a descendant that keeps the pipes: `join` has no timeout, so with one the
supervisor waits as long as the descendant lives.

## 5. Proofs

Eight modules hold theorems, for every value of the constants unless a hypothesis is named.

`DiagnosticEvidence_proofs`, for every number of segments, budget and set of kinds:

- `TypeCorrect`, `EvidenceRecoverable`, `RecoveryUnambiguous`, `RecoveryComplete`,
  `BudgetKept`. The inductive invariant `PinInv` is needed because the disk alone does not
  say which of its files matter. It ties the directory to the locals of the round at each
  program point: while candidates are handled the backups are exactly the victims so far
  (`ListsInv`), and the pin files are the round's pins less the victim being replaced, with
  the published candidate (`FilesInv`); before that the round's manifest is the
  checkpoint's (`QuietInv`). Crashes keep it because nothing is said of the locals once the
  round is dead.
- `IndexGapFree` (`IndexSound`). `IndexInv` says the same of the checkpoint's index and of
  the round's: an interval whose size is the count, and complete when it is finalized. A
  scan extends an interval because the closed suffix it accepts is contiguous with it.
- `BestEvidenceKept` (`SelectionSound`). The property speaks of checkpoints, which are
  written at the end of a round; `SelectInv` carries it through the round: what the round
  owes is pinned, still in the queue or in hand, or outdone by a full budget (`ChoiceInv`),
  and a victim is the lowest pin and ranks below the candidate (`VictimInv`). Two lemmas on
  the ranking do the work: being outdone passes down the ranking, and a swap of the lowest
  pin for a higher one keeps everything outdone that was.
- `PinsOnlyImprove` (`RoundsMonotone`, an action property), from `SelectInv` and from
  `FinalInv`: a repeated finalization finds nothing to do.

`SoakSession_proofs`, for every set of controllers, all bounds and all sets of faults:

- `StopIsolated`, `StoppedMeansGone`, `LiveSessionKept`, with `TypeCorrect`. The inductive
  invariant `SessionInv` has one part about the manifest and one per command. The argument:
  a command past its lock owns the lock, so at most one publishes or records; a campaign
  number is fresh, so nothing recorded by another command can name it; no step revives a
  dead process, so what a command saw dead stays dead until it records. The preservation
  proof sorts the actions by who acts: commands that publish, commands that do not, and
  processes.
- `OnePairOfClients` (`OneClientPair`). `ClientsInv`: only one launcher is between the end
  of its preparation and the end of its teardown, and the launchers of later campaigns do
  not exist yet. Every action is first sorted into the few things it may do to the
  launchers (`LauncherStep`).
- `SealedLast` (`SealedAfterClients`), under the hypothesis that no recorded root dies alone
  (`"rootLost" \notin Faults`); with it the property is false (section 6, 2). `RootInv`:
  the root is alive for as long as the launcher is.
- `VerdictIsOwn` (`GateVerdictSound`). `VerdictInv`: a green gate that a waiting command has
  read was published by its own campaign, or the manifest already names another one, which
  the check of the owner after the reading finds out; campaign numbers in the manifest only
  grow, so it cannot be named again.

`RotatingLog_proofs`, for all limits, retentions and bounds: `TypeCorrect`,
`AgesOrdered`, `HardBounds` and `LogImplementsSuffix`. The order of age is not
inductive alone: `AgeInv` adds that the active file holds the newest bytes, and
`FreeSlot` that the slot a rename moves to is empty, which an interrupted rotation keeps
because the next one starts from the oldest again. The bounds rest on `SizeExact`:
`_size` is the length of the active file whenever a call looks at it. This is why
`HardBounds` and the refinement assume that no write is cut short (`~ShortWrites`). The
refinement also assumes equal limits in all runs (`SameLimits`): a smaller limit makes
the constructor delete any generation that is too long, which need not be the oldest.
Under both assumptions each step is a `Write`, a `Forget` (only `BeginRotate`) or a
stutter of `SuffixLog`.

`ProfileOverlay_proofs`, for any profiles and contents and under every fault:
`TypeCorrect`, `ProfileRecoverable`, `RecoverySucceeds`, `ClientsJournaled`. The invariant
says at each point of the launcher which of target, backup and journal hold the operator's
bytes, and that a client alive is on the journal's profile or on a loose one, on which the
journal is closed or about to be.

`Launcher_proofs`:

- `LossReported` (`LossRecorded`), for any pipe and amount of output. `CaptureInv` conserves
  the bytes (sent, in the pipe, in the thread's hands, logged) and says that a capture that
  ended without a failure has drained the pipe of a dead daemon, or the launcher has
  recorded a failure.
- `ObserverAttachesReady` (`ManifestSound`), for any number of campaigns. `ManifestInv`: what
  the file says of a campaign is true of it, and so is what a writer is about to put there;
  a writer killed between truncation and fill leaves nothing to believe.
- `NothingLost` (`ArchiveSound`), for any outputs, client runs and a positive number of
  campaigns. `ArchiveInv`: while outputs are being copied, each source left is an entry of
  the plan (`Covered`); a temporary holds what its entry names; from the manifest *copied*
  on every copy equals its entry, so removing a source loses nothing.

`Attendants_proofs`:

- `TypeCorrect`, `OutputPreserved` (`FailClosed`), `LogNotShared` (`LineAfterOutput`), for
  every stream length and pipe capacity, with or without a descendant. The invariant
  accounts for every byte (in the pipe, in a pump's hands, in the log) and says that a pump
  which ended without having drained its stream has left an error in the queue or in the
  supervisor's hands.
- `ActiveCampaignKept` (`StoreSound`), for any number of writers and any limits. Plans only
  ever hold artifacts of earlier campaigns (`PlanInv`). That a store over its limit is
  noticed is not inductive: `NoticeInv` names who notices. The writer of the newest artifact
  answers for the store; nobody wrote after it, so its listing still covers the store when
  it verifies. Assumed: artifacts are numbered by age, and the earlier campaigns left the
  store within its limit.
- `StreaksCountSamples` (`StreaksSound`), for any threshold and number of watch commands, for
  the watcher that is not killed (`Steady`) and the one under every fault (`Shaken`); both are
  shown to take steps of one watcher, so most of the invariant is proved once. `RowInv`: the
  samples that have a finding are ahead of its streak, in memory and in the heartbeat, by at
  most one per restart; `SteadyInv`: without a kill no streak is ahead of the samples.

- `ObserverKeepsTruth` (`ObserverSound`), for any number of actions, skips, kills, polls and
  retained reports. The two observers share the first part of the invariant: while an observer
  is up, the summary is its state or is missing (`Synced`); each of its points says how far the
  pending action is (`Shape`) and which of report, file and temporary exist (`Durable`); a
  reservation that was interrupted in doubt has a create that never succeeds, and a report is
  only of an action whose searches are through (`Trusted`), so nothing can become doubtful
  after it was reported. The second part holds as long as no file is torn or lost: the next
  number and the gate are those of the reports folded (`Numbered`; `FoldIsGateOf`: folding one
  report into the gate of those before it gives the gate of all, by cardinality), every file
  from that number on carries the pending reservation, so that none is refused (`OwnFiles`),
  a create whose POST was not sent has no search (`Sent`), and, as long as no attempt left a
  checkpoint uncounted, neither stream's retained files outnumber the ones its state has seen
  (`Windowed`), so that the state written next is valid. Most steps are moves that go on with the same action
  (`Carries`), and one lemma covers them; the observer whose files are torn takes the other's
  steps and four more (`TornIsKilled`).

`LanIpPool_proofs`, for any number of pools, addresses and failures:
`AddressesOwned` (`OwnOnly`) and, when every caller releases its pool (`Guarded = Pools`),
`InterfaceLeftAsFound` (`InterfaceRestored`). `PoolInv` adds to the ownership that, as long
as nothing is excused, what the interface has beyond its own addresses is in some pool's
list, and that a pool alone on the interface has saved the setting it took for the original
or the interface has it.

`Fixtures_proofs`:

- `PublisherOwned` (`PublisherSound`), for any number of runs on the host. `OwnInv`: network
  and route belong to one run, and each run has the resources its point says (`Held`).
  When commands are only refused, `GoneInv` says in addition which removals were attempted
  and that what is left is named in an error. The refused runs are shown to be a case of the
  disturbed ones.
- `CallbacksGenuine` (`CallbackSound`), for any targets and a positive number of connections.
  `CallbackInv`: a command leaves for the server once; an answer names a HELLO that was
  observed after the command was taken up; the evidence the parent has accepted so far is
  genuine.
- `StressLaneSound` (`StressSound`), for any set of files, number of waves, tasks, rows and
  caps. A claim is made under a lock and for ever, and its hash is in the hands of one task
  from the post to the record (`RegistryInv`); a task that has read the cap is counted with
  the downloads active then (`CapInv`); each record adds one row and one hash, and the rows
  are counted one by one, so that the totals follow without induction over sums
  (`CountsAgree`); the verdict of a run that passed was taken from a list that showed none of
  the recorded hashes, and none comes back (`VerdictInv`). Assumed: the window of the transfer
  list holds every file, because the last conjunct is otherwise false (section 6, 28).

Every invariant that a passing run checks is the subject of one of these theorems. Only
model-checked is liveness (`EveryCommandEnds`, `WatchFailureStopsLauncher`, `SupervisorEnds`,
`ActionSettles`, `UnhealthyEndsWatch`, `ChildAnswers`): fairness is outside this prover's
reach.

## 6. Disagreements between the code and its own words

The run `backup_race` shows the first. The others were found the same way; each is a
property of its module that TLC refutes when it is checked with the constants named here.
Where a passing run checks a property of the same name, the case named here is the one that
run leaves out.

Session:

1. `BackupQuiescent` (`backup_race`): the hash-state backup "requires all persisted soak
   controller processes to be stopped" but takes no lock; a start may begin after its check.
2. `SealedAfterClients` with `Faults = {"rootLost"}`: "finalization requires the launcher and
   both clients to stop", but the exit of the recorded launcher process is all that is checked
   (`persisted_soak_controller.py:3734`).
3. `StoppedIsSealed`: a heartbeat taken before the clients were ready makes stop skip the
   sealing and still record a clean stop (`:3661`).
4. `RunToGateStops`: run-to-gate "always stops" its session, but its stop raises when another
   command holds the lock, and is not tried again (`:2737`).

Log:

5. `BoundsKept` with `ShortWrites = TRUE`: the log has "hard bounds" according to its test, but
   a short write raises before `_size` is brought up to date (`bounded_process_output.py:99`).
   The supervisor's own failure line then makes the segment too long, and the next run
   deletes it as invalid.

Launcher:

6. `PreferencesRestored` with the constants of the run `launcher`: Ctrl-C is "stopping all
   launched apps gracefully" (`launch-soak.py:1174`), "including MFC preference restoration"
   (`src/README.md:291`), but `bring_up_mfc` closes its client in `except Exception`, which a
   KeyboardInterrupt passes by; the teardown has no handle of the client, restores the profile
   under it, and what the client saves at its own exit replaces the operator's bytes
   (`soak_launch.py:1434`). The same comes of a close and a kill that fail (`Faults =
   {"survive"}`), which are swallowed before the restore (`:1434`, `launch-soak.py:765`); the
   next recovery may then raise over the backup of that profile.
7. `RefusesOnlyActive`: recovery should "report that none is active", but compares the target
   before the state, so that a restored journal of another profile makes it raise
   (`profile_overlay.py:106`).
8. `LossFailsRun`: the capture thread may fail and stop the daemon between the loop's look at
   the capture and its poll of the daemon; the run then ends as *rust-exited*
   (`launch-soak.py:1130`). `LossRecorded` holds.
9. `DaemonStopped`: the last `raise_if_failed` of the bring-up is past its handler, and
   nothing kills the daemon (`soak_launch.py:1263`). A Ctrl-C in `bring_up_rust` passes the
   handler by as well (`:1254`): the daemon lives on, and `LossNeverSilent` fails with it, since
   the run is recorded as stopped whatever its output capture had failed to log.
10. `ArchiveResumes` with "torn": a copy cut off before its rename leaves a temporary that the
    repeated preparation refuses as unplanned (`soak_run_layout.py:805`).
11. `PromotionResumes`: a preparation cut off after the promotion cannot be repeated under its
    campaign, since the destination exists (`soak_storage.py:831`).
12. `WaitingSurvivesWrites`: an observer that reads the manifest between truncation and fill
    gets a decoding error, which ends it (`soak_run_layout.py:1275`).
13. `NextStartReads`: a launcher killed inside the rewrite leaves an empty manifest over which
    the next start raises (`persisted_soak_controller.py:216`).

Attendants:

14. `RecoversOwnFiles` with "torn": a report's temporary cut off in the middle makes every
    later observer of the campaign raise (`soak_run_layout.py:276`).
15. `AtMostOnePost` with "lost": a summary that does not read back is unlinked, the only record
    of the pending action, and the search is posted again, although "the POST will not be
    replayed" (`soak_storage.py:1024`).
16. `TransientTolerated` with "crash": a sample reaches the history before the heartbeat; a
    watcher killed in between restores a streak that the sample had ended
    (`persisted_soak_controller.py:3092`).
17. `StatusLossGated`: a sample that cannot be taken is judged by the last one that could, also
    of a campaign that was still starting; such losses never count (`:3498`).
18. `PreviousKept`: a writer's own enforcement prunes the previous campaign that the session
    pins (`soak_storage.py:493`).
19. `Undisturbed`: a name renamed or deleted by another process between listing and stat makes
    the enforcement raise (`soak_storage.py:1333`).

20. `StateLoads` with `RetainedCheckpoints = 2` and no kill: a checkpoint file comes before
    the summary that counts it (`converged_observer.py:475`); when the second write fails, or
    the observer dies between the two, the next checkpoint "Records exact retained-window
    watermarks" (`converged_observer_state.py:912`) of more files than it has seen, and
    `load_state`, which "Loads the cumulative state or creates the first"
    (`converged_observer.py:415`), raises over that summary for the rest of the campaign
    (`converged_observer_state.py:1509`).

Fixtures:

21. `OriginalDadRestored` with the constants of the run `fixtures`: the pool shall "restore
    the original setting on release" (`lan_ip_pool.py:103`), but takes an answer that does not
    parse for a 1 and restores that (`:116`).
22. `DadRestoredAfterAll`: the second of two overlapping pools saves the value the first one
    set and leaves DAD off (`lan_ip_pool.py:114`).
23. `DadRestoredAfterAll` with one pool and `Guarded = {}`: acquire raises after it switched DAD
    off, and the two-client script has no handle to release
    (`deterministic-two-client-transfer.py:2188`).
24. `SilentMeansGone` with "misreport": any failure whose text contains "not found" counts as
    absence (`docker_ed2k_source_publisher.py:172`).
25. `EachAttempted` with "slow": a removal that times out ends the cleanup before the removals
    after it (`:238`).
26. `CallbackCausal`: the child takes the next HELLO of any peer as the answer to its command
    (`:975`). The parent's join rejects it (`AcceptedCausal` holds).

Stress lane (`rest-cold-start-dump-stress.py`), each found by TLC with the bounds of the
`fixtures` run:

27. a run may pass with transfers left in the client: a post whose answer is lost is claimed
    and never recorded, and the cleanup, which "Deletes active stress searches/transfers"
    (`:2650`), knows recorded hashes only (`:1709`).
28. `PassedMeansGone` with `Window = 1`: when a DELETE raises, the cleanup's report has no
    counts and `stress_cleanup_is_complete` compares 0 with 0 (`:2844`); only the list of
    transfers is left to tell, and the code itself says that a large queue "can exceed the
    visible transfer-list window" (`:1847`).
29. "if the live network does not expose enough safe candidates, the lane returns
    inconclusive" (`src/README.md:349`): synthetic links count as completed triggers and not
    as requested ones, so a filled queue makes up for missing candidates (`:2465`).
30. "max active download cap reached" (`:1664`): tasks that read the cap together exceed it,
    by up to one for each other worker (`ActiveBounded` holds).

## 7. Plan

Done: every module of section 2. Left, in this order:

1. a writer that restarts under a new run id, and the tail of the active segment, in
   `DiagnosticEvidence`;
2. the JSON-lines writer of `soak_storage.py` in `ArtifactStore`;
3. the child's server session in the source publisher.

## 8. Not modelled

Comparison and report code, evidence registration, OpenAPI checks and release
manifests are data transformations without interleaving. The VM, package and scenario
scripts other than the stress lane are linear drivers of external tools. The VPN checks are reads of the operating
system whose verdict is an input here. The profile importers convert files in one
sequential pass. The C++ tests exercise code of another repository.

This is most of the repository by size: of its 170 thousand lines of implementation, the
files with state shared between processes, threads or crashes are about seventeen thousand,
and the modules stand for almost half of those; the rest of these files is validation,
formatting and parsing of what the models treat as data.
