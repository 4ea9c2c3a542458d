----------------------------- MODULE MCAttendants -----------------------------
(* The processes that attend a campaign beside the launcher, each explored on    *)
(* its own: the supervisor of a bounded process (BoundedProcess, extended so     *)
(* that the proofs' definitions are the ones that are checked), the observer     *)
(* (ObserverActions), the watcher (WatchFindings) and the store that all of them *)
(* write to (ArtifactStore).  A behaviour is about the part that scope names;    *)
(* the variables of the others keep a first value.  The observer and the watcher *)
(* are explored under two sets of faults, as the properties below say.           *)
EXTENDS BoundedProcess, TLC

CONSTANTS Target, Timeout, Interval, CheckpointThreshold, RetainedReports,
          RetainedCheckpoints, MaxActions, MaxSkips, MaxKills,       \* of the observer
          WatchThreshold, MaxStarts,            \* of the watcher
          Writers, Watcher,                     \* processes that share the store
          Old, Previous, MaxArtifacts, MaxTotal, DiskSize, MinimumFree, Foreign, Retained

VARIABLES scope,
  state, summary, file, temp, checkpointFiles, report, failures, point, at, crashes,
  reserved, posts, ambiguous, folded, uncounted, refused,
  run, up, ill, readable, heartbeat, turn, lastRead, sample, streaks, starts, row, lost,
  verdict,
  files, temps, owner, newest, horizon, foreign, pc, phase, listed, planned, failed,
  outcome, pruned

observerVars == <<state, summary, file, temp, checkpointFiles, report, failures, point, at,
                  crashes, reserved, posts, ambiguous, folded, uncounted, refused>>
watchVars == <<run, up, ill, readable, heartbeat, turn, lastRead, sample, streaks, starts,
               row, lost, verdict>>
storeVars == <<files, temps, owner, newest, horizon, foreign, pc, phase, listed, planned,
               failed, outcome, pruned>>
allVars == <<scope, vars, observerVars, watchVars, storeVars>>

\* An observer that may be killed between any two of its effects, once more than the next.
Killed == INSTANCE ObserverActions
  WITH Threshold <- CheckpointThreshold, Retained <- RetainedReports,
       Faults <- {"crash"}, MaxCrashes <- MaxKills + 1, pc <- point

\* An observer whose files may be torn or lost as well when it is killed.
Torn == INSTANCE ObserverActions
  WITH Threshold <- CheckpointThreshold, Retained <- RetainedReports,
       Faults <- {"crash", "torn", "lost"}, MaxCrashes <- MaxKills, pc <- point

\* A watcher that loses samples and store checks, but is not killed; it is started once more.
Steady == INSTANCE WatchFindings
  WITH Faults <- {"status", "storage"}, Threshold <- WatchThreshold,
       MaxStarts <- MaxStarts + 1, pc <- turn

\* A watcher under every fault.
Shaken == INSTANCE WatchFindings
  WITH Faults <- {"crash", "status", "storage", "persist"}, Threshold <- WatchThreshold,
       pc <- turn

Store == INSTANCE ArtifactStore

ASSUME PartsAssumption ==
  /\ Killed!ObserverAssumption /\ Torn!ObserverAssumption
  /\ Steady!WatchAssumption /\ Shaken!WatchAssumption /\ Store!StoreAssumption

ObserverScopes == {"killed", "torn"}
WatchScopes == {"steady", "shaken"}

AttendantsInit ==
  /\ scope \in {"process", "store"} \cup ObserverScopes \cup WatchScopes
  /\ Init /\ Killed!Init /\ Store!Init /\ Steady!Init

AttendantsNext ==
  \/ /\ scope = "process" /\ Next
     /\ UNCHANGED <<scope, observerVars, watchVars, storeVars>>
  \/ /\ scope = "killed" /\ Killed!Next
     /\ UNCHANGED <<scope, vars, watchVars, storeVars>>
  \/ /\ scope = "torn" /\ Torn!Next
     /\ UNCHANGED <<scope, vars, watchVars, storeVars>>
  \/ /\ scope = "steady" /\ Steady!Next
     /\ UNCHANGED <<scope, vars, observerVars, storeVars>>
  \/ /\ scope = "shaken" /\ Shaken!Next
     /\ UNCHANGED <<scope, vars, observerVars, storeVars>>
  \/ /\ scope = "store" /\ Store!Next
     /\ UNCHANGED <<scope, vars, observerVars, watchVars>>

AttendantsSpec == AttendantsInit /\ [][AttendantsNext]_allVars

\* Bounds: a slot that is skipped counts as one of the kills, and is left to the observer
\* whose files stay whole, as an unhealthy VPN guard is to the watcher that is not killed.
Bounded ==
  /\ scope = "killed" => state.connectivitySkips + crashes <= MaxKills + 1
  /\ scope = "torn" => state.connectivitySkips = 0
  /\ scope = "shaken" => "guard" \notin ill

WriterSymmetry == Permutations(Writers)

-------------------------------------------------------------------------------
\* What the observer keeps on disk is always usable and true: the cycles, reports and pending
\* action of the summary pass its own validation, an action interrupted between a create's
\* intent and its outcome counts neither as a success nor as a divergence, and, as long as no
\* file is torn or lost, the gate is the one that the reports on disk make, each counted once,
\* no client is asked twice to create the search of a cycle, and the next observer refuses
\* nothing an interrupted one left, the summary included, unless an attempt at a checkpoint
\* ended with one on disk that the state does not count (capture_checkpoint,
\* capture_action_cycle, finalize_pending_action, _fold_parity_gate).
ObserverSound ==
  /\ Killed!CountsValid /\ Killed!InterruptedNotCounted
  /\ scope \in ObserverScopes => Killed!TypeOK
  /\ scope = "killed" => /\ Killed!GateFromReports /\ Killed!AtMostOnePost
                         /\ Killed!SummaryValid /\ Killed!RecoversOwnFiles

\* A transient finding ends the watch only after Threshold consecutive samples of the
\* campaign that have it, also across watch commands that follow each other; one that is in
\* every sample ends it there, put off by at most one sample for each restart of the watcher
\* (restored_finding_streaks, terminal_watch_findings).
StreaksSound ==
  /\ scope \in WatchScopes => Steady!TypeOK
  /\ scope = "steady" => Steady!TransientTolerated
  /\ Shaken!PersistentStops

\* No enforcement of any process deletes an artifact of the active campaign, one that is
\* being written included, and a store over its aggregate limit does not go unnoticed: some
\* writer is between its write and the enforcement after it, or its call raised.
StoreSound ==
  /\ scope = "store" => Store!TypeOK
  /\ Store!ActiveKept /\ Store!OverLimitNoticed
===============================================================================
