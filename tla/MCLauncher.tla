------------------------------ MODULE MCLauncher ------------------------------
(* The parts of one launcher run, each explored on its own: the borrowed profile *)
(* (ProfileOverlay, extended so that the proofs' definitions are the ones that   *)
(* are checked), the daemon's output (DaemonCapture), the preparation            *)
(* (PreflightArchive) and the last-run manifest (RunManifest).  A behaviour is   *)
(* about the part that scope names; the variables of the others keep a first     *)
(* value.                                                                        *)
EXTENDS ProfileOverlay, TLC

CONSTANTS Scopes,                               \* parts a run is about
          CaptureBytes, PipeCapacity,           \* of the daemon's output
          Triggers, SlowDrain,
          Files, ArchiveFaults,                 \* of the preparation
          MaxRuns, MaxCrashes,
          ManifestFaults,                       \* of the last-run manifest
          MaxCampaigns                          \* of the last two

VARIABLES scope,
  daemon, sent, piped, chunk, logged, thread, failed, stopFile, trigger, status,
  outputError, main,
  source, segments, promoted, copy, partial, archived, campaign, todo, at, step, run,
  crashes, produced, rejected,
  last, previous, current, launcher, writing, truncated, observer, directories, readied,
  startRefused

captureVars == <<daemon, sent, piped, chunk, logged, thread, failed, stopFile, trigger,
                 status, outputError, main>>
archiveVars == <<source, segments, promoted, copy, partial, archived, campaign, todo, at,
                 step, run, crashes, produced, rejected>>
manifestVars == <<last, previous, current, launcher, writing, truncated, observer,
                  directories, readied, startRefused>>
allVars == <<scope, vars, captureVars, archiveVars, manifestVars>>

Capture == INSTANCE DaemonCapture
  WITH MaxBytes <- CaptureBytes

Archive == INSTANCE PreflightArchive
  WITH Faults <- ArchiveFaults, manifest <- archived, pc <- step, refused <- rejected

LastRun == INSTANCE RunManifest
  WITH Faults <- ManifestFaults, campaign <- current, payload <- writing

ASSUME PartsAssumption ==
  /\ Scopes \subseteq {"overlay", "capture", "archive", "manifest"}
  /\ Capture!CaptureAssumption /\ Archive!ArchiveAssumption
  /\ LastRun!RunManifestAssumption

\* The overlay's initial states are told apart only where the run is about them.
LauncherInit ==
  /\ scope \in Scopes /\ Init
  /\ scope # "overlay" => /\ \A p \in Profiles : target[p] = Absent
                          /\ prof = CHOOSE p \in Profiles : TRUE
  /\ Capture!Init /\ (scope # "capture" => trigger = "rest")
  /\ Archive!Init /\ LastRun!Init

LauncherNext ==
  \/ /\ scope = "overlay" /\ Next
     /\ UNCHANGED <<scope, captureVars, archiveVars, manifestVars>>
  \/ /\ scope = "capture" /\ Capture!Next
     /\ UNCHANGED <<scope, vars, archiveVars, manifestVars>>
  \/ /\ scope = "archive" /\ Archive!Next
     /\ UNCHANGED <<scope, vars, captureVars, manifestVars>>
  \/ /\ scope = "manifest" /\ LastRun!Next
     /\ UNCHANGED <<scope, vars, captureVars, archiveVars>>

LauncherSpec == LauncherInit /\ [][LauncherNext]_allVars

FileSymmetry == Permutations(Files)

-------------------------------------------------------------------------------
\* When a byte the daemon sent is not in its log, the finished run says so, however late the
\* sink failed and whoever stopped the daemon (AsyncBinaryCapture, launch-soak.py's teardown),
\* unless the launcher was interrupted before it had the daemon in hand.
LossRecorded == Capture!TypeOK /\ Capture!LossRecorded

\* No output of a client is lost: it is in the profile or complete in the archive of a
\* campaign, wherever preparations were cut off and repeated, and a recovery manifest that
\* says "copied" or "complete" has every entry in the archive (archive_preflight_outputs).
ArchiveSound == Archive!TypeOK /\ Archive!NoOutputLost /\ Archive!ManifestTruthful

\* An observer attaches only to a campaign whose clients were brought up, never on the
\* strength of what an earlier, crashed campaign left in the file (load_ready_manifest), and
\* whatever the manifest says of a campaign, it holds that campaign's preflight evidence
\* (mark_run_running, mark_run_finished).
ManifestSound == LastRun!TypeOK /\ LastRun!AttachedWhenReady /\ LastRun!EvidenceKept
===============================================================================
