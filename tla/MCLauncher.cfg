SPECIFICATION LauncherSpec
CONSTANTS
  Scopes = {"overlay", "capture", "archive", "manifest"}
  Profiles = {p1, p2}
  Bytes = {b1, b2}
  Overlay = Overlay
  Partial = Partial
  Absent = Absent
  NoProfile = NoProfile
  Faults = {"crash", "interrupt", "survive"}
  CaptureBytes = 6
  PipeCapacity = 3
  Triggers = {"rest", "ctrl-c"}
  SlowDrain = TRUE
  Files = {f1, f2}
  ArchiveFaults = {"crash", "torn"}
  MaxRuns = 3
  MaxCrashes = 2
  ManifestFaults = {"crash"}
  MaxCampaigns = 3
SYMMETRY FileSymmetry
INVARIANTS
  OriginalRecoverable
  RecoveryNeverStuck
  ClientUnderJournal
  LossRecorded
  ArchiveSound
  ManifestSound
CHECK_DEADLOCK FALSE
