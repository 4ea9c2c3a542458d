------------------------- MODULE ProfileOverlay_proofs -------------------------
(* Theorems about ProfileOverlay, for any set of profiles and contents, for    *)
(* launchers that die at any point, are interrupted in bring_up_mfc, or fail   *)
(* to end their client.                                                        *)
EXTENDS ProfileOverlay, TLAPS

(* A journal that is active still has what it takes to restore.               *)
JournalInv ==
  manifest.state = "active" =>
    /\ manifest.of \in Profiles
    /\ manifest.of \notin loose =>
         /\ manifest.sha = original[manifest.of]
         /\ \/ manifest.sha = Absent
            \/ backup = manifest.sha
            \/ backup = Absent /\ target[manifest.of] = manifest.sha

(* The points at which the launcher's profile has no client.                  *)
Quiet ==
  \/ pc \in {"recover", "begin", "backup", "activate", "configure"}
  \/ pc \in {"restore", "unlink", "close"} /\ then = "begin"

(* Where a client may be alive, and that its traces can be undone.            *)
ClientInv ==
  /\ client # NoProfile => manifest.state # "none" /\ manifest.of = client
  /\ client # NoProfile /\ client \notin loose
       => pc \in {"down", "recover", "ready", "running", "teardown"}
  /\ Quiet => client # prof
  /\ (client # NoProfile /\ client \notin loose) \/ pc \in {"configure", "ready", "running", "teardown"}
       => manifest.sha = Absent \/ backup = manifest.sha

(* What the launcher knows at each of its points.                             *)
LauncherInv ==
  /\ pc \in {"restore", "unlink", "close", "configure", "ready", "running", "teardown"}
       => Active(prof)
  /\ pc \in {"unlink", "close"} /\ prof \notin loose => target[prof] = original[prof]
  /\ pc \in {"begin", "backup", "activate"} =>
       manifest.state # "active" /\ (manifest.state # "none" => manifest.of = prof)
  /\ pc \in {"backup", "activate"} => payload = target[prof]
  /\ pc = "activate" /\ payload # Absent => backup = payload
  /\ refused = "backup" => pc = "down" /\ Active(prof)

Places == RecoveryNeverStuck /\ ClientUnderJournal /\ ClientInv /\ LauncherInv

OverlayInv == TypeOK /\ OriginalRecoverable /\ JournalInv /\ Places

LEMMA InitInv == Init => OverlayInv
<1> SUFFICES ASSUME Init PROVE OverlayInv OBVIOUS
<1> USE OverlayAssumption DEF Init, NoManifest, Original, Labels, Active
<1>1. TypeOK BY DEF TypeOK
<1>2. OriginalRecoverable BY DEF OriginalRecoverable
<1>3. RecoveryNeverStuck /\ ClientUnderJournal BY DEF RecoveryNeverStuck, ClientUnderJournal
<1>4. JournalInv /\ ClientInv /\ LauncherInv BY DEF JournalInv, ClientInv, Quiet, LauncherInv
<1> QED BY <1>1, <1>2, <1>3, <1>4 DEF OverlayInv, Places

(* A step that leaves the files alone leaves what they hold alone.            *)
LEMMA FilesKeep ==
  ASSUME OverlayInv, UNCHANGED <<target, original, backup, manifest, loose>>
  PROVE  OriginalRecoverable' /\ JournalInv'
BY DEF OverlayInv, OriginalRecoverable, JournalInv, Active

(* The launcher's steps between the file operations.                          *)
LEMMA BetweenKeeps ==
  ASSUME OverlayInv,
         \/ ClientExits \/ Launch \/ JournalAbsent \/ TargetMismatch \/ RecoverActive
         \/ WriteRaises \/ BringUpRaises \/ ClientReady \/ BringUpEnds \/ LeaveMainLoop
         \/ Crash
  PROVE  OverlayInv'
<1> USE OverlayAssumption DEF OverlayInv, Places
<1> USE DEF disk, Closed, Raise
<1>1. UNCHANGED <<target, original, backup, manifest, loose>>
  BY DEF ClientExits, Launch, JournalAbsent, TargetMismatch, RecoverActive, WriteRaises,
     BringUpRaises, ClientReady, BringUpEnds, LeaveMainLoop, Crash
<1>2. OriginalRecoverable' /\ JournalInv' BY <1>1, FilesKeep
<1>t. /\ client' \in {client, NoProfile} /\ prof' \in Profiles /\ prof \in Profiles
      /\ handle' \in BOOLEAN /\ then' \in {then, "begin"} /\ payload' = payload
      /\ refused' \in {refused, "no", "mismatch"}
      /\ pc' \in Labels
  BY DEF TypeOK, Labels, ClientExits, Launch, JournalAbsent, TargetMismatch, RecoverActive,
     WriteRaises, BringUpRaises, ClientReady, BringUpEnds, LeaveMainLoop, Crash
<1>3. TypeOK' BY <1>1, <1>t DEF TypeOK
<1> HIDE DEF disk, Closed, Raise
<1>4. Places'
  <2> USE <1>1, <1>t
      DEF RecoveryNeverStuck, ClientUnderJournal, ClientInv, Quiet, LauncherInv, Active, disk
  <2>1. CASE ClientExits
    <3>1. /\ client' = NoProfile
          /\ UNCHANGED <<target, original, backup, manifest, prof, payload, handle, then, refused,
                         loose, pc>>
      BY <2>1 DEF ClientExits
    <3>2. ClientInv' BY <3>1
    <3>3. RecoveryNeverStuck' /\ ClientUnderJournal' BY <3>1
    <3>4. LauncherInv' BY <3>1
    <3> QED BY <3>2, <3>3, <3>4
  <2>2. CASE Launch BY <2>2 DEF Launch
  <2>3. CASE JournalAbsent BY <2>3 DEF JournalAbsent
  <2>4. CASE TargetMismatch BY <2>4 DEF TargetMismatch, Raise
  <2>5. CASE RecoverActive BY <2>5 DEF RecoverActive
  <2>6. CASE WriteRaises BY <2>6 DEF WriteRaises
  <2>7. CASE BringUpRaises BY <2>7 DEF BringUpRaises
  <2>8. CASE ClientReady BY <2>8 DEF ClientReady
  <2>9. CASE BringUpEnds
    <3>1. /\ pc = "ready" /\ pc' = "teardown"
          /\ UNCHANGED <<target, original, backup, manifest, prof, payload, handle, then, refused,
                         loose>>
      BY <2>9 DEF BringUpEnds
    <3>2. ClientInv' BY <3>1
    <3>3. RecoveryNeverStuck' /\ ClientUnderJournal' BY <3>1
    <3>4. LauncherInv' BY <3>1
    <3> QED BY <3>2, <3>3, <3>4
  <2>10. CASE LeaveMainLoop BY <2>10 DEF LeaveMainLoop
  <2>11. CASE Crash BY <2>11 DEF Crash
  <2> QED BY <2>1, <2>2, <2>3, <2>4, <2>5, <2>6, <2>7, <2>8, <2>9, <2>10, <2>11
<1> QED BY <1>2, <1>3, <1>4

(* The operator and the client.                                               *)
LEMMA WorldKeeps ==
  ASSUME OverlayInv, OperatorEdits \/ ClientSaves
  PROVE  OverlayInv'
<1> USE OverlayAssumption DEF OverlayInv, Places, Active, Original
<1>1. CASE OperatorEdits
  <2>1. PICK p \in Profiles, content \in Original :
          /\ client # p /\ ~Active(p)
          /\ target' = [target EXCEPT ![p] = content]
          /\ original' = [original EXCEPT ![p] = content]
          /\ loose' = loose \ {p}
    BY <1>1 DEF OperatorEdits
  <2>2. /\ pc = "down"
        /\ UNCHANGED <<backup, manifest, client, prof, payload, handle, then, refused, pc>>
    BY <1>1 DEF OperatorEdits
  <2>3. TypeOK' BY <2>1, <2>2 DEF TypeOK
  <2>4. /\ target'[p] = original'[p]
        /\ \A q \in Profiles \ {p} : target'[q] = target[q] /\ original'[q] = original[q]
    BY <2>1 DEF TypeOK
  <2>5. OriginalRecoverable' BY <2>1, <2>2, <2>4 DEF OriginalRecoverable
  <2>6. JournalInv' BY <2>1, <2>2, <2>4 DEF JournalInv
  <2>7. Places'
    BY <2>1, <2>2 DEF RecoveryNeverStuck, ClientUnderJournal, ClientInv, Quiet, LauncherInv
  <2> QED BY <2>3, <2>5, <2>6, <2>7
<1>2. CASE ClientSaves
  <2>1. /\ client \in Profiles /\ target' = [target EXCEPT ![client] = Overlay]
        /\ UNCHANGED <<original, backup, manifest, client, prof, payload, handle, then, refused,
                       loose, pc>>
    BY <1>2 DEF ClientSaves, TypeOK
  <2>2. \A q \in Profiles \ {client} : target'[q] = target[q]
    BY <2>1 DEF TypeOK
  <2>3. client \notin loose =>
          /\ Active(client) /\ pc \notin {"unlink", "close", "backup", "activate"}
          /\ manifest.sha = original[client]
          /\ manifest.sha = Absent \/ backup = manifest.sha
    <3> SUFFICES ASSUME client \notin loose
                 PROVE  /\ Active(client) /\ pc \notin {"unlink", "close", "backup", "activate"}
                        /\ manifest.sha = original[client]
                        /\ manifest.sha = Absent \/ backup = manifest.sha
      OBVIOUS
    <3>1. Active(client) /\ client # NoProfile BY <2>1 DEF ClientUnderJournal
    <3>2. pc \in {"down", "recover", "ready", "running", "teardown"} BY <3>1 DEF ClientInv
    <3>3. manifest.sha = Absent \/ backup = manifest.sha BY <3>1 DEF ClientInv
    <3>4. manifest.sha = original[client] BY <3>1 DEF JournalInv
    <3> QED BY <3>1, <3>2, <3>3, <3>4
  <2>4. TypeOK' BY <2>1 DEF TypeOK
  <2>5. OriginalRecoverable' BY <2>1, <2>2, <2>3 DEF OriginalRecoverable
  <2>6. JournalInv' BY <2>1, <2>2, <2>3 DEF JournalInv
  <2>7. Places'
    <3>1. pc \in {"unlink", "close"} /\ prof \notin loose => target'[prof] = original[prof]
      BY <2>1, <2>2, <2>3 DEF LauncherInv, TypeOK
    <3>2. pc \in {"backup", "activate"} => target'[prof] = target[prof]
      BY <2>1, <2>2 DEF ClientInv, Quiet, TypeOK
    <3> QED
      BY <2>1, <3>1, <3>2
         DEF RecoveryNeverStuck, ClientUnderJournal, ClientInv, Quiet, LauncherInv
  <2> QED BY <2>4, <2>5, <2>6, <2>7
<1> QED BY <1>1, <1>2

(* Recovery and restore.                                                      *)
LEMMA RestoreKeeps ==
  ASSUME OverlayInv, AlreadyRestored \/ Restore \/ UnlinkBackup \/ CloseJournal
  PROVE  OverlayInv'
<1> USE OverlayAssumption DEF OverlayInv, Places
<1>1. CASE AlreadyRestored
  <2>1. TypeOK' BY <1>1 DEF AlreadyRestored, TypeOK, Original, Labels
  <2>2. OriginalRecoverable' /\ JournalInv'
    BY <1>1 DEF AlreadyRestored, OriginalRecoverable, JournalInv, Active
  <2>3. Places'
    BY <1>1 DEF AlreadyRestored, TypeOK, RecoveryNeverStuck, ClientUnderJournal, ClientInv, Quiet,
       LauncherInv, Active
  <2> QED BY <2>1, <2>2, <2>3
<1>2. CASE Restore
  <2>1. Active(prof) /\ prof \in Profiles /\ pc = "restore"
    BY <1>2 DEF Restore, LauncherInv, TypeOK
  <2>2. CASE Restorable
    <3>1. /\ target' = [target EXCEPT ![prof] = manifest.sha] /\ pc' = "unlink"
          /\ UNCHANGED <<original, backup, manifest, client, prof, payload, handle, then, refused,
                         loose>>
      BY <1>2, <2>2 DEF Restore
    <3>2. target'[prof] = manifest.sha /\ \A q \in Profiles \ {prof} : target'[q] = target[q]
      BY <2>1, <3>1 DEF TypeOK
    <3>3. prof \notin loose => manifest.sha = original[prof]
      BY <2>1 DEF JournalInv, Active
    <3>4. TypeOK' BY <3>1 DEF TypeOK, Labels
    <3>5. OriginalRecoverable' BY <2>1, <3>1, <3>2, <3>3 DEF OriginalRecoverable, Active
    <3>6. JournalInv' BY <2>1, <3>1, <3>2 DEF JournalInv, Active
    <3>7. Places'
      BY <2>1, <3>1, <3>2, <3>3 DEF RecoveryNeverStuck, ClientUnderJournal, ClientInv, Quiet,
         LauncherInv, Active
    <3> QED BY <3>4, <3>5, <3>6, <3>7
  <2>3. CASE ~Restorable
    <3>1. /\ refused' = "backup" /\ pc' = "down"
          /\ UNCHANGED <<target, original, backup, manifest, client, prof, payload, handle, then,
                         loose>>
      BY <1>2, <2>3 DEF Restore, Raise, disk
    <3>2. prof \in loose
      BY <2>1, <2>3 DEF JournalInv, Active, Restorable
    <3>3. OriginalRecoverable' /\ JournalInv' BY <3>1, FilesKeep
    <3>4. TypeOK' BY <3>1 DEF TypeOK, Labels
    <3>5. Places'
      BY <2>1, <3>1, <3>2 DEF RecoveryNeverStuck, ClientUnderJournal, ClientInv, Quiet,
         LauncherInv, Active
    <3> QED BY <3>3, <3>4, <3>5
  <2> QED BY <2>2, <2>3
<1>3. CASE UnlinkBackup
  <2>1. /\ backup' = Absent /\ pc = "unlink" /\ pc' = "close"
        /\ UNCHANGED <<target, original, manifest, client, prof, payload, handle, then, refused,
                       loose>>
    BY <1>3 DEF UnlinkBackup
  <2>2. Active(prof) /\ prof \in Profiles BY <2>1 DEF LauncherInv, TypeOK
  <2>3. prof \notin loose => target[prof] = original[prof] /\ manifest.sha = original[prof]
    BY <2>1, <2>2 DEF LauncherInv, JournalInv, Active
  <2>4. TypeOK' BY <2>1 DEF TypeOK, Original, Labels
  <2>5. OriginalRecoverable' BY <2>1, <2>2, <2>3 DEF OriginalRecoverable, Active
  <2>6. JournalInv' BY <2>1, <2>2, <2>3 DEF JournalInv, Active
  <2>7. Places'
    BY <2>1, <2>2 DEF RecoveryNeverStuck, ClientUnderJournal, ClientInv, Quiet, LauncherInv,
       Active
  <2> QED BY <2>4, <2>5, <2>6, <2>7
<1>4. CASE CloseJournal
  <2>1. /\ manifest' = [manifest EXCEPT !.state = "restored"] /\ pc = "close" /\ pc' = then
        /\ UNCHANGED <<target, original, backup, client, prof, payload, handle, then, refused,
                       loose>>
    BY <1>4 DEF CloseJournal
  <2>2. Active(prof) /\ prof \in Profiles BY <2>1 DEF LauncherInv, TypeOK
  <2>3. manifest'.state = "restored" /\ manifest'.of = prof
    BY <2>1, <2>2 DEF TypeOK, Active
  <2>4. TypeOK' BY <2>1 DEF TypeOK, Original, Labels
  <2>5. OriginalRecoverable'
    BY <2>1, <2>2, <2>3 DEF OriginalRecoverable, Active, LauncherInv
  <2>6. JournalInv' BY <2>3 DEF JournalInv
  <2>7. then \in {"down", "begin"} /\ (client # NoProfile => client = prof /\ client \in loose)
    BY <2>1, <2>2 DEF TypeOK, ClientInv, Active
  <2>8. Places'
    BY <2>1, <2>2, <2>3, <2>7 DEF RecoveryNeverStuck, ClientUnderJournal, ClientInv, Quiet,
       LauncherInv, Active
  <2> QED BY <2>4, <2>5, <2>6, <2>8
<1> QED BY <1>1, <1>2, <1>3, <1>4

(* Snapshot.                                                                  *)
LEMMA BeginKeeps ==
  ASSUME OverlayInv, OpenBackup \/ WriteBackup \/ ActivateJournal
  PROVE  OverlayInv'
<1> USE OverlayAssumption DEF OverlayInv, Places
<1>1. /\ manifest.state # "active" /\ prof \in Profiles /\ client = NoProfile
      /\ prof \notin loose => target[prof] = original[prof]
  BY DEF OpenBackup, WriteBackup, ActivateJournal, LauncherInv, TypeOK, ClientInv, Quiet,
     OriginalRecoverable, Active
<1>2. CASE OpenBackup
  <2>1. /\ pc = "begin" /\ payload' = target[prof] /\ backup' \in {Absent, Partial}
        /\ pc' = IF target[prof] = Absent THEN "activate" ELSE "backup"
        /\ UNCHANGED <<target, original, manifest, client, prof, handle, then, refused, loose>>
    BY <1>1, <1>2 DEF OpenBackup
  <2>2. TypeOK' BY <1>1, <2>1 DEF TypeOK, Original, Labels
  <2>3. OriginalRecoverable' /\ JournalInv'
    BY <1>1, <2>1 DEF OriginalRecoverable, JournalInv, Active
  <2>4. Places'
    BY <1>1, <2>1 DEF RecoveryNeverStuck, ClientUnderJournal, ClientInv, Quiet, LauncherInv, Active
  <2> QED BY <2>2, <2>3, <2>4
<1>3. CASE WriteBackup
  <2>1. /\ pc = "backup" /\ backup' = payload /\ pc' = "activate"
        /\ UNCHANGED <<target, original, manifest, client, prof, payload, handle, then, refused,
                       loose>>
    BY <1>3 DEF WriteBackup
  <2>2. TypeOK' BY <1>1, <2>1 DEF TypeOK, Original, Labels
  <2>3. OriginalRecoverable' /\ JournalInv'
    BY <1>1, <2>1 DEF OriginalRecoverable, JournalInv, Active
  <2>4. Places'
    BY <1>1, <2>1 DEF RecoveryNeverStuck, ClientUnderJournal, ClientInv, Quiet, LauncherInv, Active
  <2> QED BY <2>2, <2>3, <2>4
<1>4. CASE ActivateJournal
  <2>1. /\ manifest' = [state |-> "active", of |-> prof, sha |-> payload]
        /\ pc = "activate" /\ pc' = "configure"
        /\ UNCHANGED <<target, original, backup, client, prof, payload, handle, then, refused,
                       loose>>
    BY <1>4 DEF ActivateJournal
  <2>2. /\ manifest'.state = "active" /\ manifest'.of = prof /\ manifest'.sha = payload
        /\ payload = target[prof] /\ (payload # Absent => backup = payload)
    BY <2>1 DEF LauncherInv
  <2>3. TypeOK' BY <1>1, <2>1 DEF TypeOK, Original, Labels
  <2>4. OriginalRecoverable' BY <1>1, <2>1, <2>2 DEF OriginalRecoverable, Active
  <2>5. JournalInv' BY <1>1, <2>1, <2>2 DEF JournalInv
  <2>6. Places'
    BY <1>1, <2>1, <2>2 DEF RecoveryNeverStuck, ClientUnderJournal, ClientInv, Quiet, LauncherInv,
       Active
  <2> QED BY <2>3, <2>4, <2>5, <2>6
<1> QED BY <1>2, <1>3, <1>4

(* The harness writes the preferences; the teardown, with the client's last    *)
(* save.                                                                      *)
LEMMA RunKeeps ==
  ASSUME OverlayInv, ConfigureAndLaunch \/ Teardown
  PROVE  OverlayInv'
<1> USE OverlayAssumption DEF OverlayInv, Places
<1>1. /\ Active(prof) /\ prof \in Profiles /\ (client # NoProfile => client = prof)
      /\ manifest.sha = Absent \/ backup = manifest.sha
      /\ prof \notin loose => manifest.sha = original[prof]
  <2>1. pc \in {"configure", "teardown"} BY DEF ConfigureAndLaunch, Teardown
  <2>2. Active(prof) /\ prof \in Profiles BY <2>1 DEF LauncherInv, TypeOK
  <2>3. client # NoProfile => client = prof BY <2>2 DEF ClientInv, Active
  <2>4. manifest.sha = Absent \/ backup = manifest.sha BY <2>1 DEF ClientInv
  <2>5. prof \notin loose => manifest.sha = original[prof] BY <2>2 DEF JournalInv, Active
  <2> QED BY <2>2, <2>3, <2>4, <2>5
<1>2. /\ target' \in {target, [target EXCEPT ![prof] = Overlay]}
      /\ UNCHANGED <<original, backup, manifest, prof, payload, handle, refused>>
      /\ loose \subseteq loose'
  BY DEF ConfigureAndLaunch, Teardown
<1>3. /\ \A q \in Profiles \ {prof} : target'[q] = target[q]
      /\ target' \in [Profiles -> Original \cup {Overlay}]
  BY <1>2 DEF TypeOK
<1>4. OriginalRecoverable' BY <1>1, <1>2, <1>3 DEF OriginalRecoverable, Active
<1>5. JournalInv' BY <1>1, <1>2, <1>3 DEF JournalInv, Active
<1>6. CASE ConfigureAndLaunch
  <2>1. TypeOK' BY <1>3, <1>6 DEF ConfigureAndLaunch, TypeOK, Labels
  <2>2. Places'
    BY <1>1, <1>6 DEF ConfigureAndLaunch, RecoveryNeverStuck, ClientUnderJournal, ClientInv, Quiet,
       LauncherInv, Active
  <2> QED BY <1>4, <1>5, <2>1, <2>2
<1>7. CASE Teardown
  <2>1. /\ pc = "teardown" /\ client' \in {NoProfile, client}
        /\ loose' = loose \cup ({client'} \ {NoProfile})
        /\ then' = "down" /\ pc' = "restore"
    BY <1>7 DEF Teardown, Closed
  <2>2. TypeOK' BY <1>1, <1>2, <1>3, <2>1 DEF TypeOK, Labels
  <2>3. Places'
    BY <1>1, <1>2, <2>1 DEF RecoveryNeverStuck, ClientUnderJournal, ClientInv, Quiet, LauncherInv,
       Active
  <2> QED BY <1>4, <1>5, <2>2, <2>3
<1> QED BY <1>6, <1>7

LEMMA NextKeeps == ASSUME OverlayInv, [Next]_vars PROVE OverlayInv'
<1>1. CASE UNCHANGED vars
  BY <1>1 DEF vars, disk, OverlayInv, Places, TypeOK, Active, OriginalRecoverable,
     RecoveryNeverStuck, ClientUnderJournal, JournalInv, ClientInv, Quiet, LauncherInv
<1> QED BY <1>1, BetweenKeeps, WorldKeeps, RestoreKeeps, BeginKeeps, RunKeeps DEF Next

LEMMA OverlayInvariant == Spec => []OverlayInv
<1>1. OverlayInv /\ [Next]_vars => OverlayInv' BY NextKeeps
<1> QED BY <1>1, InitInv, PTL DEF Spec

(* Every reachable state is well typed: the journal records whole files only,  *)
(* never a backup that was cut off half-way.                                   *)
THEOREM TypeCorrect == Spec => []TypeOK
<1>1. OverlayInv => TypeOK BY DEF OverlayInv
<1> QED BY <1>1, OverlayInvariant, PTL

(* The operator's preferences.ini can be rebuilt from the disk at every        *)
(* moment, unless the launcher restored it under a client it had failed to     *)
(* end (begin_file_overlay, FileOverlay.restore).                              *)
THEOREM ProfileRecoverable == Spec => []OriginalRecoverable
<1>1. OverlayInv => OriginalRecoverable BY DEF OverlayInv
<1> QED BY <1>1, OverlayInvariant, PTL

(* Recovery succeeds wherever an earlier launcher was cut off, with the same   *)
(* exception (recover_file_overlay).                                           *)
THEOREM RecoverySucceeds == Spec => []RecoveryNeverStuck
<1>1. OverlayInv => RecoveryNeverStuck BY DEF OverlayInv, Places
<1> QED BY <1>1, OverlayInvariant, PTL

(* A client without an active journal is one that the launcher failed to end,  *)
(* and no profile is recovered or snapshotted under a living client            *)
(* (graceful_teardown, prepare_clean_run).                                     *)
THEOREM ClientsJournaled == Spec => []ClientUnderJournal
<1>1. OverlayInv => ClientUnderJournal BY DEF OverlayInv, Places
<1> QED BY <1>1, OverlayInvariant, PTL
================================================================================
