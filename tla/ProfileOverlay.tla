----------------------------- MODULE ProfileOverlay -----------------------------
(* The operator's MFC profile while the soak launcher borrows it:              *)
(* profile_overlay.py with the part of launch-soak.py and soak_launch.py that  *)
(* calls it.  The launcher recovers what an earlier launcher left behind,      *)
(* snapshots preferences.ini into a journal, lets the harness and the client   *)
(* rewrite the file, and puts the operator's bytes back at the end.  It may    *)
(* die between any two file operations; the client outlives it.  It may also   *)
(* fail to end its client and restore all the same: loose names the profiles   *)
(* on which that happened.                                                     *)
(*                                                                             *)
(* A file is its content.  A digest stands for the content it was taken from.  *)
EXTENDS Naturals

CONSTANTS Profiles,     \* profiles the live-wire inputs may name
          Bytes,        \* contents the operator may give preferences.ini
          Overlay,      \* content written by the harness or by its client
          Partial,      \* a file truncated by a write that did not finish
          Absent,       \* no file
          NoProfile,
          Faults        \* subset of {"crash", "interrupt", "survive"}

ASSUME OverlayAssumption ==
  /\ Overlay \notin Bytes /\ Partial \notin Bytes /\ Absent \notin Bytes
  /\ Overlay # Partial /\ Overlay # Absent /\ Partial # Absent
  /\ NoProfile \notin Profiles
  /\ Faults \subseteq {"crash", "interrupt", "survive"}

VARIABLES target,     \* preferences.ini of each profile
          original,   \* history: what the operator last left there
          backup,     \* original.bin of the journal
          manifest,   \* manifest.json of the journal
          client,     \* the profile on which an MFC client runs
          prof,       \* the launcher's profile
          payload,    \* bytes read by begin_file_overlay
          handle,     \* did bring_up_mfc return the client to the launcher?
          then,       \* where restore returns to
          refused,    \* why the last launcher's restore or recovery raised
          loose,      \* history: profiles restored under a living client, which
                      \* their operator has not put right since
          pc

disk == <<target, original, backup, manifest, client>>
vars == <<disk, prof, payload, handle, then, refused, loose, pc>>

Original == Bytes \cup {Absent}
NoManifest == [state |-> "none", of |-> NoProfile, sha |-> Absent]

Active(p) == manifest.state = "active" /\ manifest.of = p

-------------------------------------------------------------------------------
(* External: the operator edits the profile she gets back; the client saves    *)
(* its preferences whenever it likes, and may be closed by hand.               *)

OperatorEdits ==
  /\ pc = "down"
  /\ \E p \in Profiles, content \in Original :
       /\ client # p /\ ~Active(p)
       /\ target' = [target EXCEPT ![p] = content]
       /\ original' = [original EXCEPT ![p] = content]
       /\ loose' = loose \ {p}
  /\ UNCHANGED <<backup, manifest, client, prof, payload, handle, then, refused, pc>>

ClientSaves ==
  /\ client # NoProfile
  /\ target' = [target EXCEPT ![client] = Overlay]
  /\ UNCHANGED <<original, backup, manifest, client, prof, payload, handle, then, refused,
                 loose, pc>>

ClientExits ==
  /\ client # NoProfile
  /\ client' = NoProfile
  /\ UNCHANGED <<target, original, backup, manifest, prof, payload, handle, then, refused,
                 loose, pc>>

-------------------------------------------------------------------------------
(* main up to recover_file_overlay.  prepare_clean_run stops the client that   *)
(* an earlier launcher left on the profile now chosen, and no other; if it     *)
(* remains, the launcher ends before it looks at the overlay.                  *)

Launch ==
  /\ pc = "down"
  /\ \E p \in Profiles : /\ prof' = p
                         /\ client' = IF client = p THEN NoProfile ELSE client
  /\ handle' = FALSE /\ refused' = "no" /\ pc' = "recover"
  /\ UNCHANGED <<target, original, backup, manifest, payload, then, loose>>

Raise(why) ==
  /\ refused' = why /\ pc' = "down"
  /\ UNCHANGED <<disk, prof, payload, handle, then, loose>>

JournalAbsent ==
  /\ pc = "recover" /\ manifest.state = "none"
  /\ pc' = "begin"
  /\ UNCHANGED <<disk, prof, payload, handle, then, refused, loose>>

(* restore compares the journal's target with its own before it looks at the   *)
(* journal's state.                                                            *)
TargetMismatch ==
  /\ pc = "recover" /\ manifest.state # "none" /\ manifest.of # prof
  /\ Raise("mismatch")

AlreadyRestored ==
  /\ pc = "recover" /\ manifest.state = "restored" /\ manifest.of = prof
  /\ backup' = Absent /\ pc' = "begin"
  /\ UNCHANGED <<target, original, manifest, client, prof, payload, handle, then, refused, loose>>

RecoverActive ==
  /\ pc = "recover" /\ Active(prof)
  /\ then' = "begin" /\ pc' = "restore"
  /\ UNCHANGED <<disk, prof, payload, handle, refused, loose>>

-------------------------------------------------------------------------------
(* FileOverlay.restore of an active journal: the target, then the backup, then *)
(* the manifest.                                                               *)

Restorable ==
  \/ manifest.sha = Absent
  \/ backup = manifest.sha
  \/ backup = Absent /\ target[prof] = manifest.sha

Restore ==
  /\ pc = "restore"
  /\ IF Restorable
     THEN /\ target' = [target EXCEPT ![prof] = manifest.sha]
          /\ pc' = "unlink"
          /\ UNCHANGED <<original, backup, manifest, client, prof, payload, handle, then,
                         refused, loose>>
     ELSE Raise("backup")

UnlinkBackup ==
  /\ pc = "unlink"
  /\ backup' = Absent /\ pc' = "close"
  /\ UNCHANGED <<target, original, manifest, client, prof, payload, handle, then, refused, loose>>

CloseJournal ==
  /\ pc = "close"
  /\ manifest' = [manifest EXCEPT !.state = "restored"]
  /\ pc' = then
  /\ UNCHANGED <<target, original, backup, client, prof, payload, handle, then, refused, loose>>

-------------------------------------------------------------------------------
(* begin_file_overlay: the backup is written in place, the manifest is         *)
(* replaced.                                                                   *)

ActivateFirst ==
  /\ pc = "begin"
  /\ payload' = target[prof]
  /\ manifest' = [state |-> "active", of |-> prof, sha |-> target[prof]]
  /\ backup' = IF target[prof] = Absent THEN Absent ELSE Partial
  /\ pc' = IF target[prof] = Absent THEN "activate" ELSE "backup"
  /\ UNCHANGED <<target, original, client, prof, handle, then, refused, loose>>

OpenBackup ==
  /\ pc = "begin"
  /\ IF manifest.state = "active" THEN Raise("active")
     ELSE /\ payload' = target[prof]
          /\ backup' = IF target[prof] = Absent THEN Absent ELSE Partial
          /\ pc' = IF target[prof] = Absent THEN "activate" ELSE "backup"
          /\ UNCHANGED <<target, original, manifest, client, prof, handle, then, refused, loose>>

WriteBackup ==
  /\ pc = "backup"
  /\ backup' = payload /\ pc' = "activate"
  /\ UNCHANGED <<target, original, manifest, client, prof, payload, handle, then, refused, loose>>

WriteErrorIgnored ==
  /\ pc \in {"backup", "activate"}
  /\ pc' = "activate"
  /\ UNCHANGED <<disk, prof, payload, handle, then, refused, loose>>

(* The write raises: main goes to its teardown without an overlay to restore.  *)
WriteRaises ==
  /\ pc \in {"backup", "activate"}
  /\ pc' = "down"
  /\ UNCHANGED <<disk, prof, payload, handle, then, refused, loose>>

ActivateJournal ==
  /\ pc = "activate"
  /\ manifest' = [state |-> "active", of |-> prof, sha |-> payload]
  /\ pc' = "configure"
  /\ UNCHANGED <<target, original, backup, client, prof, payload, handle, then, refused, loose>>

-------------------------------------------------------------------------------
(* bring_up_mfc, the main loop and the teardown.                               *)

(* Anything before the preferences are written raises, a profile without       *)
(* preferences.ini included.                                                   *)
BringUpRaises ==
  /\ pc = "configure"
  /\ pc' = "teardown"
  /\ UNCHANGED <<disk, prof, payload, handle, then, refused, loose>>

ConfigureAndLaunch ==
  /\ pc = "configure" /\ target[prof] # Absent
  /\ target' = [target EXCEPT ![prof] = Overlay]
  /\ client' = prof /\ pc' = "ready"
  /\ UNCHANGED <<original, backup, manifest, prof, payload, handle, then, refused, loose>>

ClientReady ==
  /\ pc = "ready"
  /\ handle' = TRUE /\ pc' = "running"
  /\ UNCHANGED <<disk, prof, payload, then, refused, loose>>

(* close_app_cleanly, then kill: the failures of both are swallowed, and the   *)
(* client lives on.                                                            *)
Closed == {NoProfile} \cup (IF "survive" \in Faults THEN {client} ELSE {})

(* An Exception closes the client.  KeyboardInterrupt is no Exception:         *)
(* bring_up_mfc does not close the client and main never learns of it.         *)
BringUpEnds ==
  /\ pc = "ready"
  /\ client' \in Closed \cup (IF "interrupt" \in Faults THEN {client} ELSE {})
  /\ pc' = "teardown"
  /\ UNCHANGED <<target, original, backup, manifest, prof, payload, handle, then, refused, loose>>

LeaveMainLoop ==
  /\ pc = "running"
  /\ pc' = "teardown"
  /\ UNCHANGED <<disk, prof, payload, handle, then, refused, loose>>

RestoreBeforeClose ==
  /\ pc = "teardown"
  /\ then' = "down" /\ pc' = "restore"
  /\ UNCHANGED <<disk, prof, payload, handle, refused, loose>>

(* graceful_teardown closes the client it has a handle of, which saves its     *)
(* preferences on the way out; then the overlay is restored, whatever became   *)
(* of the client.                                                              *)
Teardown ==
  /\ pc = "teardown"
  /\ client' \in IF handle THEN Closed ELSE {client}
  /\ loose' = loose \cup ({client'} \ {NoProfile})
  /\ target' \in IF handle /\ client # NoProfile
                THEN {target, [target EXCEPT ![prof] = Overlay]} ELSE {target}
  /\ then' = "down" /\ pc' = "restore"
  /\ UNCHANGED <<original, backup, manifest, prof, payload, handle, refused>>

Crash ==
  /\ "crash" \in Faults /\ pc # "down"
  /\ pc' = "down"
  /\ UNCHANGED <<disk, prof, payload, handle, then, refused, loose>>

-------------------------------------------------------------------------------
Init ==
  /\ target \in [Profiles -> Original] /\ original = target
  /\ backup = Absent /\ manifest = NoManifest /\ client = NoProfile
  /\ prof \in Profiles /\ payload = Absent /\ handle = FALSE
  /\ then = "down" /\ refused = "no" /\ loose = {} /\ pc = "down"

Next ==
  \/ OperatorEdits \/ ClientSaves \/ ClientExits \/ Launch
  \/ JournalAbsent \/ TargetMismatch \/ AlreadyRestored \/ RecoverActive
  \/ Restore \/ UnlinkBackup \/ CloseJournal
  \/ OpenBackup \/ WriteBackup \/ WriteRaises \/ ActivateJournal
  \/ BringUpRaises \/ ConfigureAndLaunch \/ ClientReady \/ BringUpEnds
  \/ LeaveMainLoop \/ Teardown \/ Crash

Spec == Init /\ [][Next]_vars

-------------------------------------------------------------------------------
Labels == {"down", "recover", "restore", "unlink", "close", "begin", "backup",
           "activate", "configure", "ready", "running", "teardown"}

(* Types: whatever the launcher takes a snapshot of is a whole file.           *)
TypeOK ==
  /\ target \in [Profiles -> Original \cup {Overlay}]
  /\ original \in [Profiles -> Original]
  /\ backup \in Original \cup {Overlay, Partial}
  /\ manifest \in [state : {"none", "active", "restored"},
                   of : Profiles \cup {NoProfile}, sha : Original \cup {Overlay}]
  /\ client \in Profiles \cup {NoProfile} /\ prof \in Profiles
  /\ payload \in Original \cup {Overlay} /\ handle \in BOOLEAN
  /\ then \in {"down", "begin"} /\ refused \in {"no", "mismatch", "backup", "active"}
  /\ loose \subseteq Profiles
  /\ pc \in Labels

(* The operator's bytes are never lost (profile_overlay.py, "Durable           *)
(* exact-file overlays for operator-owned live profiles"): a profile either    *)
(* holds them or is the target of an active journal from which restore can     *)
(* rebuild them, whenever the launcher dies and whatever the client writes.    *)
(* Only a profile restored under a living client is out of the journal's       *)
(* reach (PreferencesRestored below).                                          *)
OriginalRecoverable ==
  \A p \in Profiles \ loose :
    \/ target[p] = original[p]
    \/ /\ Active(p) /\ manifest.sha = original[p]
       /\ original[p] # Absent => backup = original[p]

(* Every point at which an earlier launcher or an earlier restore was cut off  *)
(* can be recovered from: begin_file_overlay never meets a journal that is     *)
(* still active, and restore raises for the state of the backup only if a      *)
(* client that outlived the launcher's attempt to end it has saved over the    *)
(* restored file.                                                              *)
RecoveryNeverStuck ==
  /\ refused # "active"
  /\ refused = "backup" => prof \in loose

(* A client runs on a profile only while the journal of that profile is        *)
(* active, so that whatever it saves at its own exit is undone by the restore  *)
(* or by the next launcher's recovery; the only exception is a client that the *)
(* launcher failed to end.  And even that one has gone when a later launcher   *)
(* recovers or takes a snapshot of the profile.                                *)
ClientUnderJournal ==
  /\ client # NoProfile => Active(client) \/ client \in loose
  /\ pc \in {"recover", "begin", "backup", "activate", "configure"} => client # prof

(* Promises of the documentation that the code breaks (README, Disagreements).  *)

(* Ctrl-C is "stopping all launched apps gracefully" (launch-soak.py), and a   *)
(* graceful teardown includes "MFC preference restoration" (README.md): a      *)
(* profile whose journal says "restored" has the operator's bytes once the     *)
(* launcher is down.                                                           *)
PreferencesRestored ==
  pc = "down" /\ manifest.state = "restored" => target[manifest.of] = original[manifest.of]

(* recover_file_overlay: "Recover a prior active overlay, or report that none  *)
(* is active."  It should raise for a journal of another profile only when     *)
(* that journal is active.                                                     *)
RefusesOnlyActive == refused = "mismatch" => manifest.state = "active"
================================================================================
