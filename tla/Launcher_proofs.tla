---------------------------- MODULE Launcher_proofs ----------------------------
(* Proofs about the parts of a launcher run that MCLauncher puts side by side, *)
(* for every value of the constants: the daemon's output (DaemonCapture), the  *)
(* preparation (PreflightArchive) and the last-run manifest (RunManifest). The *)
(* borrowed profile is proved about in ProfileOverlay_proofs.                  *)
EXTENDS MCLauncher, TLAPS

-------------------------------------------------------------------------------
(* The initial states of the whole are initial states of each part. *)
LEMMA PartsInit ==
  ASSUME LauncherInit
  PROVE  Capture!Init /\ Archive!Init /\ LastRun!Init
BY DEF LauncherInit

(* A step of the whole is a step of each part or leaves it alone. *)
LEMMA PartsStep ==
  ASSUME [LauncherNext]_allVars
  PROVE  /\ [Capture!Next]_captureVars
         /\ [Archive!Next]_archiveVars
         /\ [LastRun!Next]_manifestVars
BY DEF LauncherNext, allVars

-------------------------------------------------------------------------------
(* The daemon's output.  Until the sink fails every byte the daemon sent is in *)
(* the pipe, in the thread's hands or in the log; the thread ends without a    *)
(* failure only when the daemon is dead and nothing is under way.              *)

Conserved ==
  /\ logged <= sent
  /\ ~failed => sent = logged + chunk + piped /\ thread # "stop"
  /\ failed => thread \in {"stop", "ended"}
  /\ thread \in {"idle", "read"} => chunk = 0
  /\ thread = "write" => chunk > 0

Drained == chunk = 0 /\ piped = 0 /\ ~daemon

(* What the launcher has recorded, and may still rely on.                      *)
Accounted == (~failed /\ thread = "ended") \/ status = "failed" \/ outputError

CaptureInv ==
  /\ Capture!TypeOK /\ Conserved
  /\ thread = "idle" => main = "start" /\ ~daemon
  /\ main = "start" => thread = "idle"
  /\ thread = "ended" /\ ~failed => Drained
  /\ main = "abort" => status = "failed"
  /\ main \in {"record", "finished"} => Accounted

(* Nothing is sent at first. *)
LEMMA CaptureInit ==
  ASSUME Capture!Init
  PROVE  CaptureInv
<1>n. CaptureBytes \in Nat /\ PipeCapacity \in Nat
  BY PartsAssumption DEF Capture!CaptureAssumption
<1>z. 0 \in 0 .. CaptureBytes /\ 0 \in 0 .. PipeCapacity
  BY <1>n
<1>1. Capture!TypeOK
  BY <1>z DEF Capture!Init, Capture!TypeOK
<1>2. Conserved
  BY DEF Capture!Init, Conserved
<1>3. QED
  BY <1>1, <1>2 DEF Capture!Init, CaptureInv

(* Every step of the daemon, the thread or the launcher keeps the account. *)
LEMMA CaptureStep ==
  ASSUME CaptureInv, [Capture!Next]_captureVars
  PROVE  CaptureInv'
<1> USE PartsAssumption DEF Capture!CaptureAssumption
<1> USE DEF CaptureInv, Capture!TypeOK, Conserved, Drained, Accounted
<1>1. CASE Capture!DaemonWrites
  BY <1>1 DEF Capture!DaemonWrites, Capture!Over, Capture!capture
<1>2. CASE Capture!DaemonExits
  BY <1>2 DEF Capture!DaemonExits, Capture!capture
<1>3. CASE Capture!StopRequested
  BY <1>3 DEF Capture!StopRequested, Capture!capture
<1>4. CASE Capture!ReadChunk
  BY <1>4 DEF Capture!ReadChunk, Capture!capture
<1>5. CASE Capture!ReadEnd
  BY <1>5 DEF Capture!ReadEnd, Capture!capture
<1>6. CASE Capture!LogChunk
  BY <1>6 DEF Capture!LogChunk, Capture!capture
<1>7. CASE Capture!SinkFails
  BY <1>7 DEF Capture!SinkFails, Capture!capture
<1>8. CASE Capture!StopDaemon
  BY <1>8 DEF Capture!StopDaemon, Capture!capture
<1>9. CASE Capture!StartCapture
  BY <1>9 DEF Capture!StartCapture, Capture!capture
<1>10. CASE Capture!BringUpFails
  BY <1>10 DEF Capture!BringUpFails, Capture!capture
<1>11. CASE Capture!AbortCloses
  BY <1>11 DEF Capture!AbortCloses, Capture!capture
<1>12. CASE Capture!BringUpDone
  BY <1>12 DEF Capture!BringUpDone, Capture!capture
<1>13. CASE Capture!CheckCapture
  BY <1>13 DEF Capture!CheckCapture, Capture!capture
<1>14. CASE Capture!PollDaemon
  BY <1>14 DEF Capture!PollDaemon, Capture!capture
<1>15. CASE Capture!TeardownStops
  BY <1>15 DEF Capture!TeardownStops, Capture!capture
<1>16. CASE Capture!CloseCapture
  BY <1>16 DEF Capture!CloseCapture, Capture!capture
<1>17. CASE Capture!Record
  BY <1>17 DEF Capture!Record, Capture!capture
<1>18. CASE Capture!BringUpInterrupted
  BY <1>18 DEF Capture!BringUpInterrupted, Capture!capture
<1>19. CASE UNCHANGED captureVars
  BY <1>19 DEF captureVars
<1>20. QED
  BY <1>1, <1>2, <1>3, <1>4, <1>5, <1>6, <1>7, <1>8, <1>9, <1>10, <1>11, <1>12,
     <1>13, <1>14, <1>15, <1>16, <1>17, <1>18, <1>19
     DEF Capture!Next, Capture!CaptureThread, Capture!Launcher

(* A run that has its daemon and ends with a byte missing from the log is said *)
(* to have failed or to have an output error, for every pipe and amount of     *)
(* output, whether or not close may time out (AsyncBinaryCapture, the          *)
(* teardown of launch-soak.py).                                                *)
THEOREM LossReported == LauncherSpec => []LossRecorded
<1>1. LauncherInit => CaptureInv
  BY PartsInit, CaptureInit
<1>2. CaptureInv /\ [LauncherNext]_allVars => CaptureInv'
  BY PartsStep, CaptureStep
<1>3. CaptureInv => LossRecorded
  <2> SUFFICES ASSUME CaptureInv, main = "finished", ~failed, thread = "ended"
               PROVE  logged = sent
    BY DEF CaptureInv, Accounted, LossRecorded, Capture!LossRecorded, Capture!Lost
  <2>1. sent \in Nat /\ logged \in Nat /\ chunk = 0 /\ piped = 0
    BY PartsAssumption DEF CaptureInv, Capture!TypeOK, Drained, Capture!CaptureAssumption
  <2>2. QED
    BY <2>1 DEF CaptureInv, Conserved
<1>4. QED
  BY <1>1, <1>2, <1>3, PTL DEF LauncherSpec

-------------------------------------------------------------------------------
(* The last-run manifest.  What the file says, and what the launcher is about  *)
(* to put there, is true of the campaign it names, and the launcher reads back *)
(* its own manifest when it marks the campaign running or finished.            *)

Truthful(m) ==
  m.form = "whole" => /\ m.evidence = m.campaign
                      /\ m.status = "running" => m.campaign \in readied

Pending == launcher \in LastRun!Writing =>
             writing.form = "whole" /\ writing.campaign = current

ManifestInv ==
  /\ LastRun!TypeOK /\ LastRun!AttachedWhenReady
  /\ Truthful(last) /\ Truthful(writing) /\ Pending
  /\ launcher \in {"bring up", "loop"} => last.form = "whole" /\ last.campaign = current
  /\ launcher # "down" => current > 0

(* At first there is no manifest. *)
LEMMA ManifestInit ==
  ASSUME LastRun!Init
  PROVE  ManifestInv
<1>1. 0 \in 0 .. MaxCampaigns
  BY PartsAssumption DEF LastRun!RunManifestAssumption
<1>2. last \in LastRun!Contents /\ writing \in LastRun!Contents
  BY <1>1 DEF LastRun!Init, LastRun!NoFile, LastRun!Contents, LastRun!Statuses
<1>3. QED
  BY <1>1, <1>2 DEF LastRun!Init, LastRun!NoFile, LastRun!TypeOK, LastRun!Writing, Truthful,
     Pending, ManifestInv, LastRun!AttachedWhenReady

(* Every step of the controller, the launcher or the observer keeps it. *)
LEMMA ManifestStep ==
  ASSUME ManifestInv, [LastRun!Next]_manifestVars
  PROVE  ManifestInv'
<1>m. MaxCampaigns \in Nat
  BY PartsAssumption DEF LastRun!RunManifestAssumption
<1>t. current \in 0 .. MaxCampaigns /\ (launcher # "down" => current > 0)
  BY DEF ManifestInv, LastRun!TypeOK
<1>a. MaxCampaigns \in Nat /\ current \in Nat /\ current <= MaxCampaigns
  BY <1>m, <1>t
<1>b. launcher # "down" => current \in 1 .. MaxCampaigns
  BY <1>a, <1>t
<1>c. 0 \in 0 .. MaxCampaigns
  BY <1>m
<1> USE DEF ManifestInv, LastRun!TypeOK, LastRun!AttachedWhenReady, Truthful, Pending,
        LastRun!Writing
<1>1. CASE LastRun!StartSession
  BY <1>1, <1>a DEF LastRun!StartSession, LastRun!Manifest, LastRun!Contents, LastRun!Statuses
<1>2. CASE LastRun!StartRaises
  BY <1>2 DEF LastRun!StartRaises
<1>3. CASE LastRun!Truncate
  <2>1. LastRun!Empty \in LastRun!Contents /\ LastRun!Empty.form = "empty"
    BY <1>c DEF LastRun!Empty, LastRun!NoFile, LastRun!Contents, LastRun!Statuses
  <2>2. QED
    BY <1>3, <2>1 DEF LastRun!Truncate
<1>4. CASE LastRun!Fill
  BY <1>4 DEF LastRun!Fill
<1>5. CASE LastRun!ClientsReady
  <2>1. /\ last.form = "whole" /\ last.campaign = current /\ last.evidence = current
        /\ last \in LastRun!Contents /\ current \in 1 .. MaxCampaigns
    BY <1>5, <1>b DEF LastRun!ClientsReady
  <2>2. /\ writing' \in LastRun!Contents /\ writing'.form = "whole"
        /\ writing'.campaign = current /\ writing'.evidence = current
    BY <1>5, <2>1 DEF LastRun!ClientsReady, LastRun!Contents, LastRun!Statuses
  <2>3. current \in readied' /\ readied \subseteq readied' /\ readied' \subseteq 1 .. MaxCampaigns
    BY <1>5, <2>1 DEF LastRun!ClientsReady
  <2>4. QED
    BY <1>5, <2>1, <2>2, <2>3 DEF LastRun!ClientsReady
<1>6. CASE LastRun!Finish
  BY <1>6, <1>a DEF LastRun!Finish, LastRun!Contents, LastRun!Statuses
<1>7. CASE LastRun!Crash
  BY <1>7 DEF LastRun!Crash
<1>8. CASE LastRun!Attach
  BY <1>8 DEF LastRun!Attach, LastRun!Waiting
<1>9. CASE LastRun!ReadsEmpty
  BY <1>9 DEF LastRun!ReadsEmpty
<1>10. CASE LastRun!ObserverEnds
  BY <1>10 DEF LastRun!ObserverEnds
<1>11. CASE UNCHANGED manifestVars
  BY <1>11 DEF manifestVars
<1>12. QED
  BY <1>1, <1>2, <1>3, <1>4, <1>5, <1>6, <1>7, <1>8, <1>9, <1>10, <1>11 DEF LastRun!Next

(* An observer attaches only to a campaign whose clients were brought up, and  *)
(* the manifest keeps the preflight evidence of the campaign it names, for any *)
(* number of campaigns and wherever launchers die (load_ready_manifest,        *)
(* mark_run_running, mark_run_finished).                                       *)
THEOREM ObserverAttachesReady == LauncherSpec => []ManifestSound
<1>1. LauncherInit => ManifestInv
  BY PartsInit, ManifestInit
<1>2. ManifestInv /\ [LauncherNext]_allVars => ManifestInv'
  BY PartsStep, ManifestStep
<1>3. ManifestInv => ManifestSound
  BY DEF ManifestInv, ManifestSound, Truthful, LastRun!EvidenceKept
<1>4. QED
  BY <1>1, <1>2, <1>3, PTL DEF LauncherSpec

-------------------------------------------------------------------------------
(* The preparation.  While it works on a campaign every source is an entry of  *)
(* the campaign's manifest; it removes a source only when the copy is the      *)
(* entry and the entry the source, so none is left when the clients run.       *)

Archived(c, f) == copy[c][f] = archived[c].entries[f]

Covered == \A f \in Files : source[f] # 0 => f \in Archive!Entries(campaign)

CopyInv ==
  step \in {"copy", "copying"} =>
    /\ archived[campaign].state = "prepared" /\ Covered
    /\ \A f \in Archive!Entries(campaign) \ todo : Archived(campaign, f)

TempInv ==
  step = "copying" =>
    at \in todo /\ copy[campaign][at] = 0 /\ source[at] = archived[campaign].entries[at]

RemoveInv ==
  step = "remove" =>
    /\ archived[campaign].state = "copied" /\ Covered
    /\ \A f \in Archive!Entries(campaign) \ todo : source[f] = 0

ArchiveInv ==
  /\ Archive!TypeOK /\ Archive!NoOutputLost /\ Archive!ManifestTruthful
  /\ CopyInv /\ TempInv /\ RemoveInv
  /\ step \in {"down", "promote", "open", "ready"} => todo = {}
  /\ step = "ready" => \A f \in Files : source[f] = 0

(* At first nothing was written. *)
LEMMA ArchiveInit ==
  ASSUME Archive!Init
  PROVE  ArchiveInv
<1>1. 0 \in 0 .. MaxRuns /\ 0 \in 0 .. MaxCrashes /\ 1 \in 1 .. MaxCampaigns
  BY PartsAssumption DEF Archive!ArchiveAssumption
<1>2. Archive!TypeOK
  BY <1>1 DEF Archive!Init, Archive!TypeOK, Archive!Campaigns, Archive!Versions,
     Archive!NoManifest, Archive!Entries, Archive!Reasons
<1>3. Archive!ManifestTruthful
  BY DEF Archive!Init, Archive!ManifestTruthful, Archive!NoManifest
<1>4. QED
  BY <1>2, <1>3 DEF Archive!Init, ArchiveInv, Archive!NoOutputLost, CopyInv, TempInv,
     RemoveInv

(* A preparation that ends keeps the invariant when it leaves the archive and  *)
(* the profiles alone. *)
LEMMA EndKeeps ==
  ASSUME ArchiveInv, step' = "down", todo' = {}, campaign' \in Archive!Campaigns,
         UNCHANGED <<Archive!clients, promoted, copy, archived, at>>,
         partial' \in [Archive!Campaigns -> SUBSET Files],
         crashes' \in 0 .. MaxCrashes, rejected' \in Archive!Reasons
  PROVE  ArchiveInv'
<1>1. Archive!TypeOK'
  BY DEF ArchiveInv, Archive!TypeOK, Archive!clients, Archive!Entries, Archive!Campaigns,
     Archive!Versions
<1>2. Archive!NoOutputLost' /\ Archive!ManifestTruthful'
  BY DEF ArchiveInv, Archive!clients, Archive!NoOutputLost, Archive!ManifestTruthful,
     Archive!Campaigns, Archive!Entries
<1>3. QED
  BY <1>1, <1>2 DEF ArchiveInv, CopyInv, TempInv, RemoveInv

(* Raising is such an end. *)
LEMMA RefuseKeeps ==
  ASSUME ArchiveInv, NEW why \in Archive!Reasons, Archive!Refuse(why)
  PROVE  ArchiveInv'
BY EndKeeps DEF Archive!Refuse, Archive!store, ArchiveInv, Archive!TypeOK

(* Every step keeps it: a copy is added only where there was none, a source is *)
(* removed only when its copy is there, and clients run when no source is left. *)
LEMMA ArchiveStep ==
  ASSUME ArchiveInv, [Archive!Next]_archiveVars
  PROVE  ArchiveInv'
<1>n. MaxRuns \in Nat /\ MaxCampaigns \in Nat /\ MaxCrashes \in Nat
  BY PartsAssumption DEF Archive!ArchiveAssumption
<1>t. Archive!TypeOK
  BY DEF ArchiveInv
<1>1. CASE Archive!ClientsRun
  <2>1. run' = run + 1 /\ run + 1 \in 1 .. MaxRuns /\ run' \in Archive!Versions
    BY <1>1, <1>n, <1>t DEF Archive!ClientsRun, Archive!TypeOK, Archive!Versions
  <2>2. PICK written \in (SUBSET Files) \ {{}} :
          /\ source' = [f \in Files |-> IF f \in written THEN run' ELSE source[f]]
          /\ produced' = produced \cup {<<f, run'>> : f \in written}
    BY <1>1 DEF Archive!ClientsRun
  <2>3. /\ segments' \in BOOLEAN /\ step' = "down" /\ step = "ready"
        /\ UNCHANGED <<promoted, copy, partial, archived, campaign, todo, at, crashes, rejected>>
    BY <1>1 DEF Archive!ClientsRun, Archive!store
  <2>4. todo = {} /\ \A f \in Files : source[f] = 0
    BY <2>3 DEF ArchiveInv
  <2>5. Archive!TypeOK'
    BY <1>t, <2>1, <2>2, <2>3 DEF Archive!TypeOK, Archive!Entries, Archive!Campaigns,
       Archive!Versions
  <2>6. Archive!NoOutputLost'
    <3>1. ASSUME NEW p \in produced
          PROVE  \E c \in Archive!Campaigns : copy[c][p[1]] = p[2]
      <4>1. p[1] \in Files /\ p[2] \in 1 .. MaxRuns
        BY <1>t DEF Archive!TypeOK
      <4>2. p[2] # 0
        BY <4>1, <1>n
      <4>3. source[p[1]] # p[2]
        BY <2>4, <4>1, <4>2
      <4>4. QED
        BY <4>3 DEF ArchiveInv, Archive!NoOutputLost
    <3>2. ASSUME NEW f \in written
          PROVE  source'[f] = run'
      BY <2>2
    <3>3. QED
      BY <2>2, <2>3, <3>1, <3>2 DEF Archive!NoOutputLost, Archive!Campaigns
  <2>7. Archive!ManifestTruthful'
    BY <2>3 DEF ArchiveInv, Archive!ManifestTruthful, Archive!Campaigns, Archive!Entries
  <2>8. QED
    BY <2>3, <2>4, <2>5, <2>6, <2>7 DEF ArchiveInv, CopyInv, TempInv, RemoveInv
<1>2. CASE Archive!Launch
  <2>1. /\ campaign' \in Archive!Campaigns /\ rejected' = "no" /\ step' = "promote"
        /\ step = "down" /\ todo = {}
        /\ UNCHANGED <<source, segments, run, produced, promoted, copy, partial, archived,
                       todo, at, crashes>>
    BY <1>2 DEF Archive!Launch, Archive!clients, Archive!store, ArchiveInv
  <2>2. Archive!TypeOK'
    BY <1>t, <2>1 DEF Archive!TypeOK, Archive!Entries, Archive!Campaigns, Archive!Versions,
       Archive!Reasons
  <2>3. QED
    BY <2>1, <2>2 DEF ArchiveInv, CopyInv, TempInv, RemoveInv, Archive!NoOutputLost,
       Archive!ManifestTruthful, Archive!Campaigns, Archive!Entries
<1>3. CASE Archive!Promote
  <2>1. CASE Archive!Refuse("promotion exists")
    BY <2>1, RefuseKeeps DEF Archive!Reasons
  <2>2. CASE /\ promoted' = IF segments THEN promoted \cup {campaign} ELSE promoted
             /\ step' = "open" /\ step = "promote"
             /\ UNCHANGED <<Archive!clients, copy, partial, archived, campaign, todo, at,
                            crashes, rejected>>
    <3>1. Archive!TypeOK'
      BY <1>t, <2>2 DEF Archive!TypeOK, Archive!Entries, Archive!Campaigns, Archive!Versions,
         Archive!clients
    <3>2. QED
      BY <2>2, <3>1 DEF ArchiveInv, CopyInv, TempInv, RemoveInv, Archive!NoOutputLost,
         Archive!ManifestTruthful, Archive!Campaigns, Archive!Entries, Archive!clients
  <2>3. QED
    BY <1>3, <2>1, <2>2 DEF Archive!Promote
<1>4. CASE Archive!Prepare
  <2> DEFINE found == {f \in Files : source[f] # 0}
  <2>1. CASE Archive!Refuse("unplanned artifact")
    BY <2>1, RefuseKeeps DEF Archive!Reasons
  <2>2. CASE /\ archived' = [archived EXCEPT ![campaign] = [state |-> "prepared", entries |-> source]]
             /\ todo' = found /\ step' = "copy" /\ archived[campaign].state = "none"
             /\ UNCHANGED <<Archive!clients, promoted, copy, partial, campaign, at,
                            crashes, rejected>>
    <3>1. /\ archived'[campaign].state = "prepared" /\ archived'[campaign].entries = source
          /\ \A c \in Archive!Campaigns : c # campaign => archived'[c] = archived[c]
      BY <1>t, <2>2 DEF Archive!TypeOK
    <3>2. Archive!Entries(campaign)' = found
      BY <2>2, <3>1 DEF Archive!Entries
    <3>3. Archive!TypeOK'
      BY <1>t, <2>2, <3>2 DEF Archive!TypeOK, Archive!Versions, Archive!clients
    <3>4. Archive!ManifestTruthful'
      BY <2>2, <3>1 DEF ArchiveInv, Archive!ManifestTruthful, Archive!Entries
    <3>5. Archive!NoOutputLost' /\ CopyInv'
      BY <2>2, <3>1, <3>2 DEF ArchiveInv, Archive!NoOutputLost, CopyInv, Covered, Archive!clients
    <3>6. QED
      BY <2>2, <3>3, <3>4, <3>5 DEF ArchiveInv, TempInv, RemoveInv
  <2>3. QED
    BY <1>4, <2>1, <2>2 DEF Archive!Prepare
<1>5. CASE Archive!Resume
  <2>1. ASSUME NEW why \in Archive!Reasons, Archive!Refuse(why) PROVE ArchiveInv'
    BY <2>1, RefuseKeeps
  <2>2. CASE /\ ~ \E f \in Files : source[f] # 0 /\ f \notin Archive!Entries(campaign)
             /\ ~ (/\ archived[campaign].state = "complete"
                   /\ \E f \in Archive!Entries(campaign) : source[f] # 0)
             /\ archived[campaign].state # "none"
             /\ todo' = IF archived[campaign].state = "complete" THEN {}
                        ELSE Archive!Entries(campaign)
             /\ step' = CASE archived[campaign].state = "prepared" -> "copy"
                          [] archived[campaign].state = "copied" -> "remove"
                          [] archived[campaign].state = "complete" -> "ready"
             /\ UNCHANGED <<Archive!clients, Archive!store, campaign, at, crashes, rejected>>
    <3>1. UNCHANGED <<source, segments, run, produced, promoted, copy, partial, archived>>
      BY <2>2 DEF Archive!clients, Archive!store
    <3>2. Archive!Entries(campaign)' = Archive!Entries(campaign) /\ Covered'
      BY <2>2, <3>1 DEF Archive!Entries, Covered
    <3>3. archived[campaign].state \in {"prepared", "copied", "complete"}
      BY <1>t, <2>2 DEF Archive!TypeOK
    <3>4. Archive!TypeOK'
      BY <1>t, <2>2, <3>1, <3>2, <3>3 DEF Archive!TypeOK
    <3>5. Archive!NoOutputLost' /\ Archive!ManifestTruthful'
      BY <2>2, <3>1 DEF ArchiveInv, Archive!NoOutputLost, Archive!ManifestTruthful,
         Archive!Entries
    <3>6. CopyInv' /\ TempInv' /\ RemoveInv'
      BY <2>2, <3>1, <3>2, <3>3 DEF CopyInv, TempInv, RemoveInv
    <3>7. /\ step' = "ready" => \A f \in Files : source'[f] = 0
          /\ step' \in {"down", "promote", "open", "ready"} => todo' = {}
      BY <2>2, <3>1, <3>3
    <3>8. QED
      BY <3>4, <3>5, <3>6, <3>7 DEF ArchiveInv
  <2>3. QED
    BY <1>5, <2>1, <2>2 DEF Archive!Resume, Archive!Reasons
<1>6. CASE Archive!VerifyCopied
  <2>1. ASSUME NEW why \in Archive!Reasons, Archive!Refuse(why) PROVE ArchiveInv'
    BY <2>1, RefuseKeeps
  <2>2. ASSUME NEW f \in todo, copy[campaign][f] = Archive!Entry(f), todo' = todo \ {f},
               step = "copy",
               UNCHANGED <<Archive!clients, Archive!store, campaign, at, step, crashes, rejected>>
        PROVE  ArchiveInv'
    <3>1. UNCHANGED <<source, segments, run, produced, promoted, copy, partial, archived>>
      BY <2>2 DEF Archive!clients, Archive!store
    <3>2. Archive!Entries(campaign)' = Archive!Entries(campaign)
      BY <2>2, <3>1 DEF Archive!Entries
    <3>3. Archive!TypeOK'
      BY <1>t, <2>2, <3>1, <3>2 DEF Archive!TypeOK
    <3>4. Archive!NoOutputLost' /\ Archive!ManifestTruthful'
      BY <2>2, <3>1 DEF ArchiveInv, Archive!NoOutputLost, Archive!ManifestTruthful,
         Archive!Entries
    <3>5. CopyInv'
      BY <2>2, <3>1, <3>2 DEF ArchiveInv, CopyInv, Covered, Archived, Archive!Entry
    <3>6. QED
      BY <2>2, <3>3, <3>4, <3>5 DEF ArchiveInv, TempInv, RemoveInv
  <2>3. QED
    BY <1>6, <2>1, <2>2 DEF Archive!VerifyCopied, Archive!Reasons
<1>7. CASE Archive!StartCopy
  <2>1. PICK f \in todo :
          /\ source[f] = Archive!Entry(f) /\ copy[campaign][f] = 0
          /\ at' = f /\ partial' = [partial EXCEPT ![campaign] = @ \cup {f}]
    BY <1>7 DEF Archive!StartCopy
  <2>2. /\ step = "copy" /\ step' = "copying"
        /\ UNCHANGED <<source, segments, run, produced, promoted, copy, archived, campaign,
                       todo, crashes, rejected>>
    BY <1>7 DEF Archive!StartCopy, Archive!clients
  <2>3. Archive!Entries(campaign)' = Archive!Entries(campaign) /\ f \in Files
    BY <1>t, <2>2 DEF Archive!Entries, Archive!TypeOK
  <2>4. Archive!TypeOK'
    BY <1>t, <2>1, <2>2, <2>3 DEF Archive!TypeOK
  <2>5. Archive!NoOutputLost' /\ Archive!ManifestTruthful'
    BY <2>2 DEF ArchiveInv, Archive!NoOutputLost, Archive!ManifestTruthful, Archive!Entries
  <2>6. CopyInv' /\ TempInv'
    BY <2>1, <2>2, <2>3 DEF ArchiveInv, CopyInv, TempInv, Covered, Archived, Archive!Entry
  <2>7. QED
    BY <2>2, <2>4, <2>5, <2>6 DEF ArchiveInv, RemoveInv
<1>8. CASE Archive!FinishCopy
  <2>1. /\ step = "copying" /\ step' = "copy" /\ todo' = todo \ {at}
        /\ copy' = [copy EXCEPT ![campaign][at] = source[at]]
        /\ partial' = [partial EXCEPT ![campaign] = @ \ {at}]
        /\ UNCHANGED <<source, segments, run, produced, promoted, archived, campaign, at,
                       crashes, rejected>>
    BY <1>8 DEF Archive!FinishCopy, Archive!clients
  <2>2. /\ at \in todo /\ at \in Files /\ campaign \in Archive!Campaigns
        /\ archived[campaign].state = "prepared" /\ Covered
        /\ copy[campaign][at] = 0 /\ source[at] = archived[campaign].entries[at]
        /\ \A f \in Archive!Entries(campaign) \ todo : Archived(campaign, f)
    BY <1>t, <2>1 DEF ArchiveInv, CopyInv, TempInv, Archive!TypeOK
  <2>3. /\ copy'[campaign][at] = source[at]
        /\ \A f \in Files : f # at => copy'[campaign][f] = copy[campaign][f]
        /\ \A c \in Archive!Campaigns : c # campaign => copy'[c] = copy[c]
    BY <1>t, <2>1, <2>2 DEF Archive!TypeOK
  <2>4. Archive!Entries(campaign)' = Archive!Entries(campaign)
    BY <2>1 DEF Archive!Entries
  <2>5. Archive!TypeOK'
    BY <1>t, <2>1, <2>2, <2>4 DEF Archive!TypeOK
  <2>6. Archive!NoOutputLost'
    <3>1. SUFFICES ASSUME NEW p \in produced, NEW c \in Archive!Campaigns,
                          copy[c][p[1]] = p[2]
                   PROVE  copy'[c][p[1]] = p[2]
      BY <2>1 DEF ArchiveInv, Archive!NoOutputLost
    <3>2. p[1] \in Files /\ p[2] # 0
      BY <1>n, <1>t DEF Archive!TypeOK
    <3>3. QED
      BY <2>2, <2>3, <3>1, <3>2
  <2>7. Archive!ManifestTruthful'
    BY <2>1, <2>2, <2>3 DEF ArchiveInv, Archive!ManifestTruthful, Archive!Entries
  <2>8. CopyInv'
    <3>1. ASSUME NEW f \in Archive!Entries(campaign), f \notin todo \ {at}
          PROVE  copy'[campaign][f] = archived[campaign].entries[f]
      <4>1. f \in Files
        BY DEF Archive!Entries
      <4>2. CASE f = at
        BY <2>2, <2>3, <4>2
      <4>3. CASE f # at
        BY <2>2, <2>3, <3>1, <4>1, <4>3 DEF Archived
      <4>4. QED
        BY <4>2, <4>3
    <3>2. QED
      BY <2>1, <2>2, <2>4, <3>1 DEF CopyInv, Covered, Archived
  <2>9. QED
    BY <2>1, <2>5, <2>6, <2>7, <2>8 DEF ArchiveInv, TempInv, RemoveInv
<1>9. CASE Archive!CopyRaises
  <2>1. partial' \in [Archive!Campaigns -> SUBSET Files]
    BY <1>9, <1>t DEF Archive!CopyRaises, Archive!TypeOK
  <2>2. QED
    BY <1>9, <1>t, <2>1, EndKeeps DEF Archive!CopyRaises, Archive!TypeOK
<1>10. CASE Archive!Copied
  <2>1. /\ step = "copy" /\ step' = "remove" /\ todo = {} /\ todo' = Archive!Entries(campaign)
        /\ archived' = [archived EXCEPT ![campaign].state = "copied"]
        /\ UNCHANGED <<source, segments, run, produced, promoted, copy, partial, campaign, at,
                       crashes, rejected>>
    BY <1>10 DEF Archive!Copied, Archive!Persist, Archive!clients
  <2>2. /\ archived'[campaign].state = "copied"
        /\ \A c \in Archive!Campaigns : /\ archived'[c].entries = archived[c].entries
                                        /\ c # campaign => archived'[c] = archived[c]
    BY <1>t, <2>1 DEF Archive!TypeOK
  <2>3. \A c \in Archive!Campaigns : Archive!Entries(c)' = Archive!Entries(c)
    BY <2>2 DEF Archive!Entries
  <2>4. campaign \in Archive!Campaigns /\ Covered
        /\ \A f \in Archive!Entries(campaign) : Archived(campaign, f)
    BY <1>t, <2>1 DEF ArchiveInv, CopyInv, Archive!TypeOK
  <2>5. Archive!TypeOK'
    BY <1>t, <2>1, <2>3, <2>4 DEF Archive!TypeOK
  <2>6. Archive!ManifestTruthful'
    BY <2>1, <2>2, <2>3, <2>4 DEF ArchiveInv, Archive!ManifestTruthful, Archived
  <2>7. Archive!NoOutputLost' /\ RemoveInv'
    BY <2>1, <2>2, <2>3, <2>4 DEF ArchiveInv, Archive!NoOutputLost, RemoveInv, Covered
  <2>8. QED
    BY <2>1, <2>5, <2>6, <2>7 DEF ArchiveInv, CopyInv, TempInv
<1>11. CASE Archive!RemoveSource
  <2>1. ASSUME NEW why \in Archive!Reasons, Archive!Refuse(why) PROVE ArchiveInv'
    BY <2>1, RefuseKeeps
  <2>2. ASSUME NEW f \in todo, copy[campaign][f] = Archive!Entry(f),
               source[f] \in {0, Archive!Entry(f)},
               source' = [source EXCEPT ![f] = 0], todo' = todo \ {f}, step = "remove",
               UNCHANGED <<segments, run, produced, Archive!store, campaign, at, step,
                           crashes, rejected>>
        PROVE  ArchiveInv'
    <3>1. UNCHANGED <<promoted, copy, partial, archived>>
      BY <2>2 DEF Archive!store
    <3>2. Archive!Entries(campaign)' = Archive!Entries(campaign)
      BY <2>2, <3>1 DEF Archive!Entries
    <3>3. /\ source'[f] = 0 /\ f \in Files /\ campaign \in Archive!Campaigns
          /\ \A g \in Files : g # f => source'[g] = source[g]
          /\ 0 \in Archive!Versions
      BY <1>n, <1>t, <2>2 DEF Archive!TypeOK, Archive!Entries, Archive!Versions
    <3>4. Archive!TypeOK'
      BY <1>t, <2>2, <3>1, <3>2, <3>3 DEF Archive!TypeOK
    <3>5. Archive!NoOutputLost'
      <4>1. SUFFICES ASSUME NEW p \in produced, source[p[1]] = p[2], source'[p[1]] # p[2]
                     PROVE  copy[campaign][p[1]] = p[2]
        BY <2>2, <3>1, <3>3 DEF ArchiveInv, Archive!NoOutputLost
      <4>2. p[1] \in Files /\ p[2] # 0
        BY <1>n, <1>t DEF Archive!TypeOK
      <4>3. p[1] = f
        BY <3>3, <4>1, <4>2
      <4>4. QED
        BY <2>2, <4>1, <4>2, <4>3
    <3>6. Archive!ManifestTruthful'
      BY <2>2, <3>1 DEF ArchiveInv, Archive!ManifestTruthful, Archive!Entries
    <3>7. RemoveInv'
      <4>1. ASSUME NEW g \in Files, source'[g] # 0
            PROVE  g \in Archive!Entries(campaign)
        BY <2>2, <3>3, <4>1 DEF ArchiveInv, RemoveInv, Covered
      <4>2. ASSUME NEW g \in Archive!Entries(campaign), g \notin todo \ {f}
            PROVE  source'[g] = 0
        BY <2>2, <3>3, <4>2 DEF ArchiveInv, RemoveInv, Archive!Entries
      <4>3. QED
        BY <2>2, <3>1, <3>2, <4>1, <4>2 DEF ArchiveInv, RemoveInv, Covered
    <3>8. QED
      BY <2>2, <3>4, <3>5, <3>6, <3>7 DEF ArchiveInv, CopyInv, TempInv
  <2>3. QED
    BY <1>11, <2>1, <2>2 DEF Archive!RemoveSource, Archive!Reasons
<1>12. CASE Archive!Completed
  <2>1. /\ step = "remove" /\ step' = "ready" /\ todo = {}
        /\ archived' = [archived EXCEPT ![campaign].state = "complete"]
        /\ UNCHANGED <<source, segments, run, produced, promoted, copy, partial, campaign,
                       todo, at, crashes, rejected>>
    BY <1>12 DEF Archive!Completed, Archive!Persist, Archive!clients
  <2>2. /\ \A c \in Archive!Campaigns : /\ archived'[c].entries = archived[c].entries
                                        /\ c # campaign => archived'[c] = archived[c]
        /\ campaign \in Archive!Campaigns
    BY <1>t, <2>1 DEF Archive!TypeOK
  <2>3. \A c \in Archive!Campaigns : Archive!Entries(c)' = Archive!Entries(c)
    BY <2>2 DEF Archive!Entries
  <2>4. Archive!TypeOK'
    BY <1>t, <2>1, <2>2, <2>3 DEF Archive!TypeOK
  <2>5. Archive!ManifestTruthful'
    BY <2>1, <2>2, <2>3 DEF ArchiveInv, Archive!ManifestTruthful, RemoveInv
  <2>6. \A f \in Files : source[f] = 0
    BY <2>1 DEF ArchiveInv, RemoveInv, Covered
  <2>7. Archive!NoOutputLost'
    BY <2>1 DEF ArchiveInv, Archive!NoOutputLost
  <2>8. QED
    BY <2>1, <2>4, <2>5, <2>6, <2>7 DEF ArchiveInv, CopyInv, TempInv, RemoveInv
<1>13. CASE Archive!Crash
  <2>1. crashes' \in 0 .. MaxCrashes
    BY <1>13, <1>n, <1>t DEF Archive!Crash, Archive!TypeOK
  <2>2. QED
    BY <1>13, <1>t, <2>1, EndKeeps DEF Archive!Crash, Archive!store, Archive!TypeOK
<1>14. CASE UNCHANGED archiveVars
  <2>1. Archive!TypeOK' /\ CopyInv' /\ TempInv' /\ RemoveInv'
    BY <1>14 DEF archiveVars, ArchiveInv, Archive!TypeOK, Archive!Entries, CopyInv, TempInv,
       RemoveInv, Covered, Archived
  <2>2. QED
    BY <1>14, <2>1 DEF archiveVars, ArchiveInv, Archive!NoOutputLost,
       Archive!ManifestTruthful, Archive!Entries
<1>15. QED
  BY <1>1, <1>2, <1>3, <1>4, <1>5, <1>6, <1>7, <1>8, <1>9, <1>10, <1>11, <1>12, <1>13, <1>14
     DEF Archive!Next

(* No output of a client is lost and no recovery manifest claims a copy that   *)
(* is not there, for any outputs, campaigns and client runs, wherever          *)
(* preparations are cut off and under whichever identity they are repeated     *)
(* (archive_preflight_outputs).                                                *)
THEOREM NothingLost == LauncherSpec => []ArchiveSound
<1>1. LauncherInit => ArchiveInv
  BY PartsInit, ArchiveInit
<1>2. ArchiveInv /\ [LauncherNext]_allVars => ArchiveInv'
  BY PartsStep, ArchiveStep
<1>3. ArchiveInv => ArchiveSound
  BY DEF ArchiveInv, ArchiveSound
<1>4. QED
  BY <1>1, <1>2, <1>3, PTL DEF LauncherSpec
===============================================================================
