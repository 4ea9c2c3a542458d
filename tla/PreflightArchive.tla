---------------------------- MODULE PreflightArchive ----------------------------
(* prepare_clean_run of soak_run_layout.py: before a campaign starts, the        *)
(* outputs that earlier clients left in their profiles are promoted, copied into *)
(* the campaign's archive, verified and removed under a recovery manifest.       *)
(*                                                                               *)
(* The content of an output is the number of the client run that wrote it (0: no *)
(* file), which stands for its bytes, its time and its hash. The outputs are     *)
(* within the store's limits; pruning is modelled in ArtifactStore.              *)
EXTENDS Naturals, FiniteSets

CONSTANTS Files,                         \* outputs a client may leave behind
          Faults,                        \* subset of {"crash", "torn"}
          MaxCampaigns, MaxRuns, MaxCrashes     \* bounds

ArchiveAssumption ==
  /\ Faults \subseteq {"crash", "torn"}
  /\ MaxCampaigns \in Nat \ {0} /\ MaxRuns \in Nat /\ MaxCrashes \in Nat

VARIABLES source,       \* the outputs in the clients' profiles
          segments,     \* is there a diagnostic run to promote?
          promoted,     \* campaigns that hold promoted segments
          copy,         \* archived outputs, by campaign
          partial,      \* temporary copies (<name>.tmp), by campaign
          manifest,     \* preflight-archives.json, by campaign
          campaign,     \* the campaign being prepared
          todo, at,     \* entries the current loop has left, and its entry
          pc,
          run, crashes,
          produced,     \* history: every output that was ever written
          refused       \* history: why the last preparation raised

store == <<promoted, copy, partial, manifest>>
clients == <<source, segments, run, produced>>
vars == <<clients, store, campaign, todo, at, pc, crashes, refused>>

Campaigns == 1 .. MaxCampaigns
NoManifest == [state |-> "none", entries |-> [f \in Files |-> 0]]
Reasons == {"no", "promotion exists", "unplanned source", "unplanned artifact",
            "sources recreated", "source changed", "copy changed"}

Entries(c) == {f \in Files : manifest[c].entries[f] # 0}
Entry(f) == manifest[campaign].entries[f]

Init ==
  /\ source = [f \in Files |-> 0] /\ segments = FALSE
  /\ promoted = {} /\ copy = [c \in Campaigns |-> [f \in Files |-> 0]]
  /\ partial = [c \in Campaigns |-> {}] /\ manifest = [c \in Campaigns |-> NoManifest]
  /\ campaign = 1 /\ todo = {} /\ at \in Files /\ pc = "down"
  /\ run = 0 /\ crashes = 0 /\ produced = {} /\ refused = "no"

-------------------------------------------------------------------------------

Refuse(why) ==
  /\ refused' = why /\ pc' = "down" /\ todo' = {}
  /\ UNCHANGED <<clients, store, campaign, at, crashes>>

\* External: once the campaign is prepared its clients run and leave outputs, and
\* they are stopped before the next preparation looks at the profiles.
ClientsRun ==
  /\ pc = "ready" /\ run < MaxRuns
  /\ run' = run + 1
  /\ \E written \in (SUBSET Files) \ {{}} :
       /\ source' = [f \in Files |-> IF f \in written THEN run' ELSE source[f]]
       /\ produced' = produced \cup {<<f, run'>> : f \in written}
  /\ segments' \in BOOLEAN
  /\ pc' = "down"
  /\ UNCHANGED <<store, campaign, todo, at, crashes, refused>>

\* A launch under a new campaign identity or under one that was used before.
Launch ==
  /\ pc = "down"
  /\ \E c \in Campaigns : campaign' = c
  /\ refused' = "no" /\ pc' = "promote"
  /\ UNCHANGED <<clients, store, todo, at, crashes>>

\* promote_latest_diagnostic_segments copies the segments of the latest run; a
\* destination that exists raises.
Promote ==
  /\ pc = "promote"
  /\ IF segments /\ campaign \in promoted THEN Refuse("promotion exists")
     ELSE /\ promoted' = IF segments THEN promoted \cup {campaign} ELSE promoted
          /\ pc' = "open"
          /\ UNCHANGED <<clients, copy, partial, manifest, campaign, todo, at, crashes, refused>>

-------------------------------------------------------------------------------
(* archive_preflight_outputs.                                                    *)

\* _assert_archive_destinations_known: no file in the archive, a temporary copy
\* included, but the entries' own.
Unplanned(entries) ==
  partial[campaign] # {} \/ \E f \in Files : copy[campaign][f] # 0 /\ f \notin entries

Persist(state) == manifest' = [manifest EXCEPT ![campaign].state = state]

\* Without a manifest: the inventory, the checks, and the manifest "prepared".
Prepare ==
  /\ pc = "open" /\ manifest[campaign].state = "none"
  /\ LET found == {f \in Files : source[f] # 0} IN
     IF Unplanned(found) THEN Refuse("unplanned artifact")
     ELSE /\ manifest' = [manifest EXCEPT ![campaign] = [state |-> "prepared", entries |-> source]]
          /\ todo' = found /\ pc' = "copy"
          /\ UNCHANGED <<clients, promoted, copy, partial, campaign, at, crashes, refused>>

\* With a manifest: its entries are what is archived, and nothing else may be there.
Resume ==
  /\ pc = "open" /\ manifest[campaign].state # "none"
  /\ LET state == manifest[campaign].state
         entries == Entries(campaign)
     IN IF \E f \in Files : source[f] # 0 /\ f \notin entries THEN Refuse("unplanned source")
        ELSE IF Unplanned(entries) THEN Refuse("unplanned artifact")
        ELSE IF state = "complete" /\ \E f \in entries : source[f] # 0
        THEN Refuse("sources recreated")
        ELSE IF state = "complete" /\ \E f \in entries : copy[campaign][f] # Entry(f)
        THEN Refuse("copy changed")
        ELSE /\ todo' = IF state = "complete" THEN {} ELSE entries
             /\ pc' = CASE state = "prepared" -> "copy" [] state = "copied" -> "remove"
                        [] state = "complete" -> "ready"
             /\ UNCHANGED <<clients, store, campaign, at, crashes, refused>>

\* _copy_or_verify_preflight_entry
VerifyCopied ==
  /\ pc = "copy"
  /\ \E f \in todo :
       /\ source[f] = Entry(f) => copy[campaign][f] # 0
       /\ IF source[f] # Entry(f) THEN Refuse("source changed")
          ELSE IF copy[campaign][f] # Entry(f) THEN Refuse("copy changed")
          ELSE /\ todo' = todo \ {f}
               /\ UNCHANGED <<clients, store, campaign, at, pc, crashes, refused>>

StartCopy ==
  /\ pc = "copy"
  /\ \E f \in todo :
       /\ source[f] = Entry(f) /\ copy[campaign][f] = 0
       /\ at' = f /\ partial' = [partial EXCEPT ![campaign] = @ \cup {f}]
  /\ pc' = "copying"
  /\ UNCHANGED <<clients, promoted, copy, manifest, campaign, todo, crashes, refused>>

\* persist_bounded_file_artifact has verified the temporary against its source.
FinishCopy ==
  /\ pc = "copying"
  /\ copy' = [copy EXCEPT ![campaign][at] = source[at]]
  /\ partial' = [partial EXCEPT ![campaign] = @ \ {at}]
  /\ todo' = todo \ {at} /\ pc' = "copy"
  /\ UNCHANGED <<clients, promoted, manifest, campaign, at, crashes, refused>>

\* The copy fails: its temporary is removed and the preparation ends.
CopyRaises ==
  /\ pc = "copying"
  /\ partial' = [partial EXCEPT ![campaign] = @ \ {at}]
  /\ todo' = {} /\ pc' = "down"
  /\ UNCHANGED <<clients, promoted, copy, manifest, campaign, at, crashes, refused>>

Copied ==
  /\ pc = "copy" /\ todo = {}
  /\ Persist("copied")
  /\ todo' = Entries(campaign) /\ pc' = "remove"
  /\ UNCHANGED <<clients, promoted, copy, partial, campaign, at, crashes, refused>>

\* Mutant: the source is removed without being compared once more.
RemoveUnchecked ==
  /\ pc = "remove"
  /\ \E f \in todo :
       /\ copy[campaign][f] = Entry(f)
       /\ source' = [source EXCEPT ![f] = 0] /\ todo' = todo \ {f}
  /\ UNCHANGED <<segments, run, produced, store, campaign, at, pc, crashes, refused>>

\* The copy is verified, then the source, and the source is removed.
RemoveSource ==
  /\ pc = "remove"
  /\ \E f \in todo :
       IF copy[campaign][f] # Entry(f) THEN Refuse("copy changed")
       ELSE IF source[f] \notin {0, Entry(f)} THEN Refuse("source changed")
       ELSE /\ source' = [source EXCEPT ![f] = 0] /\ todo' = todo \ {f}
            /\ UNCHANGED <<segments, run, produced, store, campaign, at, pc, crashes, refused>>

Completed ==
  /\ pc = "remove" /\ todo = {}
  /\ Persist("complete") /\ pc' = "ready"
  /\ UNCHANGED <<clients, promoted, copy, partial, campaign, todo, at, crashes, refused>>

\* The launcher dies between two effects; while it copies, it leaves the temporary.
Crash ==
  /\ pc # "down" /\ crashes < MaxCrashes
  /\ (IF pc = "copying" THEN "torn" ELSE "crash") \in Faults
  /\ crashes' = crashes + 1 /\ pc' = "down" /\ todo' = {}
  /\ UNCHANGED <<clients, store, campaign, at, refused>>

Next ==
  \/ ClientsRun \/ Launch \/ Promote \/ Prepare \/ Resume \/ VerifyCopied \/ StartCopy
  \/ FinishCopy \/ CopyRaises \/ Copied \/ RemoveSource \/ Completed \/ Crash

Spec == Init /\ [][Next]_vars

-------------------------------------------------------------------------------
(* Properties.                                                                   *)

Versions == 0 .. MaxRuns

\* The variables keep their types, and the loops visit entries of the manifest.
TypeOK ==
  /\ source \in [Files -> Versions] /\ segments \in BOOLEAN
  /\ promoted \subseteq Campaigns /\ copy \in [Campaigns -> [Files -> Versions]]
  /\ partial \in [Campaigns -> SUBSET Files]
  /\ manifest \in [Campaigns -> [state : {"none", "prepared", "copied", "complete"},
                                 entries : [Files -> Versions]]]
  /\ campaign \in Campaigns /\ todo \subseteq Entries(campaign) /\ at \in Files
  /\ pc \in {"down", "promote", "open", "copy", "copying", "remove", "ready"}
  /\ run \in Versions /\ crashes \in 0 .. MaxCrashes
  /\ produced \subseteq Files \X (1 .. MaxRuns) /\ refused \in Reasons

\* "Copies, verifies, and then removes prior outputs": no output of a client is
\* ever lost. It is in the profile or complete in the archive of a campaign,
\* wherever preparations were cut off and under whichever identity they were
\* repeated.
NoOutputLost ==
  \A p \in produced :
    \/ source[p[1]] = p[2]
    \/ \E c \in Campaigns : copy[c][p[1]] = p[2]

\* A manifest that says "copied" or "complete" has every entry in the archive.
ManifestTruthful ==
  \A c \in Campaigns : manifest[c].state \in {"copied", "complete"} =>
    \A f \in Entries(c) : copy[c][f] = manifest[c].entries[f]

(* Promises of the documentation that the code breaks (README, Disagreements).  *)

\* "using a recovery manifest": what a preparation that was cut off left in its
\* archive does not make the next one under the same identity raise.
ArchiveResumes == refused # "unplanned artifact"

\* The same of the promotion before it: a campaign whose preparation was cut off
\* may be prepared again.
PromotionResumes == refused = "promotion exists" => manifest[campaign].state = "complete"
===============================================================================
