------------------------------- MODULE RunManifest -------------------------------
(* last-run/manifest.json between the three processes that share it: the         *)
(* launcher rewrites it in place as the campaign starts, runs and ends           *)
(* (write_json of soak_run_layout.py), the observer polls it until the campaign  *)
(* is ready (load_ready_manifest of converged_observer.py), and the controller's *)
(* start reads the previous campaign from it (latest_campaign_path).             *)
(*                                                                               *)
(* path.write_text truncates the file and then fills it: two steps, between which *)
(* another process may read it or the launcher may die.                          *)
EXTENDS Naturals

CONSTANTS Faults,            \* subset of {"crash"}
          MaxCampaigns       \* bound

RunManifestAssumption == Faults \subseteq {"crash"} /\ MaxCampaigns \in Nat

VARIABLES last,          \* manifest.json
          previous,      \* what start took for the previous campaign
          campaign,      \* the campaign of the current session
          launcher,      \* the launcher's point
          payload,       \* the object the launcher is writing
          truncated,     \* is the launcher between truncating and filling?
          observer,      \* the observer's point
          directories,   \* do both diagnostic directories exist?
          readied,       \* history: campaigns whose clients were brought up
          startRefused   \* history: start raised over the manifest

vars == <<last, previous, campaign, launcher, payload, truncated, observer, directories,
          readied, startRefused>>

Statuses == {"starting", "running", "completed", "failed"}
NoFile == [form |-> "absent", campaign |-> 0, status |-> "starting", evidence |-> 0]
Empty == [NoFile EXCEPT !.form = "empty"]
Manifest(c, status, evidence) ==
  [form |-> "whole", campaign |-> c, status |-> status, evidence |-> evidence]

Init ==
  /\ last = NoFile /\ previous = 0 /\ campaign = 0
  /\ launcher = "down" /\ payload = NoFile /\ truncated = FALSE
  /\ observer = "down" /\ directories = FALSE
  /\ readied = {} /\ startRefused = FALSE

-------------------------------------------------------------------------------
(* The controller: start, after the previous session ended.                      *)

StartSession ==
  /\ launcher = "down" /\ observer \in {"down", "raised"} /\ campaign < MaxCampaigns
  /\ last.form # "empty"
  /\ previous' = last.campaign /\ campaign' = campaign + 1
  /\ launcher' = "preflight" /\ observer' = "waiting"
  /\ payload' = Manifest(campaign + 1, "starting", campaign + 1)
  /\ UNCHANGED <<last, truncated, directories, readied, startRefused>>

\* load_json lets the parser's error through.
StartRaises ==
  /\ launcher = "down" /\ observer \in {"down", "raised"} /\ campaign < MaxCampaigns
  /\ last.form = "empty" /\ startRefused' = TRUE
  /\ UNCHANGED <<last, previous, campaign, launcher, payload, truncated, observer, directories,
                 readied>>

-------------------------------------------------------------------------------
(* The launcher.                                                                 *)

Writing == {"preflight", "restamp", "mark running", "mark finished"}

Truncate ==
  /\ launcher \in Writing /\ ~truncated
  /\ last' = Empty /\ truncated' = TRUE
  /\ UNCHANGED <<previous, campaign, launcher, payload, observer, directories, readied,
                 startRefused>>

\* prepare_clean_run writes the manifest of a starting campaign, main writes it
\* again with its own additions; mark_run_running and mark_run_finished write
\* what they read, with another status.
Fill ==
  /\ truncated /\ last' = payload /\ truncated' = FALSE
  /\ launcher' = CASE launcher = "preflight" -> "restamp"
                   [] launcher = "restamp" -> "bring up"
                   [] launcher = "mark running" -> "loop"
                   [] launcher = "mark finished" -> "down"
  /\ UNCHANGED <<previous, campaign, payload, observer, directories, readied, startRefused>>

ClientsReady ==
  /\ launcher = "bring up"
  /\ readied' = readied \cup {campaign} /\ directories' = TRUE
  /\ payload' = [last EXCEPT !.campaign = campaign, !.status = "running"]
  /\ launcher' = "mark running"
  /\ UNCHANGED <<last, previous, campaign, truncated, observer, startRefused>>

\* The bring-up fails, or the main loop ends.
Finish ==
  /\ launcher \in {"bring up", "loop"}
  /\ \E status \in (IF launcher = "loop" THEN {"completed", "failed"} ELSE {"failed"}) :
       payload' = [last EXCEPT !.campaign = campaign, !.status = status]
  /\ launcher' = "mark finished"
  /\ UNCHANGED <<last, previous, campaign, truncated, observer, directories, readied,
                 startRefused>>

Crash ==
  /\ "crash" \in Faults /\ launcher # "down"
  /\ launcher' = "down" /\ truncated' = FALSE
  /\ UNCHANGED <<last, previous, campaign, payload, observer, directories, readied,
                 startRefused>>

-------------------------------------------------------------------------------
(* The observer's wait for readiness.                                            *)

Waiting == observer = "waiting" /\ directories /\ last.form # "absent"

\* Mutant: a running campaign is enough, whichever it is.
AttachToAny ==
  /\ Waiting /\ last.form = "whole" /\ last.status = "running"
  /\ observer' = "attached"
  /\ UNCHANGED <<last, previous, campaign, launcher, payload, truncated, directories, readied, startRefused>>

Attach ==
  /\ Waiting /\ last.form = "whole" /\ last.campaign = campaign /\ last.status = "running"
  /\ observer' = "attached"
  /\ UNCHANGED <<last, previous, campaign, launcher, payload, truncated, directories, readied, startRefused>>

\* load_json_object raises over an empty file, and the exception ends the observer.
ReadsEmpty ==
  /\ Waiting /\ last.form = "empty" /\ observer' = "raised"
  /\ UNCHANGED <<last, previous, campaign, launcher, payload, truncated, directories, readied, startRefused>>

\* The stop file, the launcher's exit or the readiness timeout; once attached,
\* the stop file or the launcher's exit.
ObserverEnds ==
  /\ observer \in {"waiting", "attached"} /\ observer' = "down"
  /\ UNCHANGED <<last, previous, campaign, launcher, payload, truncated, directories, readied, startRefused>>

Next ==
  \/ StartSession \/ StartRaises \/ Truncate \/ Fill \/ ClientsReady \/ Finish \/ Crash
  \/ Attach \/ ReadsEmpty \/ ObserverEnds

Spec == Init /\ [][Next]_vars

-------------------------------------------------------------------------------
(* Properties.                                                                   *)

Contents == [form : {"absent", "empty", "whole"}, campaign : 0 .. MaxCampaigns,
             status : Statuses, evidence : 0 .. MaxCampaigns]

\* The variables keep their types; while the launcher fills the file it is empty.
TypeOK ==
  /\ last \in Contents /\ payload \in Contents
  /\ previous \in 0 .. MaxCampaigns /\ campaign \in 0 .. MaxCampaigns
  /\ launcher \in Writing \cup {"down", "bring up", "loop"} /\ truncated \in BOOLEAN
  /\ truncated => last = Empty /\ launcher \in Writing
  /\ observer \in {"down", "waiting", "attached", "raised"} /\ directories \in BOOLEAN
  /\ readied \subseteq 1 .. MaxCampaigns
  /\ startRefused \in BOOLEAN

\* "Returns the matching running launcher manifest when clients are ready": an
\* observer attaches only to a campaign whose clients were brought up, never on
\* the strength of what an earlier, crashed campaign left in the file.
AttachedWhenReady == observer = "attached" => campaign \in readied

\* "Updates the last-run manifest status without dropping preflight evidence":
\* whatever the manifest says of a campaign, it holds that campaign's preflight
\* evidence.
EvidenceKept == last.form = "whole" => last.evidence = last.campaign

(* Promises of the documentation that the code breaks (README, Disagreements).  *)

\* An observer that waits for a campaign is not ended by the launcher's own
\* writes to the manifest.
WaitingSurvivesWrites == observer # "raised"

\* "Publishes the stable last-run manifest": no launcher leaves a manifest over
\* which the next start raises.
NextStartReads == ~startRefused
==================================================================================
