--------------------------- MODULE StressDownloads ---------------------------
(* The downloads of the cold-start stress lane, rest-cold-start-dump-stress.py: the   *)
(* search tasks of a wave run in a thread pool, claim candidates in one                *)
(* DownloadTriggerCoordinator, post them to the client and record what materialised    *)
(* in one StressTransferRegistry; between waves the main thread deletes some of them,  *)
(* then it fills the queue with synthetic links, waits for completions, deletes what   *)
(* the registry holds and judges the run.                                              *)
(*                                                                                     *)
(* A request returns, is refused, or its answer is lost while the client carries it    *)
(* out. It stands for one call of http_request, which sends it up to four times while  *)
(* connections are refused or reset or the client is busy: when the answer to a        *)
(* transmission was lost, that to the next may not own to what the first one did. What *)
(* a search finds, and the order of its candidates, is left open; so are the           *)
(* diagnostics of the process, a verdict of their own.                                 *)
EXTENDS Naturals, FiniteSetsExt

CONSTANTS Searches,       \* tasks of one wave
          Waves,
          MaxConcurrent,  \* --max-concurrent-searches
          Live,           \* hashes the network may offer
          Synthetic,      \* hashes of the queue fill
          PerSearch,      \* --downloads-per-search
          MaxActive,      \* --max-active-downloads
          BatchSize,      \* --synthetic-queue-fill-batch-size
          RemoveCount,    \* --download-remove-count-per-churn
          MaxMissing,     \* --max-missing-download-triggers
          Target,         \* --target-completed-downloads
          Window,         \* transfers one answer of GET /transfers shows
          Faults          \* subset of FaultKinds

\* refuse: a request fails; lost: its answer does; slow: a transfer appears after the wait.
FaultKinds == {"refuse", "lost", "slow"}

StressAssumption ==
  /\ Waves \in Nat \ {0} /\ MaxConcurrent \in Nat \ {0} /\ MaxActive \in Nat \ {0}
  /\ BatchSize \in Nat \ {0} /\ {PerSearch, RemoveCount, MaxMissing, Target, Window} \subseteq Nat
  /\ Live \cap Synthetic = {} /\ Faults \subseteq FaultKinds
  /\ IsFiniteSet(Live \cup Synthetic) /\ IsFiniteSet(Searches)

VARIABLES phase,      \* the main thread's point
          wave,       \* wave_index
          pc,         \* a task's point
          todo,       \* candidates its resolve() still has to look at
          hash,       \* the candidate in hand
          rows,       \* its triggers
          claimed,    \* _claimed_hashes
          triggered, completed, deleted,   \* the registry's sets
          client,     \* the client's transfers
          accepted,   \* downloads the client has accepted and not materialised
          liveCount,  \* live_completed_download_triggers
          failed,     \* failed_searches > 0
          fill,       \* synthetic links not built yet
          queued,     \* queued_count
          fillOk,     \* ok of synthetic_queue_fill
          enough,     \* ok of download_completion
          clean,      \* stress_cleanup_is_complete
          status,
          posts       \* history: download requests per hash

tasks == <<pc, todo, hash, rows>>
registry == <<claimed, triggered, completed, deleted>>
engine == <<client, accepted>>
verdicts == <<liveCount, failed, fill, queued, fillOk, enough, clean, status>>
vars == <<phase, wave, tasks, registry, engine, verdicts, posts>>

Hashes == Live \cup Synthetic
NoHash == "none"
Active == triggered \ (completed \cup deleted)   \* active_hashes
ActiveCount == Cardinality(Active)              \* active_stress_transfer_count
Present == {h \in Hashes : client[h] # "absent"}

\* GET /transfers: all of the client's transfers, or as many as one answer shows.
Listings == kSubset(Min({Window, Cardinality(Present)}), Present)

Init ==
  /\ phase = "transport" /\ wave = 1
  /\ pc = [s \in Searches |-> "queued"] /\ todo = [s \in Searches |-> {}]
  /\ hash = [s \in Searches |-> NoHash] /\ rows = [s \in Searches |-> 0]
  /\ claimed = {} /\ triggered = {} /\ completed = {} /\ deleted = {}
  /\ client = [h \in Hashes |-> "absent"] /\ accepted = {}
  /\ liveCount = 0 /\ failed = FALSE
  /\ fill = Synthetic /\ queued = 0 /\ fillOk = (Synthetic = {}) /\ enough = FALSE
  /\ clean = FALSE /\ status = "running"
  /\ posts = [h \in Hashes |-> 0]

-------------------------------------------------------------------------------
(* run_search_task and trigger_active_downloads_from_search_result.              *)

Goto(s, label) == pc' = [pc EXCEPT ![s] = label]
Running == {s \in Searches : pc[s] \notin {"queued", "ok", "failed"}}

\* A worker of the pool takes the task up; the search starts, or it does not and the task
\* fails, or no download is wanted.
StartSearch(s) ==
  /\ phase = "tasks" /\ pc[s] = "queued" /\ Cardinality(Running) < MaxConcurrent
  /\ \/ Goto(s, IF PerSearch = 0 THEN "ok" ELSE "resolve")
     \/ "refuse" \in Faults /\ Goto(s, "failed")
  /\ UNCHANGED <<phase, wave, todo, hash, rows, registry, engine, verdicts, posts>>

\* One call of resolve(): budget and cap, then the results there are by now. A search whose
\* results cannot be read is asked again.
Resolve(s) ==
  /\ pc[s] = "resolve"
  /\ IF rows[s] >= PerSearch \/ ActiveCount >= MaxActive
     THEN Goto(s, "ok") /\ UNCHANGED todo
     ELSE \E found \in SUBSET Live :
            Goto(s, "candidate") /\ todo' = [todo EXCEPT ![s] = found]
  /\ UNCHANGED <<phase, wave, hash, rows, registry, engine, verdicts, posts>>

\* wait_for's deadline, looked at between two calls: the task ends well with what it has.
ResolveTimeout(s) ==
  /\ pc[s] = "resolve" /\ Goto(s, "ok")
  /\ UNCHANGED <<phase, wave, todo, hash, rows, registry, engine, verdicts, posts>>

\* The loop's head: budget and cap again, then the next candidate; at the end the task is
\* over when it has triggered something.
Candidate(s) ==
  /\ pc[s] = "candidate"
  /\ IF rows[s] >= PerSearch \/ ActiveCount >= MaxActive \/ todo[s] = {}
     THEN Goto(s, IF rows[s] > 0 THEN "ok" ELSE "resolve") /\ UNCHANGED <<todo, hash>>
     ELSE \E h \in todo[s] :
            /\ todo' = [todo EXCEPT ![s] = @ \ {h}] /\ hash' = [hash EXCEPT ![s] = h]
            /\ Goto(s, "claim")
  /\ UNCHANGED <<phase, wave, rows, registry, engine, verdicts, posts>>

\* Mutant: what is recorded is looked up, not what is claimed.
ClaimRecorded(s) ==
  /\ pc[s] = "claim" /\ claimed' = claimed \cup {hash[s]}
  /\ Goto(s, IF hash[s] \in triggered THEN "candidate" ELSE "post")
  /\ UNCHANGED <<phase, wave, todo, hash, rows, triggered, completed, deleted, engine, verdicts,
                 posts>>

\* DownloadTriggerCoordinator.claim, under its lock.
Claim(s) ==
  /\ pc[s] = "claim" /\ claimed' = claimed \cup {hash[s]}
  /\ Goto(s, IF hash[s] \in claimed THEN "candidate" ELSE "post")
  /\ UNCHANGED <<phase, wave, todo, hash, rows, triggered, completed, deleted, engine, verdicts,
                 posts>>

\* The POST. An exception ends this call of resolve(); the claim stays.
PostDownload(s) ==
  /\ pc[s] = "post" /\ posts' = [posts EXCEPT ![hash[s]] = @ + 1]
  /\ \/ accepted' = accepted \cup {hash[s]} /\ Goto(s, "confirm")
     \/ "lost" \in Faults /\ accepted' = accepted \cup {hash[s]} /\ Goto(s, "resolve")
     \/ "refuse" \in Faults /\ UNCHANGED accepted /\ Goto(s, "resolve")
  /\ UNCHANGED <<phase, wave, todo, hash, rows, registry, client, verdicts>>

\* wait_for_triggered_transfer has seen the transfer: record_triggered and the trigger row.
RecordTriggered(s) ==
  /\ pc[s] = "confirm" /\ client[hash[s]] # "absent"
  /\ triggered' = triggered \cup {hash[s]} /\ deleted' = deleted \ {hash[s]}
  /\ rows' = [rows EXCEPT ![s] = @ + 1] /\ Goto(s, "candidate")
  /\ UNCHANGED <<phase, wave, todo, hash, claimed, completed, engine, verdicts, posts>>

\* It has not in time, or a poll raised.
ConfirmFails(s) ==
  /\ pc[s] = "confirm"
  /\ "lost" \in Faults \/ ("slow" \in Faults /\ client[hash[s]] = "absent")
  /\ Goto(s, "resolve")
  /\ UNCHANGED <<phase, wave, todo, hash, rows, registry, engine, verdicts, posts>>

-------------------------------------------------------------------------------
(* run_stress_waves, in the main thread.                                         *)

\* The next wave, or the fill when this was the last or the client does not answer.
NextPhase(healthy) ==
  IF healthy /\ wave < Waves
  THEN phase' = "transport" /\ wave' = wave + 1 ELSE phase' = "fill" /\ wave' = wave

\* get_search_network_mode: without a network the wave's searches all fail.
Transport ==
  /\ phase = "transport"
  /\ \/ phase' = "tasks" /\ wave' = wave /\ UNCHANGED failed
     \/ "refuse" \in Faults /\ failed' = (failed \/ Searches # {}) /\ NextPhase(TRUE)
  /\ UNCHANGED <<tasks, registry, engine, liveCount, fill, queued, fillOk, enough, clean, status,
                 posts>>

\* The rows of the wave's reports, one by one: how many there are.
Triggers == Cardinality({r \in Searches \X (1..PerSearch) : r[2] <= rows[r[1]]})

\* The pool is done: its reports are added up and the client is probed; when it is time for
\* churn it follows, whatever the probe said.
EndWave ==
  /\ phase = "tasks" /\ \A s \in Searches : pc[s] \in {"ok", "failed"}
  /\ failed' = (failed \/ \E s \in Searches : pc[s] = "failed")
  /\ liveCount' = liveCount + Triggers
  /\ \E healthy \in {TRUE} \cup (IF "refuse" \in Faults THEN {FALSE} ELSE {}) :
       \/ NextPhase(healthy)
       \/ RemoveCount > 0 /\ wave' = wave /\ phase' = IF healthy THEN "churn" ELSE "last churn"
  /\ pc' = [s \in Searches |-> "queued"] /\ todo' = [s \in Searches |-> {}]
  /\ hash' = [s \in Searches |-> NoHash] /\ rows' = [s \in Searches |-> 0]
  /\ UNCHANGED <<registry, engine, fill, queued, fillOk, enough, clean, status, posts>>

\* main's except clause: the run has failed and nothing is cleaned up.
Raise == phase' = "judged" /\ status' = "failed"

\* delete_non_completed_stress_transfers. A DELETE answered with 200 or 404 is recorded; an
\* exception of the listing or of a DELETE ends the run, with what was deleted before it
\* unrecorded.
Churn ==
  /\ phase \in {"churn", "last churn"}
  /\ \E listed \in Listings :
     LET candidates == {h \in listed \cap Active : client[h] # "completed"}
     IN \E chosen \in kSubset(Min({RemoveCount, Cardinality(candidates)}), candidates) :
        \E gone \in SUBSET chosen : \E told \in SUBSET gone :
          /\ gone = chosen \/ "refuse" \in Faults
          /\ told = gone \/ "lost" \in Faults
          /\ client' = [h \in Hashes |-> IF h \in gone THEN "absent" ELSE client[h]]
          /\ \/ /\ deleted' = deleted \cup told /\ NextPhase(phase = "churn")
                /\ UNCHANGED status
             \/ "lost" \in Faults /\ Raise /\ UNCHANGED <<deleted, wave>>
  /\ UNCHANGED <<tasks, claimed, triggered, completed, accepted, liveCount, failed, fill, queued,
                 fillOk, enough, clean, posts>>

\* queue_synthetic_stress_transfers, one batch: as many links as the batch and the cap allow.
\* The answer has a verdict for each; one that is lost, or a refusal, counts for none, and
\* one to a second transmission may count only some of what the first one queued.
FillBatch ==
  /\ phase = "fill" /\ fill # {} /\ ActiveCount < MaxActive
  /\ \E batch \in kSubset(Min({BatchSize, MaxActive - ActiveCount, Cardinality(fill)}), fill) :
     /\ fill' = fill \ batch /\ claimed' = claimed \cup batch
     /\ posts' = [h \in Hashes |-> IF h \in batch THEN posts[h] + 1 ELSE posts[h]]
     /\ \E taken \in SUBSET batch : \E told \in SUBSET taken :
        /\ taken = batch \/ "refuse" \in Faults
        /\ told = taken \/ "lost" \in Faults
        /\ client' = [h \in Hashes |-> IF h \in taken THEN "active" ELSE client[h]]
        /\ triggered' = triggered \cup told /\ deleted' = deleted \ told
        /\ queued' = queued + Cardinality(told)
  /\ UNCHANGED <<phase, wave, tasks, completed, accepted, liveCount, failed, fillOk, enough,
                 clean, status>>

\* Its end: the links are used up, or the cap is reached.
EndFill ==
  /\ phase = "fill" /\ (fill = {} \/ ActiveCount >= MaxActive)
  /\ phase' = "completion"
  /\ fillOk' = (queued >= Cardinality(Synthetic))
  /\ UNCHANGED <<wave, tasks, registry, engine, liveCount, failed, fill, queued, enough, clean,
                 status, posts>>

-------------------------------------------------------------------------------
(* main, after the waves.                                                        *)

\* wait_for_completed_stress_downloads: each poll records what the list shows as completed;
\* the files in the incoming directory count too.
Complete ==
  /\ phase = "completion"
  /\ \E listed \in Listings :
     LET done == {h \in Hashes : client[h] = "completed"}
         counted == completed \cup (done \cap listed \cap triggered)
         reached == Cardinality(counted) >= Target \/ Cardinality(done) >= Target
     IN IF Target = 0 THEN enough' = TRUE /\ phase' = "delete" /\ UNCHANGED completed
        ELSE /\ completed' = counted
             /\ \/ reached /\ enough' = TRUE /\ phase' = "delete"
                \/ ~reached /\ enough' = FALSE /\ phase' \in {"completion", "delete"}
  /\ UNCHANGED <<wave, tasks, claimed, triggered, deleted, engine, liveCount, failed, fill,
                 queued, fillOk, clean, status, posts>>

\* The peak diagnostics, taken before the cleanup, may raise too.
DiagnosticsRaise ==
  /\ phase = "delete" /\ "refuse" \in Faults /\ Raise
  /\ UNCHANGED <<wave, tasks, registry, engine, liveCount, failed, fill, queued, fillOk, enough,
                 clean, posts>>

\* cleanup_searches_and_transfers: a DELETE for each recorded hash. An exception leaves a
\* report without counts, which reads as nothing requested and nothing missing.
DeleteTransfers ==
  /\ phase = "delete"
  /\ \E gone \in SUBSET (triggered \cap Present) :
     /\ client' = [h \in Hashes |-> IF h \in gone THEN "absent" ELSE client[h]]
     /\ \/ /\ gone = triggered \cap Present \/ "refuse" \in Faults
           /\ deleted' = deleted \cup {h \in triggered : client'[h] = "absent"}
           /\ clean' = \A h \in triggered : client'[h] = "absent"
        \/ "lost" \in Faults /\ clean' = TRUE /\ UNCHANGED deleted
  /\ phase' = "absent"
  /\ UNCHANGED <<wave, tasks, claimed, triggered, completed, accepted, liveCount, failed, fill,
                 queued, fillOk, enough, status, posts>>

\* wait_for_stress_transfers_absent polls until a list shows none of them, or gives up; the
\* completed transfers are cleared afterwards, if the client does so.
AwaitAbsent ==
  /\ phase = "absent"
  /\ \/ /\ triggered = {} \/ \E listed \in Listings : listed \cap triggered = {}
        /\ UNCHANGED clean
     \/ /\ "refuse" \in Faults \/ \E listed \in Listings : listed \cap triggered # {}
        /\ triggered # {} /\ clean' = FALSE
  /\ \/ client' = [h \in Hashes |-> IF client[h] = "completed" THEN "absent" ELSE client[h]]
     \/ "refuse" \in Faults /\ UNCHANGED client
  /\ phase' = "judge"
  /\ UNCHANGED <<wave, tasks, registry, accepted, liveCount, failed, fill, queued, fillOk, enough,
                 status, posts>>

\* The verdict, first reason first. The diagnostics, and required searches without
\* results, may fail the run whatever the rest says.
Judge ==
  /\ phase = "judge" /\ phase' = "judged"
  /\ \E diagnosed \in BOOLEAN :
       status' = IF failed \/ ~diagnosed \/ ~clean \/ ~fillOk \/ ~enough THEN "failed"
                 ELSE IF Waves * Cardinality(Searches) * PerSearch > liveCount + queued + MaxMissing
                      THEN "inconclusive" ELSE "passed"
  /\ UNCHANGED <<wave, tasks, registry, engine, liveCount, failed, fill, queued, fillOk, enough,
                 clean, posts>>

-------------------------------------------------------------------------------
(* The client.                                                                   *)

\* An accepted download becomes a transfer, at the latest while its task waits for it.
Materialise ==
  /\ \E h \in accepted :
       /\ accepted' = accepted \ {h}
       /\ client' = [client EXCEPT ![h] = "active"]
  /\ UNCHANGED <<phase, wave, tasks, registry, verdicts, posts>>

Finish ==
  /\ \E h \in Present :
       client[h] = "active" /\ h \in Live /\ client' = [client EXCEPT ![h] = "completed"]
  /\ UNCHANGED <<phase, wave, tasks, registry, accepted, verdicts, posts>>

Task(s) ==
  \/ StartSearch(s) \/ Resolve(s) \/ ResolveTimeout(s) \/ Candidate(s) \/ Claim(s)
  \/ PostDownload(s) \/ RecordTriggered(s) \/ ConfirmFails(s)

Main ==
  \/ Transport \/ EndWave \/ Churn \/ FillBatch \/ EndFill \/ Complete
  \/ DiagnosticsRaise \/ DeleteTransfers \/ AwaitAbsent \/ Judge

Next == (\E s \in Searches : Task(s)) \/ Main \/ Materialise \/ Finish

Spec == Init /\ [][Next]_vars

-------------------------------------------------------------------------------
TypeOK ==
  /\ phase \in {"transport", "tasks", "churn", "last churn", "fill", "completion", "delete",
                "absent", "judge", "judged"}
  /\ wave \in 1..Waves
  /\ pc \in [Searches -> {"queued", "resolve", "candidate", "claim", "post", "confirm", "ok",
                          "failed"}]
  /\ todo \in [Searches -> SUBSET Live] /\ hash \in [Searches -> Live \cup {NoHash}]
  /\ rows \in [Searches -> 0..PerSearch]
  /\ triggered \subseteq claimed /\ claimed \subseteq Hashes
  /\ completed \subseteq triggered /\ deleted \subseteq triggered
  /\ client \in [Hashes -> {"absent", "active", "completed"}] /\ accepted \subseteq Live
  /\ fill \subseteq Synthetic /\ status \in {"running", "passed", "inconclusive", "failed"}

\* No hash is asked for twice in a run, by whichever tasks, waves or fill find it, also after
\* a request that failed and after a deletion; the repetitions of one request within
\* http_request are its own (DownloadTriggerCoordinator.claim).
PostedOnce == \A h \in Hashes : posts[h] <= 1

\* The cap on active downloads is read without a lock that spans the post: tasks that run at
\* the same time may exceed it, by no more than one download for each other worker
\* (trigger_active_downloads_from_search_result, queue_synthetic_stress_transfers).
ActiveBounded == ActiveCount < MaxActive + MaxConcurrent

\* The counts the verdict is taken from are the registry's: each trigger row is a recorded
\* hash and no recorded hash is missing from the reports (run_stress_waves).
CountsAgree ==
  /\ liveCount + Triggers = Cardinality(triggered \cap Live)
  /\ queued = Cardinality(triggered \cap Synthetic)

\* A run that passed has none of its recorded downloads left in the client; what is left is
\* a download the run claimed and could not confirm (stress_cleanup_is_complete).
PassedMeansGone ==
  /\ Present \cup accepted \subseteq claimed
  /\ status = "passed" => (Present \cup accepted) \cap triggered = {}
===============================================================================
