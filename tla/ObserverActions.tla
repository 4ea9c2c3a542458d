---------------------------- MODULE ObserverActions ----------------------------
(* The attach-only observer driving synchronized searches:                      *)
(* capture_action_cycle, finalize_pending_action and run_observer of            *)
(* converged_observer.py over the cumulative state of                           *)
(* converged_observer_state.py, capture_checkpoint between them, and the files  *)
(* they live on: report/summary.json, report/actions/action-<seq>-<id>.json and *)
(* the immutable checkpoints.                                                   *)
(*                                                                              *)
(* Every update of the state is persisted before the next effect, so a step of  *)
(* the model is one persisted update, one request to a client or one change of  *)
(* a file; between any two of them the observer may be killed and attached      *)
(* again. Queries, counts, timestamps and texts are left out: a time is what    *)
(* remains of it, a report is its reservation and its gate outcome.             *)
EXTENDS Integers, Sequences, FiniteSets, FiniteSetsExt

CONSTANTS Target,        \* success_target_per_method
          Timeout,       \* search_timeout_seconds, in ticks
          Interval,      \* ACTION_RESULT_POLL_INTERVAL_SECONDS, in ticks
          Threshold,     \* failure_threshold of consecutive checkpoints
          Retained,      \* retained_segments of observer_actions
          RetainedCheckpoints,   \* retained_segments of observer_checkpoints
          Faults,        \* what may go wrong: "crash", "torn", "lost"
          MaxActions, MaxSkips, MaxCrashes      \* bounds

ObserverAssumption ==
  /\ Target \in Nat \ {0} /\ Timeout \in Nat \ {0} /\ Interval \in Nat \ {0}
  /\ Threshold \in Nat \ {0}
  /\ Retained \in Nat \ {0} /\ RetainedCheckpoints \in Nat \ {0}
  /\ Faults \subseteq {"crash", "torn", "lost"}
  /\ MaxActions \in Nat /\ MaxSkips \in Nat /\ MaxCrashes \in Nat

VARIABLES state,         \* the observer's copy of the cumulative state
          summary,       \* summary.json
          file, temp,    \* action reports and their temporaries, by sequence
          checkpointFiles,       \* how many immutable checkpoints are on disk
          report,        \* the report being finalized, in memory
          failures,      \* consecutive checkpoint failures
          pc, at,        \* the observer's point, and the client of a request
          crashes,
          reserved,      \* history: reservations made (stands for reservedAtUtc)
          posts,         \* history: searches created, by cycle and client
          ambiguous,     \* history: reservations interrupted with a prepared create
          folded,        \* history: reports committed to the state
          uncounted,     \* history: an attempt left a checkpoint the state does not count
          refused        \* history: what the observer raised over: "report", "state"

history == <<reserved, posts, ambiguous, folded, uncounted, refused>>
vars == <<state, summary, file, temp, checkpointFiles, report, failures, pc, at, crashes,
          history>>

Clients == {"rust", "mfc"}
Methods == {"server", "kad"}
Verdicts == {"success", "confirmed-divergence", "retryable"}

\* The clients are always visited in the order ("rust", "mfc").
FirstOf(S) == IF "rust" \in S THEN "rust" ELSE "mfc"

NoReport == [reservation |-> 0, verdict |-> "none"]
TornReport == [reservation |-> 0, verdict |-> "torn"]

\* One client of a pending action. left is the time to the deadline of its
\* result poll, which runs from the completion of its create; wait is the time
\* to the next attempt. counted and erred say whether the last observed counts
\* and the error of the last attempt are present.
NewClient == [create |-> "none", poll |-> "none", left |-> 0, wait |-> 0,
              counted |-> FALSE, erred |-> FALSE, completed |-> FALSE]

NoAction == [cycle |-> 0, reportSeq |-> 0, method |-> "none", reservation |-> 0,
             clients |-> [c \in Clients |-> NewClient],
             driverOutcome |-> FALSE, evidence |-> FALSE]

\* checkpoints counts up to RetainedCheckpoints, which no retained window exceeds;
\* retention is the retained count of each stream, whose seen is the count itself.
NewState ==
  [nextActionSeq |-> 1, nextCycle |-> 1, nextScheduleSlot |-> 1, cycles |-> 0,
   connectivitySkips |-> 0, nextActionSet |-> FALSE, pendingAction |-> NoAction,
   checkpoints |-> 0, retention |-> [actions |-> 0, checkpoints |-> 0],
   gate |-> [status |-> "pending", successful |-> [m \in Methods |-> 0],
             confirmedDivergences |-> 0]]

NoSummary == [NewState EXCEPT !.nextActionSeq = 0]

Init ==
  /\ state = NewState /\ summary = NoSummary
  /\ file = [s \in 1 .. MaxActions |-> NoReport] /\ temp = file
  /\ checkpointFiles = 0 /\ report = NoReport /\ failures = 0
  /\ pc = "down" /\ at = "rust" /\ crashes = 0
  /\ reserved = 0 /\ posts = [s \in 1 .. MaxActions |-> [c \in Clients |-> 0]]
  /\ ambiguous = {} /\ folded = <<>> /\ uncounted = FALSE /\ refused = {}

-------------------------------------------------------------------------------
(* What the steps share.                                                        *)

pending == state.pendingAction
Pending(s) == s.pendingAction.cycle # 0

\* persist_state: the summary is replaced before the caller goes on.
Persist(s) == state' = s /\ summary' = s

\* A step inside capture_action_cycle that updates and persists the state.
Advance(s, point) ==
  /\ Persist(s) /\ pc' = point
  /\ UNCHANGED <<file, temp, checkpointFiles, report, failures, at, crashes, history>>

Goto(point) ==
  /\ pc' = point
  /\ UNCHANGED <<state, summary, file, temp, checkpointFiles, report, failures, at, crashes,
                 history>>

\* The process is gone and its memory with it. A search whose create is
\* prepared is then ambiguous: nothing says whether the client received it.
Gone ==
  /\ pc' = "down" /\ state' = NewState /\ report' = NoReport
  /\ failures' = 0 /\ at' = "rust"
  /\ ambiguous' = IF \E c \in Clients : summary.pendingAction.clients[c].create = "prepared"
                  THEN ambiguous \cup {summary.pendingAction.reservation} ELSE ambiguous
  /\ uncounted' = (uncounted \/ checkpointFiles > summary.checkpoints)

\* The observer raises because of what it finds in its own files.
Refuse(what) ==
  /\ Gone /\ refused' = refused \cup {what}
  /\ UNCHANGED <<summary, file, temp, checkpointFiles, crashes, reserved, posts, folded>>

UpdateClient(c, new) == [state EXCEPT !.pendingAction.clients[c] = new]

\* pending_client_is_terminal
Terminal(c) == \/ pending.clients[c].create \in {"failed", "skipped"}
               \/ pending.clients[c].create = "succeeded" /\ pending.clients[c].poll = "done"

\* _validate_pending_client
ValidClient(r, finished) ==
  /\ r.poll # "none" => r.create = "succeeded"
  /\ r.poll = "done" => r.counted \/ r.erred
  /\ r.completed => r.poll = "done" /\ ~r.erred
  /\ finished => \/ r.create \in {"failed", "skipped"}
                 \/ r.create = "succeeded" /\ r.poll = "done"

\* _validate_pending_action
ValidPending(s) ==
  LET p == s.pendingAction IN
  /\ ~s.nextActionSet /\ p.reportSeq = s.nextActionSeq
  /\ s.nextCycle = p.cycle + 1 /\ p.cycle = p.reportSeq
  /\ p.evidence => p.driverOutcome
  /\ \A c \in Clients : ValidClient(p.clients[c], p.driverOutcome)

\* The cycles, slots, skips and reports count the same actions.
CountsAgree(s) ==
  /\ s.nextCycle = s.cycles + (IF Pending(s) /\ ~s.pendingAction.driverOutcome THEN 2 ELSE 1)
  /\ s.nextScheduleSlot = s.nextCycle + s.connectivitySkips
  /\ IF Pending(s) THEN ValidPending(s) ELSE s.nextActionSeq = s.nextCycle

\* _validate_retention of both streams: totals.actions is nextActionSeq - 1.
RetentionFits(s) == /\ s.retention.actions < s.nextActionSeq
                    /\ s.retention.checkpoints <= s.checkpoints

\* validate_state. Every step checks the state it starts from, and persist_state
\* the one it writes; a checkpoint and a committed report are written first and
\* checked by the step that follows.
Valid(s) == CountsAgree(s) /\ RetentionFits(s)

-------------------------------------------------------------------------------
(* Attaching, and the loop of run_observer.                                     *)

\* reconcile_action_deadline: a deadline is set exactly while nothing is pending.
Reconciled(s) == [s EXCEPT !.nextActionSet = ~Pending(s)]

Attach ==
  /\ pc = "down" /\ Goto("attach")

\* load_state and the first reconciliation, which is written only if it changed
\* something.
Loaded == IF summary = NoSummary THEN NewState ELSE summary

LoadState ==
  /\ pc = "attach" /\ Valid(Loaded)
  /\ state' = Reconciled(Loaded)
  /\ summary' = IF state' = Loaded THEN summary ELSE state'
  /\ pc' = "due"
  /\ UNCHANGED <<file, temp, checkpointFiles, report, failures, at, crashes, history>>

\* validate_state rejects what load_state read, or what the last step wrote.
RejectState ==
  \/ pc = "attach" /\ ~Valid(Loaded) /\ Refuse("state")
  \/ pc = "reject" /\ Refuse("state")

\* The stop file, or the launcher's exit, before the campaign is ready or at the
\* top of the loop.
Leave ==
  /\ pc \in {"attach", "due", "loop"} /\ Gone
  /\ UNCHANGED <<summary, file, temp, checkpointFiles, crashes, reserved, posts, folded,
                 refused>>

\* A checkpoint is due in the first turn and in the one after a failure, for which
\* the loop sleeps; in any other it may be.
NoCheckpointDue == pc = "loop" /\ Goto("act")
DueCheckpoint == pc \in {"due", "loop"} /\ Goto("checkpoint")

\* capture_checkpoint: the oldest checkpoints make room, the new one appears under
\* its own name, and then the summary that counts it and the files retained.
PruneCheckpoint ==
  /\ pc = "checkpoint" /\ checkpointFiles >= RetainedCheckpoints
  /\ checkpointFiles' = checkpointFiles - 1
  /\ UNCHANGED <<state, summary, file, temp, report, failures, pc, at, crashes, history>>

WriteCheckpoint ==
  /\ pc = "checkpoint" /\ checkpointFiles < RetainedCheckpoints
  /\ checkpointFiles' = checkpointFiles + 1 /\ pc' = "count"
  /\ UNCHANGED <<state, summary, file, temp, report, failures, at, crashes, history>>

\* record_checkpoint and record_stream_retention
Recorded == [state EXCEPT !.checkpoints = Min({@ + 1, RetainedCheckpoints}),
                          !.retention.checkpoints = checkpointFiles]

CaptureCheckpoint ==
  /\ pc = "count" /\ Persist(Recorded) /\ failures' = 0
  /\ pc' = IF Valid(Recorded) THEN "act" ELSE "reject"
  /\ UNCHANGED <<file, temp, checkpointFiles, report, at, crashes, history>>

\* It may fail in a probe of a client, in the checks of the store's limits before
\* and after each file is written, or over a summary that does not read back and
\* is unlinked. Its own copy of the state does not count the checkpoint.
FailedCheckpoint ==
  \/ pc = "checkpoint" /\ UNCHANGED summary
  \/ pc = "count" /\ summary' \in {summary, Recorded}
                                    \cup (IF "lost" \in Faults THEN {NoSummary} ELSE {})

\* Mutant: at the threshold the count starts over and the loop goes on.
CheckpointNeverRaises ==
  /\ pc \in {"checkpoint", "count"} /\ failures' = (failures + 1) % Threshold /\ pc' = "due"
  /\ UNCHANGED <<state, summary, file, temp, checkpointFiles, report, at, crashes, history>>

\* The loop goes on with that copy until the threshold.
CheckpointFails ==
  /\ FailedCheckpoint /\ failures + 1 < Threshold
  /\ failures' = failures + 1 /\ pc' = "due"
  /\ uncounted' = (uncounted \/ checkpointFiles > state.checkpoints)
  /\ UNCHANGED <<state, file, temp, checkpointFiles, report, at, crashes, reserved, posts,
                 ambiguous, folded, refused>>

CheckpointRaises ==
  /\ FailedCheckpoint /\ failures + 1 >= Threshold /\ Gone
  /\ UNCHANGED <<file, temp, checkpointFiles, crashes, reserved, posts, folded, refused>>

\* action_due_in_seconds of a pending action: at once, unless result polls are
\* open and none of them may attempt yet.
OpenPolls == {c \in Clients : pending.clients[c].poll = "open"}
PollsDue == OpenPolls = {} \/ \E c \in OpenPolls : pending.clients[c].wait = 0

Sleep ==
  /\ pc = "act" /\ (Pending(state) => ~PollsDue)
  /\ Goto("loop")

\* The turn ends with the reconciliation after the action.
EndTurn ==
  /\ pc = "after"
  /\ IF Pending(state) THEN Goto("loop") ELSE Advance(Reconciled(state), "loop")

-------------------------------------------------------------------------------
(* capture_action_cycle: a new action.                                          *)

\* scheduled_action: while the gate is pending only the methods short of their
\* target take turns.
Unmet == {m \in Methods : state.gate.successful[m] < Target}
Rotation ==
  LET ms == IF state.gate.status = "pending" /\ Unmet # {} THEN Unmet ELSE Methods
  IN IF ms = Methods THEN <<"server", "kad">> ELSE <<CHOOSE m \in ms : TRUE>>
ScheduledMethod == Rotation[1 + ((state.nextScheduleSlot - 1) % Len(Rotation))]

\* A probe, a repair or the read of the diagnostic run identities failed, or the
\* networks are not ready: record_connectivity_skip.
ConnectivitySkip ==
  /\ pc = "act" /\ ~Pending(state) /\ state.connectivitySkips < MaxSkips
  /\ Advance([state EXCEPT !.connectivitySkips = @ + 1, !.nextScheduleSlot = @ + 1], "after")

\* reserve_driver_cycle, persisted before either client hears of the action.
Reserve ==
  /\ pc = "act" /\ ~Pending(state) /\ state.nextCycle <= MaxActions /\ reserved < MaxActions
  /\ Persist([state EXCEPT
       !.nextActionSet = FALSE, !.nextCycle = @ + 1, !.nextScheduleSlot = @ + 1,
       !.pendingAction = [NoAction EXCEPT
          !.cycle = state.nextCycle, !.reportSeq = state.nextActionSeq,
          !.method = ScheduledMethod, !.reservation = reserved + 1]])
  /\ reserved' = reserved + 1 /\ pc' = "creates"
  /\ UNCHANGED <<file, temp, checkpointFiles, report, failures, at, crashes, posts, ambiguous,
                 folded, uncounted, refused>>

-------------------------------------------------------------------------------
(* capture_action_cycle: resuming, and the searches' creation.                  *)

Resume ==
  /\ pc = "act" /\ Pending(state) /\ PollsDue
  /\ Goto(IF ~pending.driverOutcome THEN "recover"
          ELSE IF pending.evidence THEN "finalize" ELSE "evidence")

Creates(status) == {c \in Clients : pending.clients[c].create = status}

\* A create found prepared failed: its POST is not replayed. One that was not
\* prepared is skipped if its peer's create had started.
Unrecovered == IF Creates("prepared") # {} THEN Creates("prepared")
               ELSE IF Creates("none") # Clients THEN Creates("none") ELSE {}

\* Mutant: a prepared create is issued again.
RecoverReplays ==
  /\ pc = "recover" /\ Unrecovered # {}
  /\ LET c == FirstOf(Unrecovered)
     IN Advance(UpdateClient(c, [pending.clients[c] EXCEPT !.create = "none"]), "recover")

RecoverCreate ==
  /\ pc = "recover" /\ Unrecovered # {}
  /\ LET c == FirstOf(Unrecovered)
         status == IF Creates("prepared") # {} THEN "failed" ELSE "skipped"
     IN Advance(UpdateClient(c, [pending.clients[c] EXCEPT !.create = status]), "recover")

Recovered == pc = "recover" /\ Unrecovered = {} /\ Goto("creates")

\* Both intents are persisted by one write.
PrepareCreates ==
  /\ pc = "creates" /\ Creates("none") = Clients
  /\ Advance([state EXCEPT !.pendingAction.clients =
                [c \in Clients |-> [@[c] EXCEPT !.create = "prepared"]]], "post")

CreatesDone ==
  /\ \/ pc = "creates" /\ Creates("none") # Clients
     \/ pc = "post" /\ Creates("prepared") = {}
  /\ Goto("polls")

\* run_search_create_phase: the POST, and then its outcome, persisted.
Post ==
  /\ pc = "post" /\ Creates("prepared") # {}
  /\ at' = FirstOf(Creates("prepared")) /\ pc' = "posted"
  /\ posts' = [posts EXCEPT ![pending.cycle][at'] = @ + 1]
  /\ UNCHANGED <<state, summary, file, temp, checkpointFiles, report, failures, crashes,
                 reserved, ambiguous, folded, uncounted, refused>>

CompleteCreate ==
  /\ pc = "posted"
  /\ \E status \in {"succeeded", "failed"} :
       Advance(UpdateClient(at, [pending.clients[at] EXCEPT
                 !.create = status, !.left = IF status = "succeeded" THEN Timeout ELSE 0]), "post")

-------------------------------------------------------------------------------
(* capture_action_cycle: the result polls.                                      *)

Unpolled == {c \in Creates("succeeded") : pending.clients[c].poll = "none"}

\* One write opens every poll that is missing.
StartPolls ==
  /\ pc = "polls" /\ Unpolled # {}
  /\ Advance([state EXCEPT !.pendingAction.clients =
                [c \in Clients |-> IF c \in Unpolled THEN [@[c] EXCEPT !.poll = "open"] ELSE @[c]]],
             "poll")

PollsStarted == pc = "polls" /\ Unpolled = {} /\ Goto("poll")

\* A turn handles at most one client: the first whose deadline has passed or
\* whose next attempt is due.
Ripe == {c \in OpenPolls : pending.clients[c].left = 0 \/ pending.clients[c].wait = 0}

NothingRipe == pc = "poll" /\ Ripe = {} /\ Goto("settle")

\* expire_search_results_poll closes it from what was last observed; without
\* counts and without an error of the last attempt it writes an error of its own.
ExpirePoll ==
  /\ pc = "poll" /\ Ripe # {}
  /\ LET c == FirstOf(Ripe) IN
       /\ pending.clients[c].left = 0
       /\ Advance(UpdateClient(c, [pending.clients[c] EXCEPT !.poll = "done",
                    !.erred = @ \/ ~pending.clients[c].counted]), "settle")

BeginGet ==
  /\ pc = "poll" /\ Ripe # {}
  /\ pending.clients[FirstOf(Ripe)].left > 0
  /\ at' = FirstOf(Ripe) /\ pc' = "get"
  /\ UNCHANGED <<state, summary, file, temp, checkpointFiles, report, failures, crashes,
                 history>>

\* The answer, an error or a page with or without its completion, arrives before
\* or after the deadline.
EndGet ==
  /\ pc = "get"
  /\ \E answer \in {"error", "partial", "complete"} :
       LET c == pending.clients[at]
           completed == answer = "complete" /\ c.left > 0
           terminal == completed \/ c.left = 0
       IN Advance(UpdateClient(at, [c EXCEPT
                    !.counted = @ \/ answer # "error", !.erred = answer = "error",
                    !.completed = completed,
                    !.poll = IF terminal THEN "done" ELSE "open",
                    !.wait = IF terminal THEN 0 ELSE Min({Interval, c.left})]), "settle")

-------------------------------------------------------------------------------
(* capture_action_cycle: both clients are through.                              *)

Unsettled == pc = "settle" /\ (\E c \in Clients : ~Terminal(c)) /\ Goto("after")

RecordDriverCycle ==
  /\ pc = "settle" /\ \A c \in Clients : Terminal(c)
  /\ Advance([state EXCEPT !.cycles = @ + 1, !.pendingAction.driverOutcome = TRUE], "evidence")

MarkEvidencePending ==
  /\ pc = "evidence"
  /\ Advance([state EXCEPT !.pendingAction.evidence = TRUE], "finalize")

-------------------------------------------------------------------------------
(* finalize_pending_action.                                                     *)

\* load_observer_action_report_candidate: the final file, else the temporary.
Candidate == LET s == pending.reportSeq IN IF file[s] # NoReport THEN file[s] ELSE temp[s]

\* A candidate that is no JSON, or that reports another reservation, raises.
Acceptable == Candidate.reservation = pending.reservation

LoadCandidate ==
  /\ pc = "finalize" /\ Candidate # NoReport /\ Acceptable
  /\ report' = Candidate /\ pc' = "persist"
  /\ UNCHANGED <<state, summary, file, temp, checkpointFiles, failures, at, crashes, history>>

RefuseCandidate ==
  /\ pc = "finalize" /\ Candidate # NoReport /\ ~Acceptable /\ Refuse("report")

\* Both searches were created and their results completed: only then may the
\* report count for the gate (classify_validated_parity_gate_outcome). What the
\* diagnostic evidence says is external, and may differ from one capture to the
\* next.
Complete == \A c \in Clients : /\ pending.clients[c].create = "succeeded"
                               /\ pending.clients[c].completed /\ ~pending.clients[c].erred

BuildReport ==
  /\ pc = "finalize" /\ Candidate = NoReport
  /\ \E v \in (IF Complete THEN Verdicts ELSE {"retryable"}) :
       report' = [reservation |-> pending.reservation, verdict |-> v]
  /\ pc' = "persist"
  /\ UNCHANGED <<state, summary, file, temp, checkpointFiles, failures, at, crashes, history>>

\* persist_bounded_json_identity_artifact: a final file, or a temporary, is
\* accepted only if it holds these bytes. An equal temporary is written anew.
Conflict == LET s == pending.reportSeq IN
  IF file[s] # NoReport THEN file[s] # report ELSE temp[s] \notin {NoReport, report}

ReplayReport ==
  /\ pc = "persist" /\ file[pending.reportSeq] # NoReport
  /\ IF Conflict THEN Refuse("report") ELSE Goto("commit")

DropTemporary ==
  /\ pc = "persist" /\ file[pending.reportSeq] = NoReport /\ temp[pending.reportSeq] # NoReport
  /\ IF Conflict THEN Refuse("report")
     ELSE /\ temp' = [temp EXCEPT ![pending.reportSeq] = NoReport]
          /\ UNCHANGED <<state, summary, file, checkpointFiles, report, failures, pc, at,
                          crashes, history>>

WriteTemporary ==
  /\ pc = "persist"
  /\ file[pending.reportSeq] = NoReport /\ temp[pending.reportSeq] = NoReport
  /\ temp' = [temp EXCEPT ![pending.reportSeq] = report]
  /\ pc' = "replace"
  /\ UNCHANGED <<state, summary, file, checkpointFiles, report, failures, at, crashes, history>>

\* The oldest reports make room, one by one, before the new one appears.
Kept == {s \in DOMAIN file : file[s] # NoReport}

PruneReport ==
  /\ pc = "replace" /\ Cardinality(Kept) >= Retained
  /\ file' = [file EXCEPT ![Min(Kept)] = NoReport]
  /\ UNCHANGED <<state, summary, temp, checkpointFiles, report, failures, pc, at, crashes,
                 history>>

ReplaceReport ==
  /\ pc = "replace" /\ Cardinality(Kept) < Retained
  /\ file' = [file EXCEPT ![pending.reportSeq] = temp[pending.reportSeq]]
  /\ temp' = [temp EXCEPT ![pending.reportSeq] = NoReport]
  /\ pc' = "commit"
  /\ UNCHANGED <<state, summary, checkpointFiles, report, failures, at, crashes, history>>

\* _fold_parity_gate
Fold(gate, method, verdict) ==
  LET successful == IF verdict = "success" THEN [gate.successful EXCEPT ![method] = @ + 1]
                    ELSE gate.successful
  IN [status |-> IF verdict = "confirmed-divergence" THEN "failed"
                 ELSE IF /\ verdict = "success" /\ gate.status = "pending"
                         /\ \A m \in Methods : successful[m] >= Target
                      THEN "green" ELSE gate.status,
      successful |-> successful,
      confirmedDivergences |-> gate.confirmedDivergences
                                 + (IF verdict = "confirmed-divergence" THEN 1 ELSE 0)]

\* commit_action_report, record_stream_retention and the write of the summary.
Committed == [state EXCEPT !.nextActionSeq = @ + 1, !.pendingAction = NoAction,
                           !.gate = Fold(@, pending.method, report.verdict),
                           !.retention.actions = Cardinality(Kept)]

CommitReport ==
  /\ pc = "commit" /\ Persist(Committed)
  /\ folded' = Append(folded, [seq |-> pending.reportSeq, cycle |-> pending.cycle,
                               method |-> pending.method, report |-> report])
  /\ report' = NoReport /\ pc' = IF Valid(Committed) THEN "after" ELSE "reject"
  /\ UNCHANGED <<file, temp, checkpointFiles, failures, at, crashes, reserved, posts,
                 ambiguous, uncounted, refused>>

-------------------------------------------------------------------------------
(* Faults, and time.                                                            *)

\* The process is killed between two effects, or an exception of the operating
\* system, of the store or of the evidence ends it there.
Crash ==
  /\ "crash" \in Faults /\ pc # "down" /\ crashes < MaxCrashes
  /\ Gone /\ crashes' = crashes + 1
  /\ UNCHANGED <<summary, file, temp, checkpointFiles, reserved, posts, folded, refused>>

\* It is killed while it writes the temporary report.
CrashInWrite ==
  /\ "torn" \in Faults /\ pc = "persist" /\ crashes < MaxCrashes
  /\ file[pending.reportSeq] = NoReport /\ temp[pending.reportSeq] = NoReport
  /\ temp' = [temp EXCEPT ![pending.reportSeq] = TornReport]
  /\ Gone /\ crashes' = crashes + 1
  /\ UNCHANGED <<summary, file, checkpointFiles, reserved, posts, folded, refused>>

\* A summary that does not read back as written is unlinked, and the error ends
\* the observer.
SummaryLost ==
  /\ "lost" \in Faults /\ crashes < MaxCrashes
  /\ pc \in {"after", "recover", "posted", "get", "settle", "evidence", "commit"}
  /\ summary' = NoSummary /\ Gone /\ crashes' = crashes + 1
  /\ UNCHANGED <<file, temp, checkpointFiles, reserved, posts, folded, refused>>

\* A deadline runs whether or not an observer is attached.
Running(s) == {c \in Clients : LET r == s.pendingAction.clients[c]
                               IN r.create = "succeeded" /\ r.poll # "done" /\ r.left > 0}

Later(client) == [client EXCEPT !.left = @ - 1, !.wait = Max({@ - 1, 0})]

Elapse(s) ==
  [s EXCEPT !.pendingAction.clients =
     [c \in Clients |-> IF c \in Running(s) THEN Later(@[c]) ELSE @[c]]]

Tick ==
  /\ Running(summary) \cup Running(state) # {}
  /\ summary' = Elapse(summary) /\ state' = Elapse(state)
  /\ UNCHANGED <<file, temp, checkpointFiles, report, failures, pc, at, crashes, history>>

-------------------------------------------------------------------------------

Observer ==
  \/ LoadState \/ RejectState \/ NoCheckpointDue \/ DueCheckpoint \/ PruneCheckpoint
  \/ WriteCheckpoint \/ CaptureCheckpoint \/ CheckpointFails
  \/ CheckpointRaises \/ Sleep \/ EndTurn \/ ConnectivitySkip \/ Reserve
  \/ Resume \/ RecoverCreate \/ Recovered \/ PrepareCreates \/ CreatesDone
  \/ Post \/ CompleteCreate \/ StartPolls \/ PollsStarted \/ NothingRipe
  \/ ExpirePoll \/ BeginGet \/ EndGet \/ Unsettled \/ RecordDriverCycle
  \/ MarkEvidencePending \/ LoadCandidate \/ RefuseCandidate \/ BuildReport
  \/ ReplayReport \/ DropTemporary \/ WriteTemporary
  \/ PruneReport \/ ReplaceReport \/ CommitReport

Next == Observer \/ Attach \/ Leave \/ Crash \/ CrashInWrite \/ SummaryLost \/ Tick

Spec == Init /\ [][Next]_vars

\* The observer is one thread whose requests have timeouts and whose loop only
\* sleeps for bounded times; time passes. Nothing restarts an observer that
\* left or died, and nothing makes it leave.
FairSpec == Spec /\ WF_vars(Observer) /\ WF_vars(Tick)

-------------------------------------------------------------------------------
(* Properties.                                                                  *)

ClientStates ==
  [create : {"none", "prepared", "succeeded", "failed", "skipped"},
   poll : {"none", "open", "done"}, left : 0 .. Timeout, wait : 0 .. Interval,
   counted : BOOLEAN, erred : BOOLEAN, completed : BOOLEAN]

Actions ==
  [cycle : 0 .. MaxActions, reportSeq : 0 .. MaxActions, method : Methods \cup {"none"},
   reservation : 0 .. MaxActions, clients : [Clients -> ClientStates],
   driverOutcome : BOOLEAN, evidence : BOOLEAN]

States ==
  [nextActionSeq : Nat, nextCycle : Nat, nextScheduleSlot : Nat, cycles : Nat,
   connectivitySkips : Nat, nextActionSet : BOOLEAN, pendingAction : Actions,
   checkpoints : 0 .. RetainedCheckpoints,
   retention : [actions : Nat, checkpoints : 0 .. RetainedCheckpoints],
   gate : [status : {"pending", "green", "failed"}, successful : [Methods -> Nat],
           confirmedDivergences : Nat]]

Reports == [reservation : 0 .. MaxActions, verdict : Verdicts \cup {"none", "torn"}]

Points == {"down", "attach", "reject", "due", "loop", "checkpoint", "count", "act",
           "after", "recover", "creates", "post", "posted", "polls", "poll", "get",
           "settle", "evidence", "finalize", "persist", "replace", "commit"}

\* The variables keep their types.
TypeOK ==
  /\ state \in States /\ summary \in States
  /\ file \in [1 .. MaxActions -> Reports] /\ temp \in [1 .. MaxActions -> Reports]
  /\ checkpointFiles \in 0 .. RetainedCheckpoints
  /\ report \in Reports /\ failures \in 0 .. Threshold
  /\ pc \in Points /\ at \in Clients /\ crashes \in 0 .. MaxCrashes
  /\ reserved \in 0 .. MaxActions /\ posts \in [1 .. MaxActions -> [Clients -> Nat]]
  /\ ambiguous \subseteq 1 .. MaxActions
  /\ uncounted \in BOOLEAN /\ refused \subseteq {"report", "state"}
  /\ folded \in Seq([seq : Nat, cycle : Nat, method : Methods, report : Reports])

\* "the POST will not be replayed": no client is asked twice to create the search
\* of a cycle, wherever the observer is killed and attached again.
AtMostOnePost == \A n \in 1 .. MaxActions, c \in Clients : posts[n][c] <= 1

\* Whatever the interruptions, the cycles, reports and pending action of the summary
\* on disk pass the observer's own validation.
CountsValid == summary # NoSummary => CountsAgree(summary)

\* The summary passes all of the validation, so that the next observer can load it,
\* unless an attempt at a checkpoint left one on disk that the state does not count.
SummaryValid == summary # NoSummary => \/ Valid(summary)
                                       \/ uncounted /\ CountsAgree(summary)

\* What a sequence of reports makes of the gate.
Telling(reports, verdict) == {i \in DOMAIN reports : reports[i].report.verdict = verdict}
Successes(reports, m) == Cardinality({i \in Telling(reports, "success") : reports[i].method = m})
Divergences(reports) == Cardinality(Telling(reports, "confirmed-divergence"))

GateOf(reports) ==
  [status |-> IF Divergences(reports) > 0 THEN "failed"
              ELSE IF \A m \in Methods : Successes(reports, m) >= Target THEN "green"
              ELSE "pending",
   successful |-> [m \in Methods |-> Successes(reports, m)],
   confirmedDivergences |-> Divergences(reports)]

\* The gate is folded from the reports on disk: a report kept there is the one
\* that was folded under its number, each number was folded once, and the only
\* report not folded yet is the pending action's. The gate counts each of them
\* once: it is green exactly when both methods have their successes and none of
\* the reports is a confirmed divergence, however often the observer was killed.
GateFromReports ==
  /\ \A i \in DOMAIN folded : folded[i].seq = i /\ folded[i].cycle = i
  /\ \A s \in Kept : \/ s \in DOMAIN folded /\ file[s] = folded[s].report
                     \/ s = Len(folded) + 1 /\ summary.pendingAction.reportSeq = s
  /\ summary # NoSummary => /\ summary.nextActionSeq = Len(folded) + 1
                            /\ summary.gate = GateOf(folded)

\* An action interrupted between a create's intent and its outcome never counts
\* for the parity gate, neither as a success nor as a divergence.
InterruptedNotCounted ==
  \A i \in DOMAIN folded :
    folded[i].report.reservation \in ambiguous => folded[i].report.verdict = "retryable"

\* "Advances one crash-safe synchronized search": whatever an interrupted
\* observer left behind, the next one does not refuse it, but for an uncounted
\* checkpoint.
RecoversOwnFiles == /\ "report" \notin refused
                    /\ "state" \in refused => uncounted

\* "Loads the cumulative state or creates the first state for this campaign": no
\* observer meets a state that its own validation rejects.
StateLoads == "state" \notin refused

\* An observer that stays attached brings every action to its report.
ActionSettles == <>[](pc # "down") => []<>(pc # "down" /\ ~Pending(state))
===============================================================================
