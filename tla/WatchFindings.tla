---------------------------- MODULE WatchFindings ----------------------------
(* The decision of the health watcher: watch_session of                         *)
(* persisted_soak_controller.py with its findings, the streaks that gate the     *)
(* transient ones, the heartbeat that carries the streaks over a restart of the  *)
(* watcher, and the failure path that ends the watch.                            *)
(*                                                                               *)
(* One client stands for both: the code keeps the same findings per client.      *)
(* Findings: "status" (the sample could not be taken), "rest" and "writer"       *)
(* (unavailable) need Threshold consecutive samples; "guard" (process counts,    *)
(* VPN guard, binding, writer unhealthy) and "launcher" are immediate once the   *)
(* campaign is ready; "reported" (the launcher recorded a failure) always is.    *)
EXTENDS Naturals, FiniteSets

CONSTANTS Faults,       \* subset of FaultKinds
          Threshold,    \* CONSECUTIVE_FAILURE_THRESHOLDS
          MaxStarts     \* bound: watch commands

FaultKinds == {"crash", "status", "storage", "persist"}

WatchAssumption ==
  /\ Faults \subseteq FaultKinds /\ Threshold \in Nat \ {0} /\ MaxStarts \in Nat

VARIABLES run,         \* status of latest-run.json, this campaign's
          up,          \* is the launcher process alive?
          ill,         \* what is wrong with the client
          readable,    \* does session_status return?
          heartbeat,   \* watch-heartbeat.json
          pc,          \* the watcher's point
          lastRead,    \* the run status and launcher of last_status
          sample,      \* latest, with its annotation
          streaks,     \* finding_streaks
          starts,      \* history: watch commands so far
          row,         \* history: consecutive samples with a gated finding
          lost,        \* history: consecutive samples without a status while running
          verdict      \* history: terminal findings the watch failed on

vars == <<run, up, ill, readable, heartbeat, pc, lastRead, sample, streaks, starts, row, lost,
          verdict>>
world == <<run, up, ill, readable>>

Gated == {"status", "rest", "writer"}
Immediate == {"guard", "launcher"}
Ended == {"stopped", "failed"}
Points == {"down", "top", "append", "heartbeat", "decide", "failing", "stopping"} \cup Ended

Zero == [f \in Gated |-> 0]
NotRead == [run |-> "none", up |-> TRUE]
NoSample == [findings |-> {}, run |-> "none", up |-> TRUE, ok |-> TRUE, terminal |-> {}]

\* The heartbeat of an earlier campaign is still on disk.
OldHeartbeat == [campaign |-> "earlier", shutdown |-> FALSE,
                 streaks |-> [f \in Gated |-> Threshold - 1]]

Init ==
  /\ run = "starting" /\ up = TRUE /\ ill = {} /\ readable = TRUE
  /\ heartbeat = OldHeartbeat /\ pc = "down" /\ lastRead = NotRead /\ sample = NoSample
  /\ streaks = Zero /\ starts = 0 /\ row = Zero /\ lost = 0 /\ verdict = {}

-------------------------------------------------------------------------------
(* The campaign the watcher looks at.                                            *)

RunChanges ==
  /\ up
  /\ \/ run = "starting" /\ run' = "running" /\ up' = TRUE
     \/ run \in {"starting", "running"} /\ run' = "failed" /\ up' \in BOOLEAN
     \/ UNCHANGED run /\ up' = FALSE
  /\ UNCHANGED <<ill, readable, heartbeat, pc, lastRead, sample, streaks, starts, row, lost,
                 verdict>>

HealthChanges ==
  /\ \E x \in {"rest", "writer", "guard"} : ill' = IF x \in ill THEN ill \ {x} ELSE ill \cup {x}
  /\ UNCHANGED <<run, up, readable, heartbeat, pc, lastRead, sample, streaks, starts, row, lost,
                 verdict>>

ReadabilityChanges ==
  /\ "status" \in Faults /\ readable' = ~readable
  /\ UNCHANGED <<run, up, ill, heartbeat, pc, lastRead, sample, streaks, starts, row, lost,
                 verdict>>

-------------------------------------------------------------------------------
(* Pure parts.                                                                   *)

\* An unhealthy REST answer hides the guard; the writer is asked only when running.
StatusFindings ==
  {f \in {"launcher", "rest", "guard", "writer", "reported"} :
     \/ f = "launcher" /\ ~up
     \/ f = "rest" /\ "rest" \in ill
     \/ f = "guard" /\ "guard" \in ill /\ "rest" \notin ill
     \/ f = "writer" /\ "writer" \in ill /\ run = "running"
     \/ f = "reported" /\ run = "failed"}

PostReadiness(s) == s.run = "running"

Advance(old, s) ==
  [f \in Gated |-> IF f \in s.findings /\ PostReadiness(s) THEN old[f] + 1 ELSE 0]

Terminal(s, new) ==
  (s.findings \cap {"reported"})
    \cup (IF PostReadiness(s)
          THEN (s.findings \cap Immediate) \cup {f \in Gated : new[f] >= Threshold}
          ELSE {})

Smaller(a, b) == IF a <= b THEN a ELSE b

RestoredOfAny(h) == [f \in Gated |-> Smaller(h.streaks[f], Threshold)]
Restored(h) ==
  IF h.campaign = "this" /\ ~h.shutdown
  THEN [f \in Gated |-> Smaller(h.streaks[f], Threshold)] ELSE Zero

\* build_watch_sample, from a status that was read, from the last one or from the placeholder.
SampleOf(read, storageOk) ==
  [findings |-> IF readable THEN StatusFindings ELSE {"status"},
   run |-> read.run, up |-> read.up, ok |-> storageOk, terminal |-> {}]

Record ==
  /\ row' = [f \in Gated |->
               IF PostReadiness(sample) /\ f \in sample.findings
               THEN row[f] + 1 ELSE 0]
  /\ lost' = IF "status" \in sample.findings /\ run = "running"
             THEN Smaller(lost + 1, Threshold + 1) ELSE 0

-------------------------------------------------------------------------------
(* The watcher.                                                                  *)

WatchSession ==
  /\ pc \in {"down"} \cup Ended /\ starts < MaxStarts
  /\ pc' = "top" /\ starts' = starts + 1 /\ lastRead' = NotRead
  /\ streaks' = Restored(heartbeat)
  /\ row' = IF heartbeat.shutdown THEN Zero ELSE row
  /\ lost' = 0 /\ verdict' = {}
  /\ UNCHANGED <<world, heartbeat, sample>>

\* No manifest, storage context or heartbeat: one last sample, with streaks of its own, then
\* the failure path.
WatchContextRaises ==
  /\ "storage" \in Faults /\ pc \in {"down"} \cup Ended /\ starts < MaxStarts
  /\ pc' = "failing" /\ starts' = starts + 1 /\ lastRead' = NotRead
  /\ LET s == SampleOf(IF readable THEN [run |-> run, up |-> up] ELSE NotRead, FALSE)
         new == Advance(Zero, s)
     IN /\ streaks' = new /\ sample' = [s EXCEPT !.terminal = Terminal(s, new)]
        /\ verdict' = Terminal(s, new) /\ row' = new /\ lost' = 0
  /\ UNCHANGED <<world, heartbeat>>

SeeStopFile ==
  /\ pc = "top" /\ pc' = "stopped"
  /\ UNCHANGED <<world, heartbeat, lastRead, sample, streaks, starts, row, lost, verdict>>

TakeSample ==
  /\ pc = "top" /\ pc' = "append"
  /\ LET read == IF readable THEN [run |-> run, up |-> up]
                 ELSE IF lastRead # NotRead THEN lastRead ELSE [run |-> "running", up |-> TRUE]
     IN \E storageOk \in {TRUE} \cup (IF "storage" \in Faults THEN {FALSE} ELSE {}) :
          LET s == SampleOf(read, storageOk)
              new == Advance(streaks, s)
          IN /\ streaks' = new
             /\ sample' = [s EXCEPT !.terminal = Terminal(s, new)]
  /\ lastRead' = IF readable THEN [run |-> run, up |-> up] ELSE lastRead
  /\ UNCHANGED <<world, heartbeat, starts, row, lost, verdict>>

AppendJsonl ==
  /\ pc = "append" /\ pc' = "heartbeat" /\ Record
  /\ UNCHANGED <<world, heartbeat, lastRead, sample, streaks, starts, verdict>>

Beat(shutdown) == [campaign |-> "this", shutdown |-> shutdown, streaks |-> streaks]

WriteHeartbeat ==
  /\ pc = "heartbeat" /\ pc' = "decide" /\ heartbeat' = Beat(FALSE)
  /\ UNCHANGED <<world, lastRead, sample, streaks, starts, row, lost, verdict>>

\* A sink that raises makes the sample a storage failure, its annotation kept.
PersistRaises ==
  /\ "persist" \in Faults /\ pc \in {"append", "heartbeat"} /\ pc' = "failing"
  /\ IF pc = "append" THEN Record ELSE UNCHANGED <<row, lost>>
  /\ sample' = [sample EXCEPT !.ok = FALSE] /\ verdict' = sample.terminal
  /\ UNCHANGED <<world, heartbeat, lastRead, streaks, starts>>

Decide ==
  /\ pc = "decide"
  /\ pc' = IF ~sample.ok \/ sample.terminal # {} THEN "stopping"
           ELSE IF ~sample.up THEN "stopped" ELSE "top"
  /\ verdict' = IF pc' = "stopping" THEN sample.terminal ELSE {}
  /\ UNCHANGED <<world, heartbeat, lastRead, sample, streaks, starts, row, lost>>

\* persist_terminal_watch_sample goes on when a sink raises.
PersistTerminal ==
  /\ pc = "failing" /\ pc' = "stopping"
  /\ heartbeat' \in {Beat(FALSE)} \cup (IF "persist" \in Faults THEN {heartbeat} ELSE {})
  /\ UNCHANGED <<world, lastRead, sample, streaks, starts, row, lost, verdict>>

\* request_watch_failure_stop, verified or not, and the terminal sample after it.
FinishWaitsForExit ==
  /\ pc = "stopping" /\ ~up /\ pc' = "failed" /\ heartbeat' = Beat(TRUE)
  /\ UNCHANGED <<world, lastRead, sample, streaks, starts, row, lost, verdict>>
FinishWatchFailure ==
  /\ pc = "stopping" /\ pc' = "failed" /\ up' \in {up, FALSE}
  /\ heartbeat' \in {Beat(TRUE)} \cup (IF "persist" \in Faults THEN {heartbeat} ELSE {})
  /\ UNCHANGED <<run, ill, readable, lastRead, sample, streaks, starts, row, lost, verdict>>

Crash ==
  /\ "crash" \in Faults /\ pc \notin {"down"} \cup Ended /\ pc' = "down"
  /\ UNCHANGED <<world, heartbeat, lastRead, sample, streaks, starts, row, lost, verdict>>

WatcherStep ==
  \/ TakeSample \/ AppendJsonl \/ WriteHeartbeat \/ PersistRaises \/ Decide \/ PersistTerminal
  \/ FinishWatchFailure

Next ==
  \/ RunChanges \/ HealthChanges \/ ReadabilityChanges
  \/ WatchSession \/ WatchContextRaises \/ SeeStopFile \/ WatcherStep \/ Crash

Spec == Init /\ [][Next]_vars

\* The watcher is a running process and its interval is finite; nothing else is assumed.
FairSpec == Spec /\ WF_vars(WatcherStep)

-------------------------------------------------------------------------------
(* Every variable has its type; a streak never passes the threshold by more than *)
(* the one sample that ends the watch, over any number of restarts.              *)
TypeOK ==
  /\ run \in {"starting", "running", "failed"} /\ up \in BOOLEAN /\ readable \in BOOLEAN
  /\ ill \subseteq {"rest", "writer", "guard"}
  /\ heartbeat \in [campaign : {"earlier", "this"}, shutdown : BOOLEAN,
                    streaks : [Gated -> 0..(Threshold + 1)]]
  /\ pc \in Points /\ streaks \in [Gated -> 0..(Threshold + 1)]
  /\ lastRead \in [run : {"none", "starting", "running", "failed"}, up : BOOLEAN]
  /\ sample.findings \subseteq (Gated \cup Immediate \cup {"reported"})
  /\ starts \in 0..MaxStarts /\ row \in [Gated -> 0..(Threshold + MaxStarts)]
  /\ lost \in 0..(Threshold + 1)
  /\ verdict \subseteq (Gated \cup Immediate \cup {"reported"})

\* A watch fails on a transient finding only after Threshold consecutive samples of the
\* campaign that have it, whatever an earlier campaign's heartbeat says and across watch
\* commands that follow each other (restored_finding_streaks, terminal_watch_findings).
TransientTolerated == \A f \in verdict \cap Gated : row[f] >= Threshold

\* A gated finding that is in every sample ends the watch at the threshold; each restart of
\* the watcher puts the end off by at most one sample.
PersistentStops == \A f \in Gated : row[f] < Threshold + starts

\* A client that stays unhealthy while the campaign runs ends the watch, unless the watcher
\* itself dies.
UnhealthyEndsWatch ==
  \A f \in {"rest", "writer"} :
    <>[](f \in ill /\ readable /\ up /\ run = "running" /\ pc # "down") => <>(pc \in Ended)

(* Promises of the documentation that the code breaks (README, Disagreements).  *)

\* Lost samples of a running campaign are gated like the other transient findings.
StatusLossGated == lost <= Threshold
===============================================================================
