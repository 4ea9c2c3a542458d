------------------------------ MODULE MCProgress ------------------------------
(* What must eventually happen in the parts that run threads or loops of their   *)
(* own: the supervisor of a bounded process, the observer, the watcher and the   *)
(* publisher's child.  Each part is explored on its own: a behaviour is about    *)
(* the part that scope names, and the fairness is that part's.  The session's    *)
(* own progress is checked from MCSoakSession.                                   *)
EXTENDS Naturals

CONSTANT Targets        \* LowID clients

VARIABLES scope,
  child, heir, sent, piped, open, chunk, logged, pump, errors, stopFile, failure, line,
  result, sup,
  state, summary, file, temp, checkpointFiles, report, failures, point, at, crashes,
  reserved, posts, ambiguous, folded, uncounted, refused,
  run, up, ill, readable, heartbeat, turn, lastRead, sample, streaks, starts, row, lost,
  verdict,
  parent, asked, pending, request, answer, responder, command, base, wire, received,
  dialing, hellos, sends, begunAt

processVars == <<child, heir, sent, piped, open, chunk, logged, pump, errors, stopFile,
                 failure, line, result, sup>>
observerVars == <<state, summary, file, temp, checkpointFiles, report, failures, point, at,
                  crashes, reserved, posts, ambiguous, folded, uncounted, refused>>
watchVars == <<run, up, ill, readable, heartbeat, turn, lastRead, sample, streaks, starts,
               row, lost, verdict>>
callbackVars == <<parent, asked, pending, request, answer, responder, command, base, wire,
                  received, dialing, hellos, sends, begunAt>>
allVars == <<scope, processVars, observerVars, watchVars, callbackVars>>

\* No descendant of the child keeps the pipes: join has no timeout.
Process == INSTANCE BoundedProcess
  WITH MaxBytes <- 3, PipeCapacity <- 2, Inherits <- FALSE, Unstoppable <- TRUE

Observer == INSTANCE ObserverActions
  WITH Target <- 1, Timeout <- 2, Interval <- 1, Threshold <- 2, Retained <- 1,
       RetainedCheckpoints <- 2, Faults <- {"crash"}, MaxActions <- 1, MaxSkips <- 1, MaxCrashes <- 1, pc <- point

Watcher == INSTANCE WatchFindings
  WITH Faults <- {"status"}, Threshold <- 3, MaxStarts <- 1, pc <- turn

Callback == INSTANCE CallbackCommands
  WITH Faults <- {"lost", "stray"}, MaxHellos <- 4,
       open <- pending, result <- answer, child <- responder

ASSUME PartsAssumption ==
  /\ Observer!ObserverAssumption /\ Watcher!WatchAssumption /\ Callback!CallbackAssumption

ProgressInit ==
  /\ scope \in {"process", "observer", "watcher", "callback"}
  /\ Process!Init /\ Observer!Init /\ Watcher!Init /\ Callback!Init

ProgressNext ==
  \/ /\ scope = "process" /\ Process!Next
     /\ UNCHANGED <<scope, observerVars, watchVars, callbackVars>>
  \/ /\ scope = "observer" /\ Observer!Next
     /\ UNCHANGED <<scope, processVars, watchVars, callbackVars>>
  \/ /\ scope = "watcher" /\ Watcher!Next
     /\ UNCHANGED <<scope, processVars, observerVars, callbackVars>>
  \/ /\ scope = "callback" /\ Callback!Next
     /\ UNCHANGED <<scope, processVars, observerVars, watchVars>>

\* The fairness of the four specifications, each where a behaviour is about it.
ProgressFairness ==
  /\ WF_processVars(scope = "process" /\ Process!Supervisor)
  /\ \A s \in Process!Streams : WF_processVars(scope = "process" /\ Process!Pump(s))
  /\ WF_observerVars(scope = "observer" /\ Observer!Observer)
  /\ WF_observerVars(scope = "observer" /\ Observer!Tick)
  /\ WF_watchVars(scope = "watcher" /\ Watcher!WatcherStep)
  /\ WF_callbackVars(scope = "callback" /\ Callback!Child)

ProgressSpec == ProgressInit /\ [][ProgressNext]_allVars /\ ProgressFairness

-------------------------------------------------------------------------------
\* A pump that fails takes the child down, whatever the child does, and the exit of the
\* child ends the supervisor: no thread waits for ever (run_bounded_process).
SupervisorEnds == Process!LossStopsChild /\ Process!ExitEndsSupervisor

\* An observer that stays attached brings every action to its report (run_observer).
ActionSettles == Observer!ActionSettles

\* A client that stays unhealthy while the campaign runs ends the watch, unless the watcher
\* itself dies (watch_session).
UnhealthyEndsWatch == Watcher!UnhealthyEndsWatch

\* Every request is answered, with a failure if need be, unless the child is stopped
\* (_process_callback_commands).
ChildAnswers == Callback!ChildAnswers
===============================================================================
