----------------------------- MODULE BoundedProcess -----------------------------
(* run_bounded_process of bounded_process_output.py: a supervisor, the child   *)
(* it runs, two threads that pump the child's streams into rotating logs, and  *)
(* a process started by the child that may have inherited both streams.  A     *)
(* sink may fail at any write; the supervisor must then stop the child and     *)
(* must not report the child's own exit code.                                  *)
(*                                                                             *)
(* A stream is the number of bytes that entered it; the logs themselves are    *)
(* module RotatingLog.                                                         *)
EXTENDS Naturals

CONSTANTS MaxBytes,       \* bound: bytes each stream carries
          PipeCapacity,   \* bytes a pipe holds
          Inherits,       \* may a descendant hold the streams?
          Unstoppable     \* may a kill not take effect within its timeouts?

ASSUME ProcessAssumption ==
  /\ MaxBytes \in Nat /\ PipeCapacity \in Nat \ {0}
  /\ Inherits \in BOOLEAN /\ Unstoppable \in BOOLEAN

Streams == {"out", "err"}

VARIABLES child, heir,   \* is the child, the descendant, alive?
          sent,          \* bytes written into each pipe
          piped,         \* bytes still in it
          open,          \* is the read end open?
          chunk,         \* bytes a pump has read and not yet logged
          logged,        \* bytes a pump has logged
          pump,          \* point of each pump thread
          errors,        \* length of the queue of pump failures
          stopFile,      \* the stop files were touched
          failure,       \* the supervisor's local
          line,          \* the supervisor's own line is in the stderr log
          result,        \* what run_bounded_process returned
          sup            \* point of the supervisor

world == <<child, heir, sent>>
pumps == <<chunk, logged, pump, errors, open>>
vars == <<world, piped, pumps, stopFile, failure, line, result, sup>>

Alive == child \/ heir

-------------------------------------------------------------------------------
(* External: the child and its descendant.  A write to a pipe whose read end   *)
(* is closed fails and leaves nothing behind; a full pipe blocks the writer.   *)

Write(s) ==
  /\ Alive /\ open[s] /\ piped[s] < PipeCapacity /\ sent[s] < MaxBytes
  /\ sent' = [sent EXCEPT ![s] = @ + 1]
  /\ piped' = [piped EXCEPT ![s] = @ + 1]
  /\ UNCHANGED <<child, heir, pumps, stopFile, failure, line, result, sup>>

ChildExits ==
  /\ child /\ child' = FALSE
  /\ UNCHANGED <<heir, sent, piped, pumps, stopFile, failure, line, result, sup>>

HeirExits ==
  /\ heir /\ heir' = FALSE
  /\ UNCHANGED <<child, sent, piped, pumps, stopFile, failure, line, result, sup>>

-------------------------------------------------------------------------------
(* _pump_stream, one thread for each stream.                                   *)

ReadChunk(s) ==
  /\ pump[s] = "read" /\ piped[s] > 0
  /\ \E n \in 1 .. piped[s] :
       /\ chunk' = [chunk EXCEPT ![s] = n]
       /\ piped' = [piped EXCEPT ![s] = @ - n]
  /\ pump' = [pump EXCEPT ![s] = "write"]
  /\ UNCHANGED <<world, logged, errors, open, stopFile, failure, line, result, sup>>

ReadEnd(s) ==
  /\ pump[s] = "read" /\ piped[s] = 0 /\ ~Alive
  /\ pump' = [pump EXCEPT ![s] = "ended"]
  /\ open' = [open EXCEPT ![s] = FALSE]
  /\ UNCHANGED <<world, piped, chunk, logged, errors, stopFile, failure, line, result, sup>>

LogChunk(s) ==
  /\ pump[s] = "write"
  /\ logged' = [logged EXCEPT ![s] = @ + chunk[s]]
  /\ chunk' = [chunk EXCEPT ![s] = 0]
  /\ pump' = [pump EXCEPT ![s] = "read"]
  /\ UNCHANGED <<world, piped, errors, open, stopFile, failure, line, result, sup>>

(* sink.write raises, perhaps after a part of the chunk: the failure is queued *)
(* and the read end is closed.                                                 *)
PumpFails(s) ==
  /\ pump[s] = "write"
  /\ \E n \in 0 .. chunk[s] - 1 : logged' = [logged EXCEPT ![s] = @ + n]
  /\ errors' = errors + 1
  /\ pump' = [pump EXCEPT ![s] = "ended"]
  /\ open' = [open EXCEPT ![s] = FALSE]
  /\ UNCHANGED <<world, piped, chunk, stopFile, failure, line, result, sup>>

(* source.read raises.                                                         *)
ReadFails(s) ==
  /\ pump[s] = "read"
  /\ errors' = errors + 1
  /\ pump' = [pump EXCEPT ![s] = "ended"]
  /\ open' = [open EXCEPT ![s] = FALSE]
  /\ UNCHANGED <<world, piped, chunk, logged, stopFile, failure, line, result, sup>>

-------------------------------------------------------------------------------
(* The supervisor.                                                             *)

Supervise(label) == sup = label
Go(label) == sup' = label /\ UNCHANGED <<stopFile, failure, line, result, errors>>

Spawn ==
  /\ Supervise("spawn")
  /\ child' = TRUE /\ heir' \in {FALSE, Inherits}
  /\ pump' = [s \in Streams |-> "read"] /\ open' = [s \in Streams |-> TRUE]
  /\ Go("poll")
  /\ UNCHANGED <<sent, piped, chunk, logged>>

SpawnFails ==
  /\ Supervise("spawn")
  /\ line' = TRUE /\ result' = "failed" /\ sup' = "done"
  /\ UNCHANGED <<world, piped, pumps, stopFile, failure>>

Poll ==
  /\ Supervise("poll")
  /\ Go(IF child THEN "errors" ELSE "joinOut")
  /\ UNCHANGED <<world, piped, chunk, logged, pump, open>>

(* errors.get_nowait() *)
TakeError ==
  /\ Supervise("errors")
  /\ IF errors > 0 THEN errors' = errors - 1 /\ failure' = TRUE /\ sup' = "request"
                   ELSE UNCHANGED <<errors, failure>> /\ sup' = "poll"
  /\ UNCHANGED <<world, piped, chunk, logged, pump, open, stopFile, line, result>>

RequestStopOnly ==
  /\ Supervise("request")
  /\ stopFile' \in BOOLEAN /\ sup' = "joinOut"
  /\ UNCHANGED <<world, piped, pumps, failure, line, result>>

(* _request_stop: a stop file that cannot be touched is skipped.               *)
RequestStop ==
  /\ Supervise("request")
  /\ stopFile' \in BOOLEAN /\ sup' = "grace"
  /\ UNCHANGED <<world, piped, pumps, failure, line, result>>

(* process.wait(timeout=graceful_timeout_seconds)                              *)
Grace ==
  /\ Supervise("grace")
  /\ sup' \in IF child THEN {"force"} ELSE {"joinOut"}
  /\ UNCHANGED <<world, piped, pumps, stopFile, failure, line, result>>

(* _force_stop: the tree by its exact identity, else the child alone.          *)
ForceStop ==
  /\ Supervise("force")
  /\ child' = FALSE /\ (heir' = heir \/ (child /\ heir' = FALSE))
  /\ Go("joinOut")
  /\ UNCHANGED <<sent, piped, chunk, logged, pump, open>>

(* The second wait times out and its exception leaves run_bounded_process.     *)
ForceStopRaises ==
  /\ Supervise("force") /\ child /\ Unstoppable
  /\ result' = "raised" /\ sup' = "done"
  /\ UNCHANGED <<world, piped, pumps, stopFile, failure, line>>

JoinOut ==
  /\ Supervise("joinOut") /\ pump["out"] = "ended"
  /\ Go("joinErr")
  /\ UNCHANGED <<world, piped, chunk, logged, pump, open>>

JoinErrSkipped ==
  /\ Supervise("joinErr")
  /\ Go("collect")
  /\ UNCHANGED <<world, piped, chunk, logged, pump, open>>

JoinErr ==
  /\ Supervise("joinErr") /\ pump["err"] = "ended"
  /\ Go("collect")
  /\ UNCHANGED <<world, piped, chunk, logged, pump, open>>

CollectNothing ==
  /\ Supervise("collect")
  /\ line' \in {FALSE, failure} /\ sup' = "done"
  /\ result' = IF failure THEN "failed" ELSE "child"
  /\ UNCHANGED <<world, piped, pumps, stopFile, failure>>

(* A failure still in the queue counts; its line may not reach a failing log.  *)
Collect ==
  /\ Supervise("collect")
  /\ failure' = (failure \/ errors > 0)
  /\ errors' = IF ~failure /\ errors > 0 THEN errors - 1 ELSE errors
  /\ line' \in {FALSE, failure'} /\ sup' = "done"
  /\ result' = IF failure' THEN "failed" ELSE "child"
  /\ UNCHANGED <<world, piped, chunk, logged, pump, open, stopFile>>

-------------------------------------------------------------------------------
Init ==
  /\ child = FALSE /\ heir = FALSE
  /\ sent = [s \in Streams |-> 0] /\ piped = [s \in Streams |-> 0]
  /\ open = [s \in Streams |-> FALSE] /\ chunk = [s \in Streams |-> 0]
  /\ logged = [s \in Streams |-> 0] /\ pump = [s \in Streams |-> "idle"]
  /\ errors = 0 /\ stopFile = FALSE /\ failure = FALSE /\ line = FALSE
  /\ result = "none" /\ sup = "spawn"

Pump(s) == ReadChunk(s) \/ ReadEnd(s) \/ LogChunk(s) \/ PumpFails(s)

Supervisor ==
  \/ Spawn \/ SpawnFails \/ Poll \/ TakeError \/ RequestStop \/ Grace
  \/ ForceStop \/ ForceStopRaises \/ JoinOut \/ JoinErr \/ Collect

Next ==
  \/ \E s \in Streams : Write(s) \/ Pump(s) \/ ReadFails(s)
  \/ ChildExits \/ HeirExits \/ Supervisor

Spec == Init /\ [][Next]_vars

(* Threads and the supervisor run; nothing is assumed of the child.            *)
FairSpec == Spec /\ WF_vars(Supervisor) /\ \A s \in Streams : WF_vars(Pump(s))

-------------------------------------------------------------------------------
(* Types: no get_nowait of the supervisor finds the queue empty.               *)
TypeOK ==
  /\ child \in BOOLEAN /\ heir \in BOOLEAN
  /\ sent \in [Streams -> Nat] /\ piped \in [Streams -> Nat]
  /\ chunk \in [Streams -> Nat] /\ logged \in [Streams -> Nat]
  /\ open \in [Streams -> BOOLEAN]
  /\ pump \in [Streams -> {"idle", "read", "write", "ended"}]
  /\ errors \in Nat /\ stopFile \in BOOLEAN /\ failure \in BOOLEAN /\ line \in BOOLEAN
  /\ result \in {"none", "child", "failed", "raised"}
  /\ sup \in {"spawn", "poll", "errors", "request", "grace", "force",
              "joinOut", "joinErr", "collect", "done"}

(* run_bounded_process "fails closed if bounded output cannot be preserved":   *)
(* it returns the child's exit code only when every byte that the child or its *)
(* descendant sent is in a log, also when a pump fails after the child's exit. *)
FailClosed ==
  result = "child" => ~Alive /\ \A s \in Streams : logged[s] = sent[s]

(* The supervisor's line about a failure comes after the last byte that the    *)
(* pump appends to the same log: no thread still uses it.                      *)
LineAfterOutput == line => pump["err"] \in {"idle", "ended"}

(* A pump that fails takes the child down: the supervisor ends with a failure, *)
(* whatever the child does.                                                    *)
LossStopsChild == (errors > 0) ~> (result \in {"failed", "raised"})

(* The exit of the child ends the supervisor: no thread waits for ever.        *)
ExitEndsSupervisor == (sup = "poll" /\ ~child) ~> (sup = "done")
================================================================================
