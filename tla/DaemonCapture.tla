------------------------------ MODULE DaemonCapture ------------------------------
(* The Rust daemon's output while the launcher runs: AsyncBinaryCapture of     *)
(* bounded_process_output.py drains the daemon's pipe in a thread of its own   *)
(* and stops the daemon when the log fails; launch-soak.py looks at the        *)
(* capture while it brings the daemon up, in every turn of its main loop and   *)
(* in its teardown.                                                            *)
(*                                                                             *)
(* The stream is the number of bytes that entered it.                          *)
EXTENDS Naturals

CONSTANTS MaxBytes,        \* bound: bytes the daemon sends
          PipeCapacity,    \* bytes the pipe holds
          Triggers,        \* values of --rust-shutdown-trigger
          SlowDrain        \* may close time out before the thread is through?

CaptureAssumption ==
  /\ MaxBytes \in Nat /\ PipeCapacity \in Nat \ {0}
  /\ Triggers \subseteq {"rest", "ctrl-c"} /\ SlowDrain \in BOOLEAN

VARIABLES daemon,        \* is the daemon alive?
          sent, piped, chunk, logged,   \* bytes, as in BoundedProcess
          thread,        \* point of the capture thread
          failed,        \* _failure is set
          stopFile, trigger,
          status, outputError,          \* what the launcher records
          main           \* point of the launcher

Over == main \in {"finished", "interrupted"}

capture == <<chunk, logged, thread, failed>>
vars == <<daemon, sent, piped, capture, stopFile, trigger, status, outputError, main>>

-------------------------------------------------------------------------------
(* External: the daemon writes and may exit; the session asks for a stop.      *)

DaemonWrites ==
  /\ daemon /\ ~Over /\ piped < PipeCapacity /\ sent < MaxBytes
  /\ sent' = sent + 1 /\ piped' = piped + 1
  /\ UNCHANGED <<daemon, capture, stopFile, trigger, status, outputError, main>>

DaemonExits ==
  /\ daemon /\ daemon' = FALSE
  /\ UNCHANGED <<sent, piped, capture, stopFile, trigger, status, outputError, main>>

StopRequested ==
  /\ ~stopFile /\ stopFile' = TRUE
  /\ UNCHANGED <<daemon, sent, piped, capture, trigger, status, outputError, main>>

-------------------------------------------------------------------------------
(* The capture thread.                                                         *)

ReadChunk ==
  /\ thread = "read" /\ piped > 0
  /\ \E n \in 1 .. piped : chunk' = n /\ piped' = piped - n
  /\ thread' = "write"
  /\ UNCHANGED <<daemon, sent, logged, failed, stopFile, trigger, status, outputError, main>>

ReadEnd ==
  /\ thread = "read" /\ piped = 0 /\ ~daemon
  /\ thread' = "ended"
  /\ UNCHANGED <<daemon, sent, piped, chunk, logged, failed, stopFile, trigger, status, outputError, main>>

LogChunk ==
  /\ thread = "write"
  /\ logged' = logged + chunk /\ chunk' = 0 /\ thread' = "read"
  /\ UNCHANGED <<daemon, sent, piped, failed, stopFile, trigger, status, outputError, main>>

SinkFails ==
  /\ thread = "write"
  /\ \E n \in 0 .. chunk - 1 : logged' = logged + n
  /\ failed' = TRUE /\ thread' = "stop"
  /\ UNCHANGED <<daemon, sent, piped, chunk, stopFile, trigger, status, outputError, main>>

(* stop_process, then the finally clause.                                      *)
StopDaemon ==
  /\ thread = "stop"
  /\ daemon' = FALSE /\ thread' = "ended"
  /\ UNCHANGED <<sent, piped, chunk, logged, failed, stopFile, trigger, status, outputError, main>>

-------------------------------------------------------------------------------
(* The launcher: bring_up_rust, the main loop, graceful_teardown, the record.  *)

StartCapture ==
  /\ main = "start"
  /\ daemon' = TRUE /\ thread' = "read" /\ main' = "bringUp"
  /\ UNCHANGED <<sent, piped, chunk, logged, failed, stopFile, trigger, status, outputError>>

(* checked_stats raises for a failed capture; anything else of the bring-up    *)
(* may raise too.  The handler stops the daemon and closes the capture.        *)
BringUpFails ==
  /\ main = "bringUp"
  /\ daemon' = FALSE /\ status' = "failed" /\ main' = "abort"
  /\ UNCHANGED <<sent, piped, capture, stopFile, trigger, outputError>>

(* KeyboardInterrupt passes the handler by, and main never learns of the       *)
(* daemon: it records the run as stopped and leaves daemon and capture alone.  *)
BringUpInterrupted ==
  /\ main = "bringUp"
  /\ main' = "interrupted"
  /\ UNCHANGED <<daemon, sent, piped, capture, stopFile, trigger, status, outputError>>

AbortCloses ==
  /\ main = "abort" /\ (thread = "ended" \/ SlowDrain)
  /\ main' = "finished"
  /\ UNCHANGED <<daemon, sent, piped, capture, stopFile, trigger, status, outputError>>

(* The last raise_if_failed of bring_up_rust is past the handler: the launcher *)
(* has no handle of the daemon, and its teardown nothing to stop.              *)
BringUpDone ==
  /\ main = "bringUp"
  /\ IF failed THEN status' = "failed" /\ main' = "finished"
               ELSE UNCHANGED status /\ main' = "check"
  /\ UNCHANGED <<daemon, sent, piped, capture, stopFile, trigger, outputError>>

(* raise_rust_output_failure, at the top of the loop.                          *)
CheckCapture ==
  /\ main = "check"
  /\ IF failed THEN status' = "failed" /\ main' = "teardown"
               ELSE UNCHANGED status /\ main' = "poll"
  /\ UNCHANGED <<daemon, sent, piped, capture, stopFile, trigger, outputError>>

(* The daemon's exit, the stop file, the deadlines; Ctrl-C keeps the initial   *)
(* status, and a periodic bundle capture or the MFC client may raise.          *)
PollDaemon ==
  /\ main = "poll"
  /\ \/ ~daemon /\ status' = "rust-exited" /\ main' = "teardown"
     \/ daemon /\ stopFile /\ status' = "stop-requested" /\ main' = "teardown"
     \/ daemon /\ ~stopFile /\ status' \in {"stopped", "duration-complete", "failed"} /\ main' = "teardown"
     \/ daemon /\ ~stopFile /\ UNCHANGED status /\ main' = "check"
  /\ UNCHANGED <<daemon, sent, piped, capture, stopFile, trigger, outputError>>

(* A live daemon gives a last bundle, which may fail; graceful_teardown asks   *)
(* the daemon to stop, waits, and kills it.                                    *)
TeardownStops ==
  /\ main = "teardown"
  /\ status' \in {status} \cup (IF daemon THEN {"failed"} ELSE {})
  /\ daemon' = FALSE /\ main' = "close"
  /\ UNCHANGED <<sent, piped, capture, stopFile, trigger, outputError>>

CloseUnchecked ==
  /\ main = "close" /\ (thread = "ended" \/ SlowDrain)
  /\ outputError' = (thread # "ended") /\ main' = "record"
  /\ UNCHANGED <<daemon, sent, piped, capture, stopFile, trigger, status>>

(* close joins the thread, raising on a timeout; then raise_if_failed.         *)
CloseCapture ==
  /\ main = "close" /\ (thread = "ended" \/ SlowDrain)
  /\ outputError' = (failed \/ thread # "ended") /\ main' = "record"
  /\ UNCHANGED <<daemon, sent, piped, capture, stopFile, trigger, status>>

(* An unclean shutdown fails the run only when it was triggered by Ctrl-C; a   *)
(* shutdown may be unclean for other reasons than the output, and the restore  *)
(* of the profile may fail.                                                    *)
Record ==
  /\ main = "record"
  /\ status' \in IF trigger = "ctrl-c" /\ outputError THEN {"failed"} ELSE {status, "failed"}
  /\ main' = "finished"
  /\ UNCHANGED <<daemon, sent, piped, capture, stopFile, trigger, outputError>>

-------------------------------------------------------------------------------
Init ==
  /\ daemon = FALSE /\ sent = 0 /\ piped = 0 /\ chunk = 0 /\ logged = 0
  /\ thread = "idle" /\ failed = FALSE /\ stopFile = FALSE /\ trigger \in Triggers
  /\ status = "stopped" /\ outputError = FALSE /\ main = "start"

(* A daemon thread of Python: it ends with the launcher.                       *)
CaptureThread ==
  /\ ~Over
  /\ ReadChunk \/ ReadEnd \/ LogChunk \/ SinkFails \/ StopDaemon

Launcher ==
  \/ StartCapture \/ BringUpFails \/ BringUpInterrupted \/ AbortCloses \/ BringUpDone
  \/ CheckCapture \/ PollDaemon \/ TeardownStops \/ CloseCapture \/ Record

Next == DaemonWrites \/ DaemonExits \/ StopRequested \/ CaptureThread \/ Launcher

Spec == Init /\ [][Next]_vars

-------------------------------------------------------------------------------
Lost == logged # sent

(* Types: the log never holds more than was sent.                              *)
TypeOK ==
  /\ daemon \in BOOLEAN /\ failed \in BOOLEAN /\ stopFile \in BOOLEAN
  /\ sent \in 0 .. MaxBytes /\ piped \in 0 .. PipeCapacity
  /\ chunk \in 0 .. PipeCapacity /\ logged \in 0 .. MaxBytes
  /\ thread \in {"idle", "read", "write", "stop", "ended"}
  /\ trigger \in Triggers /\ outputError \in BOOLEAN
  /\ status \in {"stopped", "failed", "rust-exited", "stop-requested", "duration-complete"}
  /\ main \in {"start", "bringUp", "abort", "check", "poll", "teardown", "close",
               "record", "finished", "interrupted"}

(* "Output integrity participates in teardown health" (launch-soak.py): when a *)
(* byte the daemon sent is not in its log, the finished run says so, however   *)
(* late the sink failed and whoever stopped the daemon.  A run interrupted in  *)
(* bring_up_rust has no capture to ask (LossNeverSilent).                      *)
LossRecorded == main = "finished" /\ Lost => status = "failed" \/ outputError

(* Promises of the documentation that the code breaks (README, Disagreements).  *)

(* raise_rust_output_failure "fails the launch loop when asynchronous Rust     *)
(* output capture failed": a run that lost output has failed.                  *)
LossFailsRun == main = "finished" /\ failed => status = "failed"

(* The same of every run that is over: what the sink failed to log does not    *)
(* pass for a run that was stopped.                                            *)
LossNeverSilent == Over /\ failed => status = "failed" \/ outputError

(* graceful_teardown "stops everything the launcher started": no daemon        *)
(* outlives the launcher.                                                      *)
DaemonStopped == Over => ~daemon
==================================================================================
