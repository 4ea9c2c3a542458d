--------------------------- MODULE CallbackCommands ---------------------------
(* The server-callback scenario: the parent asks the publisher in its container,    *)
(* by one request file per target, to have the server call a LowID client back; the  *)
(* child (_process_callback_commands of docker_ed2k_source_publisher.py) sends the   *)
(* request over its server session and waits for the next HELLO its listener thread  *)
(* sees; the parent joins the results with both clients' diagnostics                 *)
(* (server_callback_diagnostic_evidence.py).                                         *)
(*                                                                                   *)
(* A command is named by its target: the parent asks each target once, in turn.      *)
EXTENDS Naturals, Sequences, FiniteSets

CONSTANTS Targets,       \* the two LowID clients
          Faults,        \* subset of {"lost", "duplicate", "stray"}
          MaxHellos      \* bound: connections to the listener

CallbackAssumption ==
  /\ Faults \subseteq {"lost", "duplicate", "stray"} /\ MaxHellos \in Nat \ {0}
  /\ "server" \notin Targets /\ "none" \notin Targets

VARIABLES parent,     \* the parent's point
          asked,      \* targets the parent has asked so far; the last one is open
          open,       \* target of the open request, or "none"
          request,    \* request files
          result,     \* result files
          child,      \* the child's point
          command,    \* the command the child executes
          base,       \* observation_index of that command
          wire,       \* callback requests on their way from the child to the clients
          received,   \* per client: CALLBACKREQUESTED frames received and applied
          dialing,    \* connections on their way to the listener
          hellos,     \* _observations: who said HELLO, provoked by which request
          sends,      \* history: requests sent per target
          begunAt     \* history: observations there were when a command was taken up

vars == <<parent, asked, open, request, result, child, command, base, wire, received, dialing,
          hellos, sends, begunAt>>
network == <<wire, received, dialing, hellos>>
files == <<request, result>>
parentVars == <<parent, asked, open>>
childVars == <<child, command, base>>
history == <<sends, begunAt>>

NoResult == [status |-> "none", peer |-> "none", cause |-> "none", at |-> 0]
Failed == [NoResult EXCEPT !.status = "failed"]

\* The server's own identity probe at login is the first observation.
Init ==
  /\ parent = "next" /\ asked = {} /\ open = "none"
  /\ request = {} /\ result = [c \in Targets |-> NoResult]
  /\ child = "poll" /\ command = "none" /\ base = 0
  /\ wire = [c \in Targets |-> 0] /\ received = [c \in Targets |-> 0]
  /\ dialing = {} /\ hellos = <<[peer |-> "server", cause |-> "none"]>>
  /\ sends = [c \in Targets |-> 0] /\ begunAt = [c \in Targets |-> 0]

-------------------------------------------------------------------------------
(* The parent: request_callback for each target, then the join.                  *)

WriteRequest ==
  /\ parent = "next"
  /\ \E c \in Targets \ asked :
       asked' = asked \cup {c} /\ open' = c /\ request' = request \cup {c}
  /\ parent' = "wait"
  /\ UNCHANGED <<result, childVars, network, history>>

ReadResult ==
  /\ parent = "wait" /\ result[open].status # "none"
  /\ parent' = IF result[open].status # "completed" THEN "raised"
               ELSE IF asked = Targets THEN "join" ELSE "next"
  /\ open' = "none" /\ UNCHANGED <<asked, files, childVars, network, history>>

ResultTimeout ==
  /\ parent = "wait" /\ result[open].status = "none" /\ parent' = "raised" /\ open' = "none"
  /\ UNCHANGED <<asked, files, childVars, network, history>>

ExactUnidentified(c) == result[c].status = "completed" /\ received[c] = 1
\* The result names the target's own HELLO, and the target received and applied one request.
Exact(c) ==
  result[c].status = "completed" /\ result[c].peer = c /\ received[c] = 1

Join ==
  /\ parent = "join" /\ parent' = IF \A c \in Targets : Exact(c) THEN "accepted" ELSE "raised"
  /\ UNCHANGED <<asked, open, files, childVars, network, history>>

\* cleanup removes the container.
StopChild ==
  /\ parent \in {"accepted", "raised"} /\ child # "stopped" /\ child' = "stopped"
  /\ UNCHANGED <<parentVars, files, command, base, network, history>>

-------------------------------------------------------------------------------
(* The child: _process_callback_commands.                                        *)

BeginCommand ==
  /\ child = "poll"
  /\ \E c \in request : result[c].status = "none" /\ command' = c
  /\ base' = Len(hellos) /\ child' = "send"
  /\ begunAt' = [begunAt EXCEPT ![command'] = Len(hellos)]
  /\ UNCHANGED <<parentVars, files, network, sends>>

SendRequest ==
  /\ child = "send" /\ child' = "wait" /\ wire' = [wire EXCEPT ![command] = @ + 1]
  /\ sends' = [sends EXCEPT ![command] = @ + 1]
  /\ UNCHANGED <<parentVars, files, command, base, received, dialing, hellos, begunAt>>

Answer(r) ==
  /\ result' = [result EXCEPT ![command] = r] /\ child' = "poll" /\ command' = "none"
  /\ UNCHANGED <<parentVars, request, base, network, history>>

CallbackSeen ==
  /\ child = "wait" /\ Len(hellos) > base
  /\ Answer([status |-> "completed", peer |-> hellos[base + 1].peer,
             cause |-> hellos[base + 1].cause, at |-> base + 1])

CallbackTimeoutNever == FALSE /\ UNCHANGED vars
CallbackTimeout == child = "wait" /\ Len(hellos) <= base /\ Answer(Failed)

\* The session with the server is gone: send raises.
SendRaises == child = "send" /\ "lost" \in Faults /\ Answer(Failed)

-------------------------------------------------------------------------------
(* The server, the clients and the listener thread.                              *)

Forward ==
  \E c \in Targets :
    /\ wire[c] > 0 /\ wire' = [wire EXCEPT ![c] = @ - 1]
    /\ \/ received' = [received EXCEPT ![c] = @ + 1]
       \/ "lost" \in Faults /\ UNCHANGED received
    /\ dialing' = IF received' # received THEN dialing \cup {[peer |-> c, cause |-> c]}
                  ELSE dialing
    /\ UNCHANGED <<parentVars, files, childVars, hellos, history>>

\* The server delivers a request twice.
Duplicate ==
  /\ "duplicate" \in Faults
  /\ \E c \in Targets : received[c] = 1 /\ received' = [received EXCEPT ![c] = 2]
                        /\ dialing' = dialing \cup {[peer |-> c, cause |-> c]}
  /\ UNCHANGED <<parentVars, files, childVars, wire, hellos, history>>

\* Another identity probe of the server, unasked for.
Stray ==
  /\ "stray" \in Faults /\ dialing' = dialing \cup {[peer |-> "server", cause |-> "none"]}
  /\ UNCHANGED <<parentVars, files, childVars, wire, received, hellos, history>>

\* _serve takes one connection at a time; a HELLO counts also when the answer cannot be sent.
Serve ==
  \E d \in dialing :
    /\ Len(hellos) < MaxHellos /\ child # "stopped"
    /\ dialing' = dialing \ {d}
    /\ \/ hellos' = Append(hellos, d)
       \/ "lost" \in Faults /\ UNCHANGED hellos
    /\ UNCHANGED <<parentVars, files, childVars, wire, received, history>>

Parent == WriteRequest \/ ReadResult \/ ResultTimeout \/ Join \/ StopChild
Child == BeginCommand \/ SendRequest \/ CallbackSeen \/ CallbackTimeout \/ SendRaises
Next == Parent \/ Child \/ Forward \/ Duplicate \/ Stray \/ Serve

Spec == Init /\ [][Next]_vars

\* The child is a running loop whose waits have deadlines. Nothing is assumed of the parent,
\* the server, the clients or the listener.
FairSpec == Spec /\ WF_vars(Child)

-------------------------------------------------------------------------------
Peers == Targets \cup {"server"}
Hellos == [peer : Peers, cause : Targets \cup {"none"}]

(* Every variable has its type; a command is open in the child only while its request has no *)
(* result.                                                                                   *)
TypeOK ==
  /\ parent \in {"next", "wait", "join", "accepted", "raised"} /\ asked \subseteq Targets
  /\ open \in asked \cup {"none"} /\ request \subseteq Targets
  /\ result \in [Targets -> [status : {"none", "completed", "failed"}, peer : Peers \cup {"none"},
                             cause : Targets \cup {"none"}, at : 0..MaxHellos]]
  /\ child \in {"poll", "send", "wait", "stopped"} /\ command \in request \cup {"none"}
  /\ base \in 0..MaxHellos /\ wire \in [Targets -> 0..1] /\ received \in [Targets -> 0..2]
  /\ dialing \subseteq Hellos /\ hellos \in Seq(Hellos)
  /\ child \in {"send", "wait"} => result[command].status = "none"

\* A command is sent to the server at most once, also when it fails: a second request would
\* make the client dial twice and falsify the packet counts of the join.
ExactlyOnce == \A c \in Targets : sends[c] <= 1

\* A completed result names a HELLO seen after the child took the command up, never one that
\* an earlier command or the login left behind (observation_count is read before the send).
FreshHello ==
  \A c \in Targets : result[c].status = "completed" => result[c].at > begunAt[c]

\* Evidence the parent accepts is of callbacks: each result's HELLO was provoked by the request
\* sent for that client, whatever else connected to the listener meanwhile.
AcceptedCausal ==
  parent = "accepted" => \A c \in Targets : result[c].cause = c

\* Every request is answered, with a failure if need be, unless the child is stopped.
ChildAnswers ==
  \A c \in Targets : c \in request ~> (result[c].status # "none" \/ child = "stopped")

(* Promises of the documentation that the code breaks (README, Disagreements).  *)

\* The child's completed result is evidence of the target's own callback.
CallbackCausal ==
  \A c \in Targets : result[c].status = "completed" => result[c].cause = c
===============================================================================
