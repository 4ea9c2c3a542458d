--------------------------- MODULE SourcePublisher ---------------------------
(* Ownership of the Docker eD2K source publisher, docker_ed2k_source_publisher.py: *)
(* start_docker_ed2k_source_publisher creates an isolated network, a Windows host   *)
(* route and a container, waits for the child's receipt and rolls back when a step  *)
(* raises; the handle's cleanup removes them again. Names of networks and           *)
(* containers carry the run's id; the subnet and the route are the same for every   *)
(* run on the host, so runs that overlap meet there.                                *)
(*                                                                                  *)
(* A command of docker.exe or route.exe returns, with or without success, or runs   *)
(* into the timeout of subprocess.run: then the caller goes on with an exception    *)
(* while the engine may still carry the command out.                                *)
EXTENDS FiniteSets

CONSTANTS Parents,          \* runs on one host
          Faults,           \* subset of FaultKinds
          WindowsRoutable   \* the windows_routable argument

\* refuse: a command fails; slow: it times out; misreport: it fails for a reason of its own
\* with the words "not found"; interrupt: the operator's Ctrl-C.
FaultKinds == {"refuse", "slow", "misreport", "interrupt"}

PublisherAssumption == Faults \subseteq FaultKinds /\ WindowsRoutable \in BOOLEAN

VARIABLES exists,      \* what the engine and the route table hold, by the run that made it
          late,        \* creations still under way that nobody waits for
          pc,          \* point of start or of cleanup
          closing,     \* are the removals those of cleanup, not of the roll-back?
          gateway,     \* windows_route_gateway is set
          errors,      \* the removals reported an error
          attempted    \* history: resources whose removal was tried

vars == <<exists, late, pc, closing, gateway, errors, attempted>>

Resources == {"container", "network", "route"}
Shared == {"network", "route"}     \* one subnet, one destination

Init ==
  /\ exists = {} /\ late = {}
  /\ pc = [p \in Parents |-> "network"] /\ closing = [p \in Parents |-> FALSE]
  /\ gateway = [p \in Parents |-> FALSE] /\ errors = [p \in Parents |-> FALSE]
  /\ attempted = [p \in Parents |-> {}]

Goto(p, label) == pc' = [pc EXCEPT ![p] = label]
Taken(r) == r \in Shared /\ \E q \in Parents : <<r, q>> \in exists

-------------------------------------------------------------------------------
(* start_docker_ed2k_source_publisher.                                           *)

\* The creation of r: done, refused, or out of time with the engine still at work.
Creates(p, r) == ~Taken(r) /\ exists' = exists \cup {<<r, p>>} /\ UNCHANGED late
Fails(p, r) ==
  \/ (Taken(r) \/ "refuse" \in Faults) /\ UNCHANGED <<exists, late>>
  \/ "slow" \in Faults /\ late' = late \cup {<<r, p>>} /\ UNCHANGED exists

CreateNetworkInTry(p) ==
  /\ pc[p] = "network" /\ gateway' = [gateway EXCEPT ![p] = WindowsRoutable]
  /\ \/ Creates(p, "network") /\ Goto(p, IF WindowsRoutable THEN "route" ELSE "container")
     \/ Fails(p, "network") /\ Goto(p, "rm-container")
  /\ UNCHANGED <<closing, errors, attempted>>
\* Before the try block: whatever goes wrong here is not rolled back.
CreateNetwork(p) ==
  /\ pc[p] = "network"
  /\ \/ Creates(p, "network") /\ Goto(p, IF WindowsRoutable THEN "route" ELSE "container")
     \/ Fails(p, "network") /\ Goto(p, "raised")
  /\ UNCHANGED <<closing, gateway, errors, attempted>>

AddRoute(p) ==
  /\ pc[p] = "route"
  /\ \/ /\ Creates(p, "route") /\ gateway' = [gateway EXCEPT ![p] = TRUE]
        /\ Goto(p, "container")
     \/ Fails(p, "route") /\ UNCHANGED gateway /\ Goto(p, "rm-container")
  /\ UNCHANGED <<closing, errors, attempted>>

\* docker run may fail after it created the container.
RunContainer(p) ==
  /\ pc[p] = "container"
  /\ \/ Creates(p, "container") /\ Goto(p, "receipt")
     \/ Fails(p, "container") /\ Goto(p, "rm-container")
     \/ "refuse" \in Faults /\ Creates(p, "container") /\ Goto(p, "rm-container")
  /\ UNCHANGED <<closing, gateway, errors, attempted>>

WaitForReceipt(p) ==
  /\ pc[p] = "receipt"
  /\ \/ Goto(p, "owned")
     \/ "refuse" \in Faults /\ Goto(p, "rm-container")
  /\ UNCHANGED <<exists, late, closing, gateway, errors, attempted>>

\* KeyboardInterrupt is no Exception: the roll-back does not run.
InterruptStart(p) ==
  /\ "interrupt" \in Faults /\ pc[p] \in {"route", "container", "receipt"} /\ Goto(p, "raised")
  /\ UNCHANGED <<exists, late, closing, gateway, errors, attempted>>

-------------------------------------------------------------------------------
(* _remove_resources and _remove_windows_host_route, by cleanup and by the roll-back. *)

Cleanup(p) ==
  /\ pc[p] = "owned" /\ Goto(p, "rm-container") /\ closing' = [closing EXCEPT ![p] = TRUE]
  /\ UNCHANGED <<exists, late, gateway, errors, attempted>>

\* Networks and containers are named by the run, the route by its destination alone.
Named(p, r) == exists \cap (IF r = "route" THEN {r} \X Parents ELSE {<<r, p>>})

\* A network with a container in it is refused.
Refuses(p, r) == "refuse" \in Faults \/ (r = "network" /\ <<"container", p>> \in exists)

\* Removed or reported absent; refused; refused with words taken for absence; out of time,
\* which raises through the removals that are left.
Remove(p, r, to) ==
  /\ attempted' = [attempted EXCEPT ![p] = @ \cup {r}]
  /\ \/ /\ exists' = exists \ Named(p, r) /\ ~(r = "network" /\ <<"container", p>> \in exists)
        /\ UNCHANGED errors /\ Goto(p, to)
     \/ Refuses(p, r) /\ UNCHANGED exists /\ errors' = [errors EXCEPT ![p] = TRUE] /\ Goto(p, to)
     \/ "misreport" \in Faults /\ UNCHANGED <<exists, errors>> /\ Goto(p, to)
     \/ /\ "slow" \in Faults /\ exists' \in {exists, exists \ Named(p, r)}
        /\ errors' = [errors EXCEPT ![p] = TRUE] /\ Goto(p, "raised")
  /\ UNCHANGED <<late, closing, gateway>>

RemoveContainer(p) == pc[p] = "rm-container" /\ Remove(p, "container", "rm-network")
RemoveNetwork(p) ==
  pc[p] = "rm-network" /\ Remove(p, "network", IF gateway[p] THEN "rm-route" ELSE "settled")
RemoveRoute(p) == pc[p] = "rm-route" /\ Remove(p, "route", "settled")

\* cleanup returns or raises the joined errors; start raises either way.
Settle(p) ==
  /\ pc[p] = "settled" /\ Goto(p, IF closing[p] /\ ~errors[p] THEN "cleaned" ELSE "raised")
  /\ UNCHANGED <<exists, late, closing, gateway, errors, attempted>>

\* The engine ends what a caller no longer waits for.
EngineFinishes ==
  /\ \E c \in late : /\ late' = late \ {c}
                     /\ exists' \in {exists, IF Taken(c[1]) THEN exists ELSE exists \cup {c}}
  /\ UNCHANGED <<pc, closing, gateway, errors, attempted>>

Step(p) ==
  \/ CreateNetwork(p) \/ AddRoute(p) \/ RunContainer(p) \/ WaitForReceipt(p)
  \/ InterruptStart(p) \/ Cleanup(p) \/ RemoveContainer(p) \/ RemoveNetwork(p)
  \/ RemoveRoute(p) \/ Settle(p)

Next == EngineFinishes \/ \E p \in Parents : Step(p)

Spec == Init /\ [][Next]_vars

-------------------------------------------------------------------------------
Points ==
  {"network", "route", "container", "receipt", "owned", "rm-container", "rm-network", "rm-route",
   "settled", "cleaned", "raised"}

(* Every variable has its type; the cleanup that runs is one of a handle that was handed *)
(* out, with the route it was handed out with.                                            *)
TypeOK ==
  /\ exists \subseteq Resources \X Parents /\ late \subseteq Resources \X Parents
  /\ pc \in [Parents -> Points] /\ attempted \in [Parents -> SUBSET Resources]
  /\ closing \in [Parents -> BOOLEAN] /\ errors \in [Parents -> BOOLEAN]
  /\ gateway \in [Parents -> BOOLEAN]
  /\ \A p \in Parents : closing[p] => gateway[p] = WindowsRoutable

\* A cleanup that returned, and a start that raised without naming a failed removal, leave no
\* container, network or route behind: not now and not when the engine catches up.
SilentMeansGone ==
  \A p \in Parents :
    (pc[p] = "cleaned" \/ (pc[p] = "raised" /\ ~errors[p])) =>
      (exists \cup late) \cap (Resources \X {p}) = {}

\* The container, the network and, when it was added, the route are each tried before a
\* cleanup ends, whatever the removals before it answered.
EachAttempted ==
  \A p \in Parents :
    closing[p] /\ pc[p] \in {"cleaned", "raised"} =>
      attempted[p] = IF gateway[p] THEN Resources ELSE Resources \ {"route"}

\* While a run holds its publisher, its container, its network and its route are there: a
\* run that starts, fails or cleans up beside it on the same host takes none of them away.
OwnedIsWhole ==
  \A p \in Parents :
    pc[p] = "owned" =>
      {r \in Resources : <<r, p>> \in exists} =
        IF WindowsRoutable THEN Resources ELSE Resources \ {"route"}
===============================================================================
