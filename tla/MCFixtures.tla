------------------------------ MODULE MCFixtures ------------------------------
(* What scenario scripts set up on the host, each part explored on its own:      *)
(* addresses of an interface (LanIpPool, extended so that the proofs' definitions *)
(* are the ones that are checked), the source publisher in its container         *)
(* (SourcePublisher), the callback commands it executes (CallbackCommands) and    *)
(* the downloads of the stress lane (StressDownloads).                           *)
(* A behaviour is about the part that scope names; the variables of the others   *)
(* keep a first value.  The publisher is explored under two sets of faults, as   *)
(* the properties below say.                                                     *)
EXTENDS LanIpPool, TLC

CONSTANTS Parents,      \* runs that own a publisher
          Routable,     \* their windows_routable argument
          Targets,      \* LowID clients
          MaxHellos,    \* bound: connections to the publisher's listener
          Searches,     \* search tasks of a wave
          Live,         \* files the searches find
          Waves, MaxConcurrent, Synthetic, PerSearch, MaxActive, BatchSize, RemoveCount,
          MaxMissing, Target, Window            \* of the stress lane

VARIABLES scope,
  exists, late, point, closing, gateway, errors, attempted,
  parent, asked, open, request, result, child, command, base, wire, received, dialing,
  hellos, sends, begunAt,
  phase, wave, task, todo, hash, rows, claimed, triggered, completed, deleted, client, accepted,
  liveCount, failed, fill, queued, fillOk, enough, clean, status, posts

publisherVars == <<exists, late, point, closing, gateway, errors, attempted>>
callbackVars == <<parent, asked, open, request, result, child, command, base, wire, received,
                  dialing, hellos, sends, begunAt>>
stressVars == <<phase, wave, task, todo, hash, rows, claimed, triggered, completed, deleted, client,
                accepted, liveCount, failed, fill, queued, fillOk, enough, clean, status, posts>>
allVars == <<scope, vars, publisherVars, callbackVars, stressVars>>

\* Commands of the engine that fail.
Refused == INSTANCE SourcePublisher
  WITH Faults <- {"refuse"}, WindowsRoutable <- Routable, pc <- point

\* Commands that fail, time out or misreport, and the operator's interrupt.
Disturbed == INSTANCE SourcePublisher
  WITH Faults <- {"refuse", "slow", "misreport", "interrupt"}, WindowsRoutable <- Routable,
       pc <- point

Callback == INSTANCE CallbackCommands
  WITH Faults <- {"lost", "duplicate", "stray"}

\* Requests of the stress lane that are refused, lose their answer or show late.
Stress == INSTANCE StressDownloads
  WITH Faults <- {"refuse", "lost", "slow"}, pc <- task

ASSUME PartsAssumption ==
  /\ Refused!PublisherAssumption /\ Disturbed!PublisherAssumption
  /\ Callback!CallbackAssumption /\ Stress!StressAssumption

FixturesInit ==
  /\ scope \in {"pool", "refused", "disturbed", "callback", "stress"}
  /\ Init /\ Refused!Init /\ Callback!Init /\ Stress!Init

FixturesNext ==
  \/ /\ scope = "pool" /\ Next
     /\ UNCHANGED <<scope, publisherVars, callbackVars, stressVars>>
  \/ /\ scope = "refused" /\ Refused!Next
     /\ UNCHANGED <<scope, vars, callbackVars, stressVars>>
  \/ /\ scope = "disturbed" /\ Disturbed!Next
     /\ UNCHANGED <<scope, vars, callbackVars, stressVars>>
  \/ /\ scope = "callback" /\ Callback!Next
     /\ UNCHANGED <<scope, vars, publisherVars, stressVars>>
  \/ /\ scope = "stress" /\ Stress!Next
     /\ UNCHANGED <<scope, vars, publisherVars, callbackVars>>

FixturesSpec == FixturesInit /\ [][FixturesNext]_allVars

StressSymmetry == Permutations(Searches) \cup Permutations(Live)

-------------------------------------------------------------------------------
\* While a run holds its publisher, its container, its network and its route are there: a
\* run that starts, fails or cleans up beside it on the same host takes none of them away,
\* under every fault. When commands only fail, every removal is attempted and what stays
\* behind is named in an error (_remove_resources, cleanup).
PublisherSound ==
  /\ Disturbed!TypeOK /\ Disturbed!OwnedIsWhole
  /\ scope = "refused" => Refused!SilentMeansGone /\ Refused!EachAttempted

\* A command is sent to the server at most once, a completed result names a HELLO seen after
\* the child took the command up, and evidence the parent accepts is of callbacks: each
\* result's HELLO was provoked by the request sent for that client, whatever else connected
\* to the listener meanwhile (_process_callback_commands).
CallbackSound ==
  Callback!TypeOK /\ Callback!ExactlyOnce /\ Callback!FreshHello /\ Callback!AcceptedCausal

\* However the search tasks of a wave interleave, no file is asked for twice in a run, the cap on
\* active downloads is exceeded by no more than one for each other worker, the counts the
\* verdict is taken from are the registry's, and a run that passed has none of its recorded
\* downloads left in the client (rest-cold-start-dump-stress.py).
StressSound ==
  /\ scope = "stress" => Stress!TypeOK
  /\ Stress!PostedOnce /\ Stress!ActiveBounded /\ Stress!CountsAgree /\ Stress!PassedMeansGone
===============================================================================
