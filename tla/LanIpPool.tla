-------------------------------- MODULE LanIpPool --------------------------------
(* LanIpPool of lan_ip_pool.py: secondary addresses added to one interface and   *)
(* the duplicate address detection (DadTransmits) switched off meanwhile, by the *)
(* campaigns that share the host. Each PowerShell call is one step.              *)
(*                                                                               *)
(* The swarm matrix releases its pool in a finally block; the two-client script  *)
(* has no name for a pool whose acquire raised, and drops it.                    *)
EXTENDS Integers, FiniteSets

CONSTANTS Pools,
          Guarded,         \* pools whose caller releases them after an exception
          LastAddress,     \* candidates are 1 .. LastAddress
          Preassigned,     \* addresses the interface has before any pool
          Count,           \* addresses a caller asks for
          OriginalDad,     \* DadTransmits before any pool
          MaxFailures,     \* bound: commands that fail
          MaxCrashes       \* bound: campaigns that are killed

ASSUME PoolAssumption ==
  /\ Guarded \subseteq Pools /\ IsFiniteSet(Pools)
  /\ LastAddress \in Nat /\ Preassigned \subseteq 1 .. LastAddress
  /\ Count \in Nat \ {0} /\ OriginalDad \in Nat \ {0}
  /\ MaxFailures \in Nat /\ MaxCrashes \in Nat

VARIABLES assigned,    \* addresses of the interface
          dad,         \* DadTransmits of the interface
          pc,
          saved,       \* _saved_dad_transmits
          seen,        \* acquire's snapshot of the assigned addresses
          next,        \* the candidate acquire looks at
          added,       \* _added
          failures, crashes,
          excused,     \* history: a clean-up command failed or a campaign was killed
          misread      \* history: pools that took an answer that is no number for a 1

interface == <<assigned, dad>>
pool == <<pc, saved, seen, next, added>>
faults == <<failures, crashes, excused, misread>>
vars == <<interface, pool, faults>>

Addresses == 1 .. LastAddress
None == -1

Init ==
  /\ assigned = Preassigned /\ dad = OriginalDad
  /\ pc = [p \in Pools |-> "new"] /\ saved = [p \in Pools |-> None]
  /\ seen = [p \in Pools |-> {}] /\ next = [p \in Pools |-> 1] /\ added = [p \in Pools |-> {}]
  /\ failures = 0 /\ crashes = 0 /\ excused = FALSE /\ misread = {}

Goto(p, point) == pc' = [pc EXCEPT ![p] = point]

-------------------------------------------------------------------------------
(* acquire                                                                       *)

ReadDad(p) ==
  /\ pc[p] = "new" /\ Goto(p, "disable")
  /\ saved' = [saved EXCEPT ![p] = dad]
  /\ UNCHANGED <<interface, seen, next, added, faults>>

\* An answer that is no number counts as one transmission.
ReadDadUnparsed(p) ==
  /\ pc[p] = "new" /\ failures < MaxFailures /\ Goto(p, "disable")
  /\ saved' = [saved EXCEPT ![p] = 1]
  /\ failures' = failures + 1 /\ misread' = misread \cup {p}
  /\ UNCHANGED <<interface, seen, next, added, crashes, excused>>

DisableDad(p) ==
  /\ pc[p] = "disable" /\ Goto(p, "list") /\ dad' = 0
  /\ UNCHANGED <<assigned, saved, seen, next, added, faults>>

ListAssigned(p) ==
  /\ pc[p] = "list" /\ Goto(p, "scan")
  /\ seen' = [seen EXCEPT ![p] = assigned]
  /\ UNCHANGED <<interface, saved, next, added, faults>>

\* The candidate was assigned when acquire looked, or something answers on it.
SkipCandidate(p) ==
  /\ pc[p] = "scan" /\ next[p] <= LastAddress
  /\ next' = [next EXCEPT ![p] = @ + 1]
  /\ UNCHANGED <<interface, pc, saved, seen, added, faults>>

\* Nothing answers: "best-effort", so the address may be taken all the same.
ProbeFree(p) ==
  /\ pc[p] = "scan" /\ next[p] \in Addresses \ seen[p] /\ Goto(p, "add")
  /\ UNCHANGED <<interface, saved, seen, next, added, faults>>

\* Mutant: without ErrorAction Stop an address that is taken counts as added.
AddAliasQuietly(p) ==
  /\ pc[p] = "add"
  /\ assigned' = assigned \cup {next[p]} /\ added' = [added EXCEPT ![p] = @ \cup {next[p]}]
  /\ next' = [next EXCEPT ![p] = @ + 1]
  /\ Goto(p, IF Cardinality(added'[p]) >= Count THEN "held" ELSE "scan")
  /\ UNCHANGED <<dad, saved, seen, faults>>

AddAlias(p) ==
  /\ pc[p] = "add" /\ next[p] \notin assigned
  /\ assigned' = assigned \cup {next[p]} /\ added' = [added EXCEPT ![p] = @ \cup {next[p]}]
  /\ next' = [next EXCEPT ![p] = @ + 1]
  /\ Goto(p, IF Cardinality(added'[p]) >= Count THEN "held" ELSE "scan")
  /\ UNCHANGED <<dad, saved, seen, faults>>

\* Too few free addresses: acquire releases what it has and raises.
Shortfall(p) ==
  /\ pc[p] = "scan" /\ next[p] > LastAddress /\ Goto(p, "release")
  /\ UNCHANGED <<interface, saved, seen, next, added, faults>>

\* The exception reaches the caller.
Raise(p) == Goto(p, IF p \in Guarded THEN "release" ELSE "ended")

AddRaises(p) ==
  /\ pc[p] = "add" /\ next[p] \in assigned /\ Raise(p)
  /\ UNCHANGED <<interface, saved, seen, next, added, faults>>

CommandRaises(p) ==
  /\ pc[p] \in {"new", "disable", "list", "scan", "add"} /\ failures < MaxFailures
  /\ failures' = failures + 1 /\ Raise(p)
  /\ UNCHANGED <<interface, saved, seen, next, added, crashes, excused, misread>>

-------------------------------------------------------------------------------
(* release: the aliases from the last one on, then the saved setting. Its        *)
(* commands may fail, which it ignores.                                          *)

Release(p) ==
  /\ pc[p] = "held" /\ Goto(p, "release")
  /\ UNCHANGED <<interface, saved, seen, next, added, faults>>

\* Addresses are tried in order, so the end of _added is its largest.
Newest(p) == {a \in added[p] : \A b \in added[p] : b <= a}

\* Mutant: the loop ends after one alias.
RemoveAliasOnce(p) ==
  /\ pc[p] = "release" /\ \E a \in Newest(p) : assigned' = assigned \ {a}
  /\ added' = [added EXCEPT ![p] = {}]
  /\ UNCHANGED <<dad, pc, saved, seen, next, faults>>

RemoveAlias(p) ==
  /\ pc[p] = "release"
  /\ \E a \in Newest(p) :
       added' = [added EXCEPT ![p] = @ \ {a}] /\ assigned' = assigned \ {a}
  /\ UNCHANGED <<dad, pc, saved, seen, next, faults>>

RemoveFails(p) ==
  /\ pc[p] = "release" /\ failures < MaxFailures
  /\ \E a \in Newest(p) : added' = [added EXCEPT ![p] = @ \ {a}]
  /\ failures' = failures + 1 /\ excused' = TRUE
  /\ UNCHANGED <<interface, pc, saved, seen, next, crashes, misread>>

RestoreDad(p) ==
  /\ pc[p] = "release" /\ added[p] = {} /\ Goto(p, "ended")
  /\ dad' = IF saved[p] = None THEN dad ELSE saved[p]
  /\ saved' = [saved EXCEPT ![p] = None]
  /\ UNCHANGED <<assigned, seen, next, added, faults>>

RestoreFails(p) ==
  /\ pc[p] = "release" /\ added[p] = {} /\ saved[p] # None /\ failures < MaxFailures
  /\ Goto(p, "ended") /\ saved' = [saved EXCEPT ![p] = None]
  /\ failures' = failures + 1 /\ excused' = TRUE
  /\ UNCHANGED <<interface, seen, next, added, crashes, misread>>

\* External: the campaign is killed. Nothing on disk remembers its aliases.
Crash(p) ==
  /\ pc[p] \notin {"new", "ended"} /\ crashes < MaxCrashes /\ Goto(p, "ended")
  /\ crashes' = crashes + 1 /\ excused' = TRUE
  /\ UNCHANGED <<interface, saved, seen, next, added, failures, misread>>

Next == \E p \in Pools :
  \/ ReadDad(p) \/ ReadDadUnparsed(p) \/ DisableDad(p) \/ ListAssigned(p)
  \/ SkipCandidate(p) \/ ProbeFree(p) \/ AddAlias(p) \/ Shortfall(p)
  \/ AddRaises(p) \/ CommandRaises(p)
  \/ Release(p) \/ RemoveAlias(p) \/ RemoveFails(p) \/ RestoreDad(p) \/ RestoreFails(p)
  \/ Crash(p)

Spec == Init /\ [][Next]_vars

-------------------------------------------------------------------------------
(* Properties.                                                                   *)

\* The variables keep their types and no pool has more addresses than asked for.
TypeOK ==
  /\ assigned \subseteq Addresses /\ dad \in Nat
  /\ pc \in [Pools -> {"new", "disable", "list", "scan", "add", "held", "release", "ended"}]
  /\ saved \in [Pools -> Nat \cup {None}] /\ seen \in [Pools -> SUBSET Addresses]
  /\ next \in [Pools -> 1 .. LastAddress + 1]
  /\ added \in [Pools -> SUBSET Addresses] /\ \A p \in Pools : Cardinality(added[p]) <= Count
  /\ failures \in 0 .. MaxFailures /\ crashes \in 0 .. MaxCrashes /\ excused \in BOOLEAN
  /\ misread \subseteq Pools

\* "Only addresses this pool actually adds are removed on release": whatever the
\* pools of other campaigns do between its look and its command, an address
\* belongs to one pool, and those of the host stay.
OwnOnly ==
  /\ Preassigned \subseteq assigned
  /\ \A p \in Pools : added[p] \subseteq assigned \ Preassigned
  /\ \A p, q \in Pools : p # q => added[p] \cap added[q] = {}

\* When every campaign is over, and no removal failed, its aliases are gone.
NothingLeft ==
  (\A p \in Pools : pc[p] = "ended") /\ ~excused => assigned = Preassigned

\* The setting _disable_dad takes for the original: what the interface had, or 1 when the
\* answer could not be parsed.
Taken(p) == IF p \in misread THEN 1 ELSE OriginalDad

\* A campaign that had the interface to itself and whose caller releases its pool ends with
\* the setting it took for the original, whichever of its commands failed.
DadRestored ==
  \A p \in Guarded :
    pc[p] = "ended" /\ ~excused /\ (\A q \in Pools \ {p} : pc[q] = "new") => dad = Taken(p)

\* Campaigns leave the interface as they found it: when all are over and no clean-up command
\* failed their aliases are gone, and one that had the interface to itself has put back the
\* DAD setting that it read, whichever of its commands failed (LanIpPool.release). An answer
\* that is no number is replaced by a 1, whatever the setting was (OriginalDadRestored).
InterfaceRestored == TypeOK /\ NothingLeft /\ DadRestored

(* Promises of the documentation that the code breaks (README, Disagreements).  *)

\* _disable_dad: "then restore the original setting on release" (LanIpPool). A campaign that
\* had the interface to itself, released its pool and had no clean-up command fail leaves the
\* setting as it was.
OriginalDadRestored ==
  \A p \in Guarded :
    pc[p] = "ended" /\ ~excused /\ (\A q \in Pools \ {p} : pc[q] = "new") => dad = OriginalDad

\* The same of campaigns that share the interface, and of every caller.
DadRestoredAfterAll ==
  (\A p \in Pools : pc[p] = "ended") /\ ~excused => dad = OriginalDad
===============================================================================
