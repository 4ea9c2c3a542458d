------------------------------ MODULE ArtifactStore ------------------------------
(* The bounded artifact store of soak_storage.py under the processes that share  *)
(* it: the launcher and the observer persist artifacts of the active campaign,   *)
(* the watcher enforces the session's limits. Each of them plans deletions from  *)
(* a listing of the whole store, and nothing orders the three.                   *)
(*                                                                               *)
(* An artifact is a number, which also stands for its modification time, and it  *)
(* is one unit large. Names, digests and encodings are left out.                 *)
EXTENDS Integers, FiniteSets, FiniteSetsExt

CONSTANTS Writers,         \* processes that persist artifacts, each in its stream
          Watcher,         \* the process that only enforces the limits
          Old,             \* artifacts of the campaigns before the previous one
          Previous,        \* artifacts of the previous campaign
          MaxArtifacts,    \* bound: artifacts that ever exist
          MaxTotal,        \* max_total_bytes
          DiskSize, MinimumFree,      \* capacity, minimum_free_bytes
          Foreign,         \* bound: what others store on the disk
          Retained         \* retained_segments of a stream

StoreAssumption ==
  /\ Watcher \notin Writers /\ IsFiniteSet(Writers)
  /\ MaxArtifacts \in Nat /\ Old \cup Previous \subseteq 1 .. MaxArtifacts
  /\ Old \cap Previous = {} /\ Old \cup Previous = 1 .. Cardinality(Old \cup Previous)
  /\ Cardinality(Old \cup Previous) <= MaxTotal
  /\ MaxTotal \in Nat /\ DiskSize \in Nat /\ MinimumFree \in Nat /\ Foreign \in Nat
  /\ Retained \in Nat \ {0}

VARIABLES files,         \* artifacts in the store
          temps,         \* those still under their temporary name
          owner,         \* the stream an artifact of the active campaign belongs to
          newest,        \* the last artifact created
          horizon,       \* artifacts up to this one have exceeded max_age_seconds
          foreign,       \* disk space taken by others
          pc, phase,     \* each process's point, and which enforcement it is in
          listed,        \* the paths its inventory found
          planned,       \* deletions it has left
          failed,        \* a deletion failed, or the plan leaves a limit exceeded
          outcome,       \* how its last call ended
          pruned         \* history: artifacts deleted by an enforcement

disk == <<files, temps, owner, newest, horizon, foreign, pruned>>
vars == <<disk, pc, phase, listed, planned, failed, outcome>>

Processes == Writers \cup {Watcher}
Artifacts == 1 .. MaxArtifacts
Active == Artifacts \ (Old \cup Previous)

Init ==
  /\ files = Old \cup Previous /\ temps = {} /\ owner = [a \in Artifacts |-> Watcher]
  /\ newest = Cardinality(files) /\ horizon = 0 /\ foreign = 0
  /\ pc = [p \in Processes |-> "idle"] /\ phase = [p \in Processes |-> "none"]
  /\ listed = [p \in Processes |-> {}] /\ planned = [p \in Processes |-> {}]
  /\ failed = [p \in Processes |-> FALSE] /\ outcome = [p \in Processes |-> "none"]
  /\ pruned = {}

-------------------------------------------------------------------------------
(* plan: oldest first among the candidates, the expired ones and then as many as *)
(* the two limits need.                                                          *)

\* _protected_roots: the active campaign, and for the session's own enforcement
\* the campaign before it.
Protected(p) == Active \cup (IF p = Watcher THEN Previous ELSE {})

\* An inventory is a set of paths: an artifact and whether its name is temporary.
Paths == {<<a, a \in temps>> : a \in files}
Listed(p) == {path[1] : path \in listed[p]}

Free == DiskSize - foreign - Cardinality(files)

Fits(found, reserved, deleted) ==
  /\ Cardinality(found) + reserved - Cardinality(deleted) <= MaxTotal
  /\ Free - reserved + Cardinality(deleted) >= MinimumFree

Plan(p, found, reserved) ==
  LET candidates == found \ Protected(p)
      expired == {a \in candidates : a <= horizon}
      oldest(n) == {a \in candidates : Cardinality({b \in candidates : b < a}) < n}
      enough == {n \in Cardinality(expired) .. Cardinality(candidates) :
                   Fits(found, reserved, oldest(n))}
  IN oldest(IF enough = {} THEN Cardinality(candidates) ELSE Min(enough))

-------------------------------------------------------------------------------

Goto(p, point) == pc' = [pc EXCEPT ![p] = point]

End(p, how) ==
  /\ Goto(p, "idle") /\ outcome' = [outcome EXCEPT ![p] = how]
  /\ phase' = [phase EXCEPT ![p] = "none"] /\ listed' = [listed EXCEPT ![p] = {}]
  /\ planned' = [planned EXCEPT ![p] = {}] /\ failed' = [failed EXCEPT ![p] = FALSE]

Enforce(p, which) ==
  /\ Goto(p, "list") /\ phase' = [phase EXCEPT ![p] = which]
  /\ failed' = [failed EXCEPT ![p] = FALSE]

Reserved(p) == IF phase[p] = "reserve" THEN 1 ELSE 0

\* persist_bounded_json_bytes_artifact starts with its own stream's retention.
Stream(w) == {a \in files \ temps : owner[a] = w}

BeginPersist(w) ==
  /\ pc[w] = "idle" /\ outcome[w] \in {"none", "done"} /\ newest < MaxArtifacts
  /\ Goto(w, "retain")
  /\ UNCHANGED <<disk, phase, listed, planned, failed, outcome>>

RetainStream(w) ==
  /\ pc[w] = "retain" /\ Cardinality(Stream(w)) >= Retained
  /\ files' = files \ {Min(Stream(w))}
  /\ UNCHANGED <<temps, owner, newest, horizon, foreign, pruned, pc, phase, listed, planned,
                 failed, outcome>>

Retains(w) ==
  /\ pc[w] = "retain" /\ Cardinality(Stream(w)) < Retained
  /\ Enforce(w, "reserve")
  /\ UNCHANGED <<disk, listed, planned, outcome>>

\* enforce_session_storage_context
BeginEnforce ==
  /\ pc[Watcher] = "idle" /\ Enforce(Watcher, "session")
  /\ UNCHANGED <<disk, listed, planned, outcome>>

-------------------------------------------------------------------------------
(* enforce: plan, delete, plan again. inventory_artifacts first lists the names  *)
(* and then asks for each one's size.                                            *)

List(p) ==
  /\ pc[p] \in {"list", "list again"}
  /\ listed' = [listed EXCEPT ![p] = Paths]
  /\ Goto(p, IF pc[p] = "list" THEN "plan" ELSE "verify")
  /\ UNCHANGED <<disk, phase, planned, failed, outcome>>

\* stat raises over a path that is gone.
ListingVanished(p) ==
  /\ pc[p] \in {"plan", "verify"} /\ ~(listed[p] \subseteq Paths)
  /\ End(p, "vanished")
  /\ UNCHANGED disk

MakePlan(p) ==
  /\ pc[p] = "plan" /\ listed[p] \subseteq Paths
  /\ LET deletions == Plan(p, Listed(p), Reserved(p)) IN
       /\ planned' = [planned EXCEPT ![p] = deletions]
       /\ failed' = [failed EXCEPT ![p] = ~Fits(Listed(p), Reserved(p), deletions)]
  /\ Goto(p, "delete")
  /\ UNCHANGED <<disk, phase, listed, outcome>>

\* A planned artifact that is gone by now counts as a failed deletion.
Delete(p) ==
  /\ pc[p] = "delete" /\ planned[p] # {}
  /\ LET a == Min(planned[p]) IN
       /\ planned' = [planned EXCEPT ![p] = @ \ {a}]
       /\ files' = files \ {a}
       /\ pruned' = IF a \in files THEN pruned \cup {a} ELSE pruned
       /\ failed' = [failed EXCEPT ![p] = @ \/ a \notin files]
  /\ UNCHANGED <<temps, owner, newest, horizon, foreign, pc, phase, listed, outcome>>

Deleted(p) ==
  /\ pc[p] = "delete" /\ planned[p] = {} /\ Goto(p, "list again")
  /\ UNCHANGED <<disk, phase, listed, planned, failed, outcome>>

\* within_limits: both plans fit, nothing failed and nothing is left to delete.
Within(p) ==
  LET deletions == Plan(p, Listed(p), Reserved(p)) IN
  ~failed[p] /\ deletions = {} /\ Fits(Listed(p), Reserved(p), {})

\* Mutant: the enforcement after the write is not looked at.
VerifyUnchecked(p) ==
  /\ pc[p] = "verify" /\ listed[p] \subseteq Paths
  /\ IF phase[p] = "reserve"
     THEN IF Within(p) THEN Goto(p, "write") /\ UNCHANGED <<phase, listed, planned, failed, outcome>>
          ELSE End(p, "limits")
     ELSE End(p, "done")
  /\ UNCHANGED disk

Verify(p) ==
  /\ pc[p] = "verify" /\ listed[p] \subseteq Paths
  /\ IF ~Within(p) THEN End(p, "limits")
     ELSE IF phase[p] = "reserve"
     THEN Goto(p, "write") /\ UNCHANGED <<phase, listed, planned, failed, outcome>>
     ELSE End(p, "done")
  /\ UNCHANGED disk

-------------------------------------------------------------------------------
(* The write, and the enforcement after it.                                      *)

WriteTemporary(w) ==
  /\ pc[w] = "write" /\ newest < MaxArtifacts
  /\ newest' = newest + 1
  /\ files' = files \cup {newest'} /\ temps' = temps \cup {newest'}
  /\ owner' = [owner EXCEPT ![newest'] = w]
  /\ Goto(w, "replace")
  /\ UNCHANGED <<horizon, foreign, pruned, phase, listed, planned, failed, outcome>>

Replace(w) ==
  /\ pc[w] = "replace"
  /\ temps' = {a \in temps : owner[a] # w}
  /\ Enforce(w, "confirm")
  /\ UNCHANGED <<files, owner, newest, horizon, foreign, pruned, listed, planned, outcome>>

-------------------------------------------------------------------------------
(* External: time passes and others use the disk.                                *)

Expire ==
  /\ horizon < newest /\ horizon' = horizon + 1
  /\ UNCHANGED <<files, temps, owner, newest, foreign, pruned, pc, phase, listed, planned, failed,
                 outcome>>

ForeignUse ==
  /\ foreign < Foreign /\ foreign' = foreign + 1
  /\ UNCHANGED <<files, temps, owner, newest, horizon, pruned, pc, phase, listed, planned, failed,
                 outcome>>

Next ==
  \/ \E w \in Writers : BeginPersist(w) \/ RetainStream(w) \/ Retains(w) \/ WriteTemporary(w)
                        \/ Replace(w)
  \/ BeginEnforce
  \/ \E p \in Processes : List(p) \/ ListingVanished(p) \/ MakePlan(p) \/ Delete(p) \/ Deleted(p)
                          \/ Verify(p)
  \/ Expire \/ ForeignUse

Spec == Init /\ [][Next]_vars

-------------------------------------------------------------------------------
(* Properties.                                                                   *)

\* The variables keep their types, and only stored artifacts have temporary names.
TypeOK ==
  /\ files \subseteq Artifacts /\ temps \subseteq files /\ pruned \subseteq Artifacts
  /\ owner \in [Artifacts -> Processes] /\ newest \in 0 .. MaxArtifacts
  /\ horizon \in 0 .. newest /\ foreign \in 0 .. Foreign
  /\ pc \in [Processes -> {"idle", "retain", "list", "plan", "delete", "list again", "verify",
                           "write", "replace"}]
  /\ phase \in [Processes -> {"none", "reserve", "confirm", "session"}]
  /\ listed \in [Processes -> SUBSET (Artifacts \X BOOLEAN)]
  /\ planned \in [Processes -> SUBSET Artifacts] /\ failed \in [Processes -> BOOLEAN]
  /\ outcome \in [Processes -> {"none", "done", "limits", "vanished"}]

\* No enforcement of any process, whatever the others do meanwhile, deletes an
\* artifact of the active campaign, one that is being written included.
ActiveKept == pruned \cap Active = {}

\* A store over its aggregate limit does not go unnoticed: some writer is still
\* between its write and the enforcement after it, or its call raised.
OverLimitNoticed ==
  Cardinality(files) > MaxTotal =>
    \E w \in Writers : pc[w] = "replace" \/ phase[w] = "confirm" \/ outcome[w] \in {"limits", "vanished"}

(* Promises of the documentation that the code breaks (README, Disagreements).  *)

\* The session pins the previous campaign ("preserves_latest"): nobody prunes it
\* while the campaign after it runs.
PreviousKept == pruned \cap Previous = {}

\* The store is "one owned root": a process does not fail because another one
\* moved or deleted an artifact at the same time.
Undisturbed == \A p \in Processes : outcome[p] # "vanished"
===============================================================================
