--------------------------- MODULE Attendants_proofs ---------------------------
(* Proofs about the processes that MCAttendants puts side by side, for every   *)
(* value of the constants: the supervisor of a bounded process                 *)
(* (BoundedProcess), the store the processes share (ArtifactStore), the        *)
(* watcher's decision (WatchFindings) and the observer (ObserverActions).      *)
EXTENDS MCAttendants, Sequences, FiniteSetTheorems, WellFoundedInduction, TLAPS

-------------------------------------------------------------------------------
(* The supervisor of a bounded process.                                        *)

(* Bytes are in the pipe, in a pump's hands or in the log; a pump that has     *)
(* ended without a failure has logged everything and nobody can send more.     *)
Accounted(s) == logged[s] + chunk[s] + piped[s] = sent[s]
Drained(s) == ~Alive /\ logged[s] = sent[s]

PumpInv(s) ==
  /\ pump[s] = "read" => Accounted(s) /\ chunk[s] = 0
  /\ pump[s] = "write" => Accounted(s)
  /\ pump[s] = "ended" /\ ~Drained(s) => errors > 0 \/ failure

(* What the supervisor has waited for at each point.                           *)
SupervisorInv ==
  /\ sup = "spawn" => /\ ~Alive
                      /\ \A s \in Streams : /\ pump[s] = "idle" /\ sent[s] = 0
                                             /\ logged[s] = 0 /\ chunk[s] = 0 /\ piped[s] = 0
  /\ sup \in {"joinErr", "collect"} => pump["out"] = "ended"
  /\ sup = "collect" => pump["err"] = "ended"
  /\ sup # "done" => result = "none" /\ ~line

ProcessInv ==
  /\ TypeOK /\ SupervisorInv /\ FailClosed /\ LineAfterOutput
  /\ \A s \in Streams : PumpInv(s)

LEMMA InitInv == Init => ProcessInv
<1> SUFFICES ASSUME Init PROVE ProcessInv OBVIOUS
<1> USE DEF Init, Alive
<1>1. TypeOK BY DEF TypeOK, Streams
<1>2. SupervisorInv /\ FailClosed /\ LineAfterOutput
  BY DEF SupervisorInv, FailClosed, LineAfterOutput
<1>3. \A s \in Streams : PumpInv(s) BY DEF PumpInv
<1> QED BY <1>1, <1>2, <1>3 DEF ProcessInv

(* The child, its descendant and the pump threads.                             *)
LEMMA ThreadsKeep ==
  ASSUME ProcessInv,
         \/ \E s \in Streams : Write(s) \/ Pump(s) \/ ReadFails(s)
         \/ ChildExits \/ HeirExits
  PROVE  ProcessInv'
<1> USE ProcessAssumption DEF ProcessInv, TypeOK, SupervisorInv, FailClosed, LineAfterOutput,
        PumpInv, Accounted, Drained, Alive, world, pumps
<1>1. ASSUME NEW s \in Streams, Write(s) PROVE ProcessInv'
  BY <1>1 DEF Write
<1>2. ASSUME NEW s \in Streams, ReadChunk(s) PROVE ProcessInv'
  BY <1>2 DEF ReadChunk
<1>3. ASSUME NEW s \in Streams, ReadEnd(s) PROVE ProcessInv'
  BY <1>3 DEF ReadEnd
<1>4. ASSUME NEW s \in Streams, LogChunk(s) PROVE ProcessInv'
  BY <1>4 DEF LogChunk
<1>5. ASSUME NEW s \in Streams, PumpFails(s) PROVE ProcessInv'
  BY <1>5 DEF PumpFails
<1>6. ASSUME NEW s \in Streams, ReadFails(s) PROVE ProcessInv'
  BY <1>6 DEF ReadFails
<1>7. CASE ChildExits BY <1>7 DEF ChildExits
<1>8. CASE HeirExits BY <1>8 DEF HeirExits
<1> QED BY <1>1, <1>2, <1>3, <1>4, <1>5, <1>6, <1>7, <1>8 DEF Pump

(* The supervisor.                                                             *)
LEMMA SupervisorKeeps == ASSUME ProcessInv, Supervisor PROVE ProcessInv'
<1> USE ProcessAssumption DEF ProcessInv, TypeOK, SupervisorInv, FailClosed, LineAfterOutput,
        PumpInv, Accounted, Drained, Alive, world, pumps, Supervise, Go
<1>1. CASE Spawn
  <2>1. /\ sup = "spawn" /\ sup' = "poll" /\ child' = TRUE /\ heir' \in {FALSE, Inherits}
        /\ \A s \in Streams : pump'[s] = "read"
        /\ UNCHANGED <<sent, piped, chunk, logged, stopFile, failure, line, result, errors>>
    BY <1>1 DEF Spawn
  <2>2. TypeOK' BY <1>1, <2>1 DEF Spawn
  <2>3. \A s \in Streams : PumpInv(s)' BY <2>1, <2>2
  <2>4. (SupervisorInv /\ FailClosed /\ LineAfterOutput)' BY <2>1, <2>2
  <2> QED BY <2>2, <2>3, <2>4
<1>2. CASE SpawnFails BY <1>2 DEF SpawnFails, Streams
<1>3. CASE Poll BY <1>3 DEF Poll
<1>4. CASE TakeError
  <2>1. CASE errors > 0
    <3>1. /\ errors' = errors - 1 /\ failure' /\ sup' = "request" /\ failure' \in BOOLEAN
          /\ sup = "errors"
          /\ UNCHANGED <<world, piped, chunk, logged, pump, open, stopFile, line, result>>
      BY <1>4, <2>1 DEF TakeError
    <3> QED BY <2>1, <3>1
  <2>2. CASE ~(errors > 0) BY <1>4, <2>2 DEF TakeError
  <2> QED BY <2>1, <2>2
<1>5. CASE RequestStop BY <1>5 DEF RequestStop
<1>6. CASE Grace BY <1>6 DEF Grace
<1>7. CASE ForceStop
  <2>1. /\ sup = "force" /\ sup' = "joinOut" /\ child' = FALSE
        /\ UNCHANGED <<sent, piped, chunk, logged, pump, open, stopFile, failure, line,
                       result, errors>>
    BY <1>7 DEF ForceStop
  <2>2. heir' = heir \/ heir' = FALSE BY <1>7, Zenon DEF ForceStop
  <2>3. CASE heir' = heir BY <2>1, <2>3
  <2>4. CASE heir' = FALSE BY <2>1, <2>4
  <2> QED BY <2>2, <2>3, <2>4
<1>8. CASE ForceStopRaises BY <1>8 DEF ForceStopRaises
<1>9. CASE JoinOut BY <1>9 DEF JoinOut
<1>10. CASE JoinErr BY <1>10 DEF JoinErr
<1>11. CASE Collect
  <2>1. /\ sup = "collect" /\ sup' = "done" /\ failure' \in BOOLEAN /\ line' \in BOOLEAN
        /\ failure => failure'
        /\ errors > 0 => failure'
        /\ UNCHANGED <<world, piped, chunk, logged, pump, open, stopFile>>
    BY <1>11 DEF Collect
  <2>2. errors' \in Nat BY <1>11 DEF Collect
  <2>3. result' \in {"child", "failed"} /\ (result' = "child" => ~failure')
    BY <1>11, <2>1 DEF Collect
  <2>4. \A s \in Streams : pump[s] = "ended" BY <2>1 DEF Streams
  <2>5. ASSUME ~failure' PROVE \A s \in Streams : Drained(s)
    BY <2>1, <2>4, <2>5
  <2>6. FailClosed'
    <3>1. CASE result' = "child"
      <4>1. \A s \in Streams : Drained(s) BY <3>1, <2>3, <2>5
      <4>2. ~Alive /\ \A s \in Streams : logged[s] = sent[s] BY <4>1 DEF Streams
      <4> QED BY <4>2, <2>1
    <3>2. CASE result' # "child" BY <3>2
    <3> QED BY <3>1, <3>2
  <2>7. \A s \in Streams : PumpInv(s)' BY <2>1, <2>4
  <2>8. (TypeOK /\ SupervisorInv /\ LineAfterOutput)' BY <2>1, <2>2, <2>3, <2>4 DEF Streams
  <2> QED BY <2>7, <2>8, <2>6
<1> QED BY <1>1, <1>2, <1>3, <1>4, <1>5, <1>6, <1>7, <1>8, <1>9, <1>10, <1>11 DEF Supervisor

LEMMA ProcessInvariant == Spec => []ProcessInv
<1>1. ProcessInv /\ [Next]_vars => ProcessInv'
  <2> SUFFICES ASSUME ProcessInv, [Next]_vars PROVE ProcessInv' OBVIOUS
  <2>1. CASE UNCHANGED vars
    BY <2>1 DEF vars, world, pumps, ProcessInv, TypeOK, SupervisorInv, FailClosed,
       LineAfterOutput, PumpInv, Accounted, Drained, Alive
  <2> QED BY <2>1, ThreadsKeep, SupervisorKeeps DEF Next
<1> QED BY <1>1, InitInv, PTL DEF Spec

(* Every reachable state is well typed; the queue is never read when empty.    *)
THEOREM TypeCorrect == Spec => []TypeOK
<1>1. ProcessInv => TypeOK BY DEF ProcessInv
<1> QED BY <1>1, ProcessInvariant, PTL

(* The child's exit code is returned only when all of its output is logged.    *)
THEOREM OutputPreserved == Spec => []FailClosed
<1>1. ProcessInv => FailClosed BY DEF ProcessInv
<1> QED BY <1>1, ProcessInvariant, PTL

(* The supervisor appends to the stderr log only when no pump uses it.         *)
THEOREM LogNotShared == Spec => []LineAfterOutput
<1>1. ProcessInv => LineAfterOutput BY DEF ProcessInv
<1> QED BY <1>1, ProcessInvariant, PTL

-------------------------------------------------------------------------------
(* The initial states of the whole are initial states of each part. *)
LEMMA PartsInit ==
  ASSUME AttendantsInit
  PROVE  Store!Init /\ Steady!Init /\ Killed!Init
BY DEF AttendantsInit

(* A step of the whole is a step of each part or leaves it alone. *)
LEMMA PartsStep ==
  ASSUME [AttendantsNext]_allVars
  PROVE  /\ [Store!Next]_storeVars
         /\ [Steady!Next \/ Shaken!Next]_watchVars
         /\ [Killed!Next \/ Torn!Next]_observerVars
BY DEF AttendantsNext, allVars

-------------------------------------------------------------------------------
(* The artifact store.                                                         *)

(* Every non-empty set of naturals has a least element. *)
LEMMA NatMin ==
  ASSUME NEW S \in SUBSET Nat, S # {}
  PROVE  Store!Min(S) \in S
<1>1. \E s \in S : \A t \in S : <<t, s>> \notin OpToRel(<, Nat)
  BY NatLessThanWellFounded, WFMin
<1>2. \A t, s \in Nat : t < s => <<t, s>> \in OpToRel(<, Nat)
  BY Zenon DEF OpToRel
<1>3. PICK s \in S : \A t \in S : <<t, s>> \notin OpToRel(<, Nat)
  BY <1>1
<1>4. \A t \in S : ~(t < s)
  BY <1>2, <1>3
<1>5. \A t \in S : s <= t
  BY <1>4
<1>6. QED
  BY <1>5 DEF Store!Min

(* What the campaigns before this one left: everything numbered after it is of *)
(* the active campaign.                                                        *)
Inherited == Old \cup Previous
Left == Cardinality(Inherited)

(* The instance's cardinality is the library's. *)
LEMMA SameCardinality == \A S : Store!Cardinality(S) = Cardinality(S)
BY Zenon DEF Store!Cardinality, Cardinality

LEMMA StoreConstants ==
  /\ Inherited = 1 .. Left /\ Left \in Nat /\ Left <= MaxTotal /\ Left <= MaxArtifacts
  /\ MaxArtifacts \in Nat /\ MaxTotal \in Nat /\ Foreign \in Nat /\ Watcher \notin Writers
  /\ Retained \in Nat \ {0}
<1>1. /\ Inherited = 1 .. Left /\ Left <= MaxTotal /\ Inherited \subseteq 1 .. MaxArtifacts
      /\ MaxArtifacts \in Nat /\ MaxTotal \in Nat /\ Foreign \in Nat /\ Watcher \notin Writers
      /\ Retained \in Nat \ {0}
  BY PartsAssumption, SameCardinality DEF Store!StoreAssumption, Inherited, Left
<1>2. IsFiniteSet(1 .. MaxArtifacts)
  BY <1>1, FS_Interval
<1>3. Left \in Nat
  BY <1>1, <1>2, FS_Subset, FS_CardinalityType DEF Left
<1>4. Left <= MaxArtifacts
  <2>1. CASE Left = 0
    BY <1>1, <2>1
  <2>2. CASE Left # 0
    <3>1. Left \in 1 .. Left
      BY <1>3, <2>2
    <3>2. QED
      BY <1>1, <1>3, <3>1
  <2>3. QED
    BY <2>1, <2>2
<1>5. QED
  BY <1>1, <1>3, <1>4

(* A store that shrinks does not come over its limit. *)
LEMMA StoreShrinks ==
  ASSUME files \subseteq Store!Artifacts, NEW S \in SUBSET files
  PROVE  /\ Cardinality(files) \in Nat /\ Cardinality(S) \in Nat
         /\ Cardinality(S) <= Cardinality(files)
<1>1. MaxArtifacts \in Nat
  BY StoreConstants
<1>2. IsFiniteSet(Store!Artifacts)
  BY <1>1, FS_Interval DEF Store!Artifacts
<1>3. IsFiniteSet(files)
  BY <1>2, FS_Subset
<1>4. QED
  BY <1>3, FS_Subset, FS_CardinalityType

(* Only the inherited artifacts are ever planned for deletion, and only those  *)
(* of the active campaign have temporary names.                                *)
PlanInv ==
  /\ temps \subseteq Store!Active /\ Left <= newest
  /\ \A p \in Store!Processes : planned[p] \cap Store!Active = {}

(* The writer of the newest artifact is the one that answers for a store over  *)
(* its limit: as long as it has not listed the store again, or has and found   *)
(* it too large, it is between its write and the end of its call; nobody wrote *)
(* after it, so when it verifies, its listing still covers the store.          *)
Enforcing == {"list", "plan", "delete", "list again", "verify"}

Answers(w) ==
  \/ pc[w] = "replace"
  \/ phase[w] = "confirm"
  \/ pc[w] = "idle" /\ outcome[w] \in {"limits", "vanished"}

NoticeInv ==
  /\ \A p \in Store!Processes : phase[p] = "confirm" => pc[p] \in Enforcing
  /\ newest = Left => files \subseteq Inherited
  /\ newest > Left =>
       LET w == owner[newest] IN
       /\ w \in Writers
       /\ Cardinality(files) <= MaxTotal \/ Answers(w)
       /\ pc[w] = "verify" /\ phase[w] = "confirm" => files \subseteq Store!Listed(w)

StoreInv == Store!TypeOK /\ PlanInv /\ Store!ActiveKept /\ NoticeInv

(* The store starts with what earlier campaigns left, within its limit. *)
LEMMA StoreInit ==
  ASSUME Store!Init
  PROVE  StoreInv
<1>n. /\ 0 \in 0 .. Left /\ 0 \in 0 .. Foreign /\ Left \in 0 .. MaxArtifacts
      /\ Inherited \subseteq Store!Artifacts /\ Left \in Nat
  BY StoreConstants DEF Store!Artifacts
<1>f. files = Inherited /\ newest = Left
  BY SameCardinality DEF Store!Init, Inherited, Left
<1>1. Store!TypeOK
  BY <1>n, <1>f DEF Store!Init, Store!TypeOK, Store!Processes
<1>2. PlanInv /\ Store!ActiveKept
  BY <1>n, <1>f DEF Store!Init, PlanInv, Store!ActiveKept
<1>3. NoticeInv
  <2>1. \A p \in Store!Processes : phase[p] # "confirm"
    BY DEF Store!Init
  <2>2. ~(newest > Left)
    BY <1>n, <1>f
  <2>3. QED
    BY <1>f, <2>1, <2>2 DEF NoticeInv
<1>4. QED
  BY <1>1, <1>2, <1>3 DEF StoreInv

(* The types that the steps below need. *)
LEMMA StoreTypes ==
  ASSUME StoreInv
  PROVE  newest \in Nat /\ files \subseteq Store!Artifacts /\ Left <= newest /\ horizon \in Nat
<1>1. /\ newest \in 0 .. MaxArtifacts /\ files \subseteq Store!Artifacts
      /\ horizon \in 0 .. newest /\ Left <= newest
  BY DEF StoreInv, PlanInv, Store!TypeOK
<1>2. MaxArtifacts \in Nat
  BY StoreConstants
<1>3. QED
  BY <1>1, <1>2

(* The invariant says what OverLimitNoticed does. *)
LEMMA StoreInvNotices ==
  ASSUME StoreInv
  PROVE  Store!OverLimitNoticed
<1>n. /\ newest \in Nat /\ files \subseteq Store!Artifacts /\ Left <= newest
      /\ Left \in Nat /\ MaxTotal \in Nat /\ Left <= MaxTotal
  BY StoreTypes, StoreConstants
<1>i. NoticeInv
  BY DEF StoreInv
<1>c. Cardinality(files) \in Nat
  BY <1>n, StoreShrinks
<1>1. CASE newest > Left
  <2>1. owner[newest] \in Writers /\ (Cardinality(files) <= MaxTotal \/ Answers(owner[newest]))
    BY <1>1, <1>i DEF NoticeInv
  <2>2. QED
    BY <2>1, <1>c, <1>n, SameCardinality DEF Answers, Store!OverLimitNoticed
<1>2. CASE newest = Left
  <2>1. files \subseteq Inherited
    BY <1>2, <1>i DEF NoticeInv
  <2>2. IsFiniteSet(Inherited)
    <3>1. Inherited = 1 .. Left
      BY StoreConstants
    <3>2. QED
      BY <3>1, <1>n, FS_Interval
  <2>3. Cardinality(files) <= Left
    BY <2>1, <2>2, FS_Subset DEF Left
  <2>4. Cardinality(files) <= MaxTotal
    BY <1>c, <1>n, <2>3
  <2>5. QED
    BY <1>c, <1>n, <2>4, SameCardinality DEF Store!OverLimitNoticed
<1>3. QED
  BY <1>1, <1>2, <1>n

(* A step of one process that leaves the disk alone keeps the invariant if it  *)
(* plans no deletion of an active artifact and, should the process be the one  *)
(* that answers, it goes on answering or has found the store within its limit. *)
LEMMA StoreControl ==
  ASSUME StoreInv, NEW p \in Store!Processes, Store!TypeOK', UNCHANGED Store!disk,
         \A q \in Store!Processes \ {p} :
           /\ pc'[q] = pc[q] /\ phase'[q] = phase[q] /\ listed'[q] = listed[q]
           /\ planned'[q] = planned[q] /\ outcome'[q] = outcome[q],
         planned'[p] \cap Store!Active = {},
         phase'[p] = "confirm" => pc'[p] \in Enforcing,
         newest > Left /\ p = owner[newest] =>
           /\ Answers(p) => Answers(p)' \/ Cardinality(files) <= MaxTotal
           /\ pc'[p] = "verify" /\ phase'[p] = "confirm" => files \subseteq Store!Listed(p)'
  PROVE  StoreInv'
<1>1. PlanInv' /\ Store!ActiveKept'
  BY DEF StoreInv, PlanInv, Store!ActiveKept, Store!disk, Store!Processes,
     Store!Active, Store!Artifacts
<1>2. NoticeInv'
  <2>1. \A q \in Store!Processes : phase'[q] = "confirm" => pc'[q] \in Enforcing
    BY DEF StoreInv, NoticeInv
  <2>2. newest' = newest /\ files' = files /\ owner' = owner
    BY DEF Store!disk
  <2>3. ASSUME newest > Left
        PROVE  /\ owner[newest] \in Writers
               /\ Cardinality(files) <= MaxTotal \/ Answers(owner[newest])'
               /\ pc'[owner[newest]] = "verify" /\ phase'[owner[newest]] = "confirm"
                    => files \subseteq Store!Listed(owner[newest])'
    <3> DEFINE w == owner[newest]
    <3>1. /\ w \in Writers /\ (Cardinality(files) <= MaxTotal \/ Answers(w))
          /\ pc[w] = "verify" /\ phase[w] = "confirm" => files \subseteq Store!Listed(w)
      BY <2>3 DEF StoreInv, NoticeInv
    <3>2. CASE p = w
      BY <2>3, <2>2, <3>1, <3>2
    <3>3. CASE p # w
      <4>1. w \in Store!Processes \ {p}
        BY <3>1, <3>3 DEF Store!Processes
      <4>2. pc'[w] = pc[w] /\ phase'[w] = phase[w] /\ listed'[w] = listed[w] /\ outcome'[w] = outcome[w]
        BY <4>1
      <4>3. Answers(w)' <=> Answers(w)
        BY <2>2, <4>2 DEF Answers
      <4>4. Store!Listed(w)' = Store!Listed(w)
        BY <2>2, <4>2 DEF Store!Listed
      <4>5. QED
        BY <3>1, <4>2, <4>3, <4>4, <2>2
    <3>4. QED
      BY <3>2, <3>3
  <2>4. QED
    BY <2>1, <2>2, <2>3 DEF StoreInv, NoticeInv
<1>3. QED
  BY <1>1, <1>2 DEF StoreInv

(* So does a step that removes artifacts, if an enforcement removed none of the *)
(* active ones.                                                                *)
LEMMA StoreRemoves ==
  ASSUME StoreInv, Store!TypeOK', files' \subseteq files,
         UNCHANGED <<temps, owner, newest, pc, phase, listed, outcome>>,
         \A p \in Store!Processes : planned'[p] \subseteq planned[p],
         Store!ActiveKept'
  PROVE  StoreInv'
<1>1. PlanInv'
  BY DEF StoreInv, PlanInv, Store!Processes, Store!Active, Store!Artifacts
<1>2. NoticeInv'
  <2>1. Cardinality(files') <= Cardinality(files) /\ Cardinality(files') \in Nat
        /\ Cardinality(files) \in Nat
    BY StoreTypes, StoreShrinks
  <2>2. Cardinality(files) <= MaxTotal => Cardinality(files') <= MaxTotal
    BY <2>1, StoreConstants
  <2>3. \A w : (Answers(w)' <=> Answers(w)) /\ Store!Listed(w)' = Store!Listed(w)
    BY DEF Answers, Store!Listed
  <2>4. QED
    BY <2>2, <2>3 DEF StoreInv, NoticeInv, Store!Processes
<1>3. QED
  BY <1>1, <1>2 DEF StoreInv

(* A plan names only artifacts that are listed and not protected. *)
LEMMA PlanMembers ==
  ASSUME NEW p, NEW found, NEW n
  PROVE  Store!Plan(p, found, n) \subseteq found \ Store!Active
BY DEF Store!Plan, Store!Protected

(* An inventory lists every artifact, and lists nothing else. *)
LEMMA ListedTypes ==
  ASSUME Store!TypeOK
  PROVE  /\ Store!Paths \in SUBSET (Store!Artifacts \X BOOLEAN)
         /\ \A a \in files : \E path \in Store!Paths : path[1] = a
         /\ \A p \in Store!Processes : Store!Listed(p) \subseteq Store!Artifacts
<1>1. Store!Paths \in SUBSET (Store!Artifacts \X BOOLEAN)
  <2>1. ASSUME NEW a \in files PROVE <<a, a \in temps>> \in Store!Artifacts \X BOOLEAN
    <3>1. a \in Store!Artifacts
      BY DEF Store!TypeOK
    <3>2. (a \in temps) \in BOOLEAN
      OBVIOUS
    <3>3. \A x \in Store!Artifacts, b \in BOOLEAN : <<x, b>> \in Store!Artifacts \X BOOLEAN
      OBVIOUS
    <3>4. QED
      BY <3>1, <3>2, <3>3, Zenon
  <2>2. QED
    BY <2>1, Zenon DEF Store!Paths
<1>2. \A a \in files : <<a, a \in temps>> \in Store!Paths
  BY Zenon DEF Store!Paths
<1>3. \A a, b : <<a, b>>[1] = a
  OBVIOUS
<1>4. \A a \in files : \E path \in Store!Paths : path[1] = a
  BY <1>2, <1>3, Zenon
<1>5. ASSUME NEW p \in Store!Processes PROVE Store!Listed(p) \subseteq Store!Artifacts
  <2>1. listed[p] \subseteq Store!Artifacts \X BOOLEAN
    BY DEF Store!TypeOK
  <2>2. \A path \in Store!Artifacts \X BOOLEAN : path[1] \in Store!Artifacts
    OBVIOUS
  <2>3. QED
    BY <2>1, <2>2, Zenon DEF Store!Listed
<1>6. QED
  BY <1>1, <1>4, <1>5

(* Persisting, enforcing and listing: no process's step plans a deletion of an *)
(* active artifact, and the one that answers goes on until it has verified.    *)
LEMMA StoreSteps ==
  ASSUME StoreInv, NEW p \in Store!Processes,
         \/ p \in Writers /\ (Store!BeginPersist(p) \/ Store!Retains(p))
         \/ p = Watcher /\ Store!BeginEnforce
         \/ Store!List(p) \/ Store!ListingVanished(p) \/ Store!MakePlan(p) \/ Store!Deleted(p)
         \/ Store!Verify(p)
  PROVE  StoreInv'
<1> DEFINE Others == \A q \in Store!Processes \ {p} :
             /\ pc'[q] = pc[q] /\ phase'[q] = phase[q] /\ listed'[q] = listed[q]
             /\ planned'[q] = planned[q] /\ outcome'[q] = outcome[q]
<1>t. Store!TypeOK /\ PlanInv /\ Store!ActiveKept /\ NoticeInv
  BY DEF StoreInv
<1>p. /\ pc[p] # "verify" /\ pc[p] # "replace" /\ pc[p] # "idle" /\ phase[p] # "confirm" => ~Answers(p)
      /\ phase[p] = "confirm" => pc[p] \in Enforcing
      /\ planned[p] \cap Store!Active = {}
  BY <1>t DEF Answers, NoticeInv, PlanInv
<1>d. UNCHANGED Store!disk
  BY DEF Store!BeginPersist, Store!Retains, Store!BeginEnforce, Store!List,
     Store!ListingVanished, Store!MakePlan, Store!Deleted, Store!Verify
<1>1. CASE p \in Writers /\ Store!BeginPersist(p)
  <2>1. Store!TypeOK'
    BY <1>1, <1>t DEF Store!BeginPersist, Store!Goto, Store!TypeOK, Store!disk
  <2>2. pc[p] = "idle" /\ outcome[p] \in {"none", "done"} /\ phase[p] # "confirm"
    BY <1>1, <1>p DEF Store!BeginPersist, Enforcing
  <2>3. ~Answers(p)
    BY <2>2 DEF Answers
  <2>4. /\ Others /\ planned' = planned /\ phase' = phase
    BY <1>1, <1>t DEF Store!BeginPersist, Store!Goto, Store!TypeOK
  <2>5. QED
    BY <1>p, <1>d, <2>1, <2>2, <2>3, <2>4, StoreControl
<1>2. CASE p \in Writers /\ Store!Retains(p)
  <2>1. Store!TypeOK'
    BY <1>2, <1>t DEF Store!Retains, Store!Enforce, Store!Goto, Store!TypeOK,
       Store!disk
  <2>2. pc[p] = "retain" /\ phase[p] # "confirm" /\ ~Answers(p)
    BY <1>2, <1>p DEF Store!Retains, Enforcing
  <2>3. Others /\ planned' = planned /\ phase'[p] = "reserve"
    BY <1>2, <1>t DEF Store!Retains, Store!Enforce, Store!Goto, Store!TypeOK
  <2>4. QED
    BY <1>p, <1>d, <2>1, <2>2, <2>3, StoreControl
<1>3. CASE p = Watcher /\ Store!BeginEnforce
  <2>1. Store!TypeOK'
    BY <1>3, <1>t DEF Store!BeginEnforce, Store!Enforce, Store!Goto, Store!TypeOK,
       Store!disk
  <2>2. newest > Left => p # owner[newest]
    BY <1>3, <1>t, StoreConstants DEF NoticeInv
  <2>3. Others /\ planned' = planned /\ phase'[p] = "session"
    BY <1>3, <1>t DEF Store!BeginEnforce, Store!Enforce, Store!Goto, Store!TypeOK
  <2>4. QED
    BY <1>p, <1>d, <2>1, <2>2, <2>3, StoreControl
<1>4. CASE Store!List(p)
  <2>1. Store!Paths \in SUBSET (Store!Artifacts \X BOOLEAN)
    BY <1>t, ListedTypes
  <2>2. Store!TypeOK'
    BY <1>4, <1>t, <2>1 DEF Store!List, Store!Goto, Store!TypeOK, Store!disk
  <2>3. listed'[p] = Store!Paths
    BY <1>4, <1>t DEF Store!List, Store!TypeOK
  <2>4. files \subseteq Store!Listed(p)'
    BY <1>t, <2>3, ListedTypes DEF Store!Listed
  <2>5. phase' = phase /\ outcome' = outcome /\ pc'[p] \in Enforcing
    BY <1>4, <1>t DEF Store!List, Store!Goto, Store!TypeOK, Enforcing
  <2>6. Answers(p) => Answers(p)'
    BY <1>4, <2>5 DEF Answers, Store!List
  <2>7. Others /\ planned' = planned
    BY <1>4, <1>t DEF Store!List, Store!Goto, Store!TypeOK
  <2>8. QED
    BY <1>p, <1>d, <2>2, <2>4, <2>5, <2>6, <2>7, StoreControl
<1>5. CASE Store!ListingVanished(p)
  <2>1. Store!TypeOK'
    BY <1>5, <1>t DEF Store!ListingVanished, Store!End, Store!Goto, Store!TypeOK,
       Store!disk
  <2>2. /\ pc'[p] = "idle" /\ outcome'[p] = "vanished" /\ phase'[p] = "none" /\ planned'[p] = {}
    BY <1>5, <1>t DEF Store!ListingVanished, Store!End, Store!Goto, Store!TypeOK
  <2>3. Answers(p)'
    BY <2>2 DEF Answers
  <2>4. Others
    BY <1>5, <1>t DEF Store!ListingVanished, Store!End, Store!Goto, Store!TypeOK
  <2>5. QED
    BY <1>d, <2>1, <2>2, <2>3, <2>4, StoreControl
<1>6. CASE Store!MakePlan(p)
  <2>1. Store!Listed(p) \subseteq Store!Artifacts
    BY <1>t, ListedTypes
  <2>2. planned'[p] \subseteq Store!Listed(p) \ Store!Active
    BY <1>6, <1>t, PlanMembers DEF Store!MakePlan, Store!TypeOK
  <2>3. planned' \in [Store!Processes -> SUBSET Store!Artifacts]
    BY <1>6, <1>t, <2>1, <2>2 DEF Store!MakePlan, Store!TypeOK
  <2>4. failed' \in [Store!Processes -> BOOLEAN]
    BY <1>6, <1>t DEF Store!MakePlan, Store!TypeOK
  <2>5. Store!TypeOK'
    BY <1>6, <1>t, <2>3, <2>4 DEF Store!MakePlan, Store!Goto, Store!TypeOK, Store!disk
  <2>6. phase' = phase /\ outcome' = outcome /\ pc'[p] = "delete" /\ pc[p] = "plan"
    BY <1>6, <1>t DEF Store!MakePlan, Store!Goto, Store!TypeOK
  <2>7. Answers(p) => Answers(p)'
    BY <2>6 DEF Answers
  <2>8. Others
    BY <1>6, <1>t DEF Store!MakePlan, Store!Goto, Store!TypeOK
  <2>9. planned'[p] \cap Store!Active = {} /\ pc'[p] \in Enforcing
    BY <2>2, <2>6 DEF Enforcing
  <2>10. QED
    BY <1>d, <2>5, <2>6, <2>7, <2>8, <2>9, StoreControl
<1>7. CASE Store!Deleted(p)
  <2>1. Store!TypeOK'
    BY <1>7, <1>t DEF Store!Deleted, Store!Goto, Store!TypeOK, Store!disk
  <2>2. phase' = phase /\ outcome' = outcome /\ pc'[p] = "list again" /\ pc[p] = "delete"
    BY <1>7, <1>t DEF Store!Deleted, Store!Goto, Store!TypeOK
  <2>3. Answers(p) => Answers(p)'
    BY <2>2 DEF Answers
  <2>4. Others /\ planned' = planned /\ pc'[p] \in Enforcing
    BY <1>7, <1>t, <2>2 DEF Store!Deleted, Store!Goto, Store!TypeOK, Enforcing
  <2>5. QED
    BY <1>p, <1>d, <2>1, <2>2, <2>3, <2>4, StoreControl
<1>8. CASE Store!Verify(p)
  <2>1. CASE Store!End(p, "limits") \/ Store!End(p, "done")
    <3>1. Store!TypeOK'
      BY <1>8, <2>1, <1>t, <1>d DEF Store!End, Store!Goto, Store!TypeOK, Store!disk
    <3>2. /\ pc'[p] = "idle" /\ phase'[p] = "none" /\ planned'[p] = {}
          /\ outcome'[p] \in {"limits", "done"}
      BY <2>1, <1>t DEF Store!End, Store!Goto, Store!TypeOK
    <3>3. ASSUME newest > Left, p = owner[newest], Answers(p)
          PROVE  Answers(p)' \/ Cardinality(files) <= MaxTotal
      <4>1. CASE outcome'[p] = "limits"
        BY <3>2, <4>1 DEF Answers
      <4>2. CASE outcome'[p] = "done"
        <5>1. phase[p] = "confirm" /\ pc[p] = "verify"
          BY <1>8, <3>3 DEF Answers, Store!Verify
        <5>2. files \subseteq Store!Listed(p)
          BY <1>t, <3>3, <5>1 DEF NoticeInv
        <5>3. Store!Within(p)
          BY <1>8, <4>2, <1>t DEF Store!Verify, Store!End, Store!TypeOK
        <5>4. Cardinality(Store!Listed(p)) + 0 - Cardinality({}) <= MaxTotal
          BY <5>1, <5>3, SameCardinality DEF Store!Within, Store!Fits, Store!Reserved
        <5>5. IsFiniteSet(Store!Listed(p))
          <6>1. Store!Listed(p) \subseteq Store!Artifacts
            BY <1>t, ListedTypes
          <6>2. MaxArtifacts \in Nat
            BY StoreConstants
          <6>3. IsFiniteSet(Store!Artifacts)
            BY <6>2, FS_Interval DEF Store!Artifacts
          <6>4. QED
            BY <6>1, <6>3, FS_Subset
        <5>6. /\ Cardinality(files) <= Cardinality(Store!Listed(p)) /\ Cardinality(files) \in Nat
              /\ Cardinality(Store!Listed(p)) \in Nat /\ Cardinality({}) = 0
          BY <5>2, <5>5, FS_Subset, FS_CardinalityType, FS_EmptySet
        <5>7. MaxTotal \in Nat
          BY StoreConstants
        <5>8. QED
          BY <5>4, <5>6, <5>7
      <4>3. QED
        BY <3>2, <4>1, <4>2
    <3>4. Others
      BY <2>1, <1>t DEF Store!End, Store!Goto, Store!TypeOK
    <3>5. QED
      BY <1>d, <3>1, <3>2, <3>3, <3>4, StoreControl
  <2>2. CASE /\ phase[p] = "reserve" /\ Store!Goto(p, "write")
             /\ UNCHANGED <<phase, listed, planned, failed, outcome>>
    <3>1. Store!TypeOK'
      BY <2>2, <1>t, <1>d DEF Store!Goto, Store!TypeOK, Store!disk
    <3>2. pc[p] = "verify" /\ pc'[p] = "write"
      BY <1>8, <2>2, <1>t DEF Store!Verify, Store!Goto, Store!TypeOK
    <3>3. ~Answers(p)
      BY <2>2, <3>2 DEF Answers
    <3>4. Others
      BY <2>2, <1>t DEF Store!Goto, Store!TypeOK
    <3>5. QED
      BY <2>2, <1>p, <1>d, <3>1, <3>2, <3>3, <3>4, StoreControl
  <2>3. QED
    BY <1>8, <2>1, <2>2 DEF Store!Verify
<1>9. QED
  BY <1>1, <1>2, <1>3, <1>4, <1>5, <1>6, <1>7, <1>8

(* Retention, deletion, the write and its confirmation. *)
LEMMA StoreWrites ==
  ASSUME StoreInv,
         \/ \E w \in Writers : Store!RetainStream(w) \/ Store!WriteTemporary(w) \/ Store!Replace(w)
         \/ \E p \in Store!Processes : Store!Delete(p)
         \/ Store!Expire \/ Store!ForeignUse
  PROVE  StoreInv'
<1>t. Store!TypeOK /\ PlanInv /\ Store!ActiveKept /\ NoticeInv
  BY DEF StoreInv
<1>n. /\ newest \in Nat /\ horizon \in Nat /\ Left <= newest /\ Left \in Nat
      /\ MaxArtifacts \in Nat /\ Foreign \in Nat /\ MaxTotal \in Nat
  BY StoreTypes, StoreConstants
<1>a. Store!Artifacts \subseteq Nat
  BY <1>n DEF Store!Artifacts
<1>s. files \subseteq Nat /\ Store!Artifacts \subseteq Nat
  BY <1>a, <1>t DEF Store!TypeOK
<1>1. ASSUME NEW w \in Writers, Store!RetainStream(w) PROVE StoreInv'
  <2>1. Store!Stream(w) # {}
    <3>1. Cardinality(Store!Stream(w)) >= Retained /\ Retained \in Nat \ {0}
      BY <1>1, SameCardinality, StoreConstants DEF Store!RetainStream
    <3>2. Cardinality({}) = 0
      BY FS_EmptySet
    <3>3. QED
      BY <3>1, <3>2
  <2>2. Store!Min(Store!Stream(w)) \in files \ temps
    BY <1>s, <2>1, NatMin DEF Store!Stream
  <2>3. /\ files' \subseteq files /\ temps \subseteq files'
        /\ UNCHANGED <<temps, owner, newest, horizon, foreign, pruned, pc, phase, listed,
                       planned, failed, outcome>>
    BY <1>1, <1>t, <2>2 DEF Store!RetainStream, Store!TypeOK
  <2>4. Store!TypeOK' /\ Store!ActiveKept'
    BY <1>t, <2>3 DEF Store!TypeOK, Store!ActiveKept
  <2>5. QED
    BY <2>3, <2>4, StoreRemoves
<1>2. ASSUME NEW p \in Store!Processes, Store!Delete(p) PROVE StoreInv'
  <2> DEFINE a == Store!Min(planned[p])
  <2>1. planned[p] \subseteq Store!Artifacts /\ planned[p] \cap Store!Active = {}
    BY <1>t DEF Store!TypeOK, PlanInv
  <2>2. a \in planned[p] /\ a \notin Store!Active
    BY <1>2, <1>s, <2>1, NatMin DEF Store!Delete
  <2>3. /\ files' = files \ {a} /\ pruned' \in {pruned, pruned \cup {a}}
        /\ planned' = [planned EXCEPT ![p] = @ \ {a}]
        /\ failed' \in [Store!Processes -> BOOLEAN]
        /\ UNCHANGED <<temps, owner, newest, horizon, foreign, pc, phase, listed, outcome>>
    BY <1>2, <1>t DEF Store!Delete, Store!TypeOK
  <2>4. temps \subseteq files'
    BY <1>t, <2>2, <2>3 DEF Store!TypeOK, PlanInv
  <2>5. /\ \A q \in Store!Processes : planned'[q] \subseteq planned[q]
        /\ planned' \in [Store!Processes -> SUBSET Store!Artifacts]
    BY <1>t, <2>3 DEF Store!TypeOK
  <2>6. pruned' \subseteq Store!Artifacts /\ Store!ActiveKept'
    BY <1>t, <2>1, <2>2, <2>3 DEF Store!TypeOK, Store!ActiveKept
  <2>7. Store!TypeOK'
    BY <1>t, <2>3, <2>4, <2>5, <2>6 DEF Store!TypeOK
  <2>8. QED
    BY <2>3, <2>5, <2>6, <2>7, StoreRemoves
<1>3. ASSUME NEW w \in Writers, Store!WriteTemporary(w) PROVE StoreInv'
  <2> DEFINE new == newest + 1
  <2>1. /\ pc[w] = "write" /\ newest < MaxArtifacts /\ newest' = new
        /\ files' = files \cup {new} /\ temps' = temps \cup {new}
        /\ owner' = [owner EXCEPT ![new] = w] /\ pc' = [pc EXCEPT ![w] = "replace"]
        /\ UNCHANGED <<horizon, foreign, pruned, phase, listed, planned, failed, outcome>>
    BY <1>3 DEF Store!WriteTemporary, Store!Goto
  <2>2. new \in Nat /\ new \in 1 .. MaxArtifacts /\ new \in 0 .. MaxArtifacts /\ new > Left
    BY <1>n, <2>1
  <2>3. new \in Store!Artifacts /\ new \in Store!Active /\ horizon \in 0 .. new
    <3>1. new \notin Inherited /\ new \in Store!Artifacts
      BY <2>2, <1>n, StoreConstants DEF Store!Artifacts
    <3>2. horizon \in 0 .. newest
      BY <1>t DEF Store!TypeOK
    <3>3. horizon \in 0 .. new
      BY <3>2, <1>n
    <3>4. QED
      BY <3>1, <3>3 DEF Store!Active, Inherited
  <2>4. owner' \in [Store!Artifacts -> Store!Processes] /\ owner'[new] = w
    BY <1>t, <2>1, <2>3 DEF Store!TypeOK, Store!Processes
  <2>5. pc'[w] = "replace" /\ phase[w] # "confirm"
    <3>1. w \in Store!Processes
      BY DEF Store!Processes
    <3>2. pc[w] \notin Enforcing
      BY <2>1 DEF Enforcing
    <3>3. QED
      BY <1>t, <2>1, <3>1, <3>2 DEF Store!TypeOK, NoticeInv
  <2>6. Store!TypeOK'
    BY <1>t, <2>1, <2>2, <2>3, <2>4 DEF Store!TypeOK
  <2>7. PlanInv' /\ Store!ActiveKept'
    BY <1>t, <1>n, <2>1, <2>2, <2>3 DEF PlanInv, Store!ActiveKept
  <2>8. NoticeInv'
    <3>1. \A q \in Store!Processes : phase'[q] = "confirm" => pc'[q] \in Enforcing
      BY <1>t, <2>1, <2>5 DEF NoticeInv, Store!TypeOK
    <3>2. newest' # Left /\ owner'[newest'] = w /\ Answers(w)' /\ pc'[w] # "verify"
      BY <2>1, <2>2, <2>4, <2>5, <1>n DEF Answers
    <3>3. QED
      BY <3>1, <3>2 DEF NoticeInv
  <2>9. QED
    BY <2>6, <2>7, <2>8 DEF StoreInv
<1>4. ASSUME NEW w \in Writers, Store!Replace(w) PROVE StoreInv'
  <2>1. /\ pc[w] = "replace" /\ temps' \subseteq temps
        /\ pc' = [pc EXCEPT ![w] = "list"] /\ phase' = [phase EXCEPT ![w] = "confirm"]
        /\ failed' = [failed EXCEPT ![w] = FALSE]
        /\ UNCHANGED <<files, owner, newest, horizon, foreign, pruned, listed, planned,
                       outcome>>
    BY <1>4 DEF Store!Replace, Store!Enforce, Store!Goto
  <2>2. w \in Store!Processes
    BY DEF Store!Processes
  <2>3. Store!TypeOK'
    BY <1>t, <2>1, <2>2 DEF Store!TypeOK
  <2>4. PlanInv' /\ Store!ActiveKept'
    BY <1>t, <2>1 DEF PlanInv, Store!ActiveKept
  <2>5. pc'[w] = "list" /\ phase'[w] = "confirm"
    BY <1>t, <2>1, <2>2 DEF Store!TypeOK
  <2>6. \A q \in Store!Processes \ {w} : pc'[q] = pc[q] /\ phase'[q] = phase[q]
    BY <1>t, <2>1 DEF Store!TypeOK
  <2>7. \A q \in Store!Processes : phase'[q] = "confirm" => pc'[q] \in Enforcing
    BY <1>t, <2>5, <2>6 DEF NoticeInv, Enforcing
  <2>8. ASSUME newest > Left
        PROVE  LET q == owner[newest] IN
               /\ q \in Writers
               /\ Cardinality(files) <= MaxTotal \/ Answers(q)'
               /\ pc'[q] = "verify" /\ phase'[q] = "confirm" => files \subseteq Store!Listed(q)'
    <3> DEFINE q == owner[newest]
    <3>1. /\ q \in Writers /\ (Cardinality(files) <= MaxTotal \/ Answers(q))
          /\ pc[q] = "verify" /\ phase[q] = "confirm" => files \subseteq Store!Listed(q)
      BY <1>t, <2>8 DEF NoticeInv
    <3>2. CASE q = w
      <4>1. Answers(w)'
        BY <2>5 DEF Answers
      <4>2. Answers(q)' /\ pc'[q] # "verify"
        BY <3>2, <4>1, <2>1, <2>5
      <4>3. QED
        BY <3>1, <4>2
    <3>3. CASE q # w
      <4>1. pc'[q] = pc[q] /\ phase'[q] = phase[q]
        BY <2>6, <3>1, <3>3 DEF Store!Processes
      <4>2. (Answers(q)' <=> Answers(q)) /\ Store!Listed(q)' = Store!Listed(q)
        BY <2>1, <4>1 DEF Answers, Store!Listed
      <4>3. QED
        BY <3>1, <4>1, <4>2
    <3>4. QED
      BY <3>2, <3>3
  <2>9. NoticeInv'
    BY <1>t, <2>1, <2>7, <2>8 DEF NoticeInv
  <2>10. QED
    BY <2>3, <2>4, <2>9 DEF StoreInv
<1>5. CASE Store!Expire
  <2>1. horizon' \in 0 .. newest
    BY <1>5, <1>n DEF Store!Expire
  <2>2. Store!TypeOK' /\ Store!ActiveKept'
    BY <1>5, <1>t, <2>1 DEF Store!Expire, Store!TypeOK, Store!ActiveKept
  <2>3. QED
    BY <1>5, <2>2, StoreRemoves DEF Store!Expire
<1>6. CASE Store!ForeignUse
  <2>f. foreign \in 0 .. Foreign
    BY <1>t DEF Store!TypeOK
  <2>1. foreign' \in 0 .. Foreign
    BY <1>6, <2>f, <1>n DEF Store!ForeignUse
  <2>2. Store!TypeOK' /\ Store!ActiveKept'
    BY <1>6, <1>t, <2>1 DEF Store!ForeignUse, Store!TypeOK, Store!ActiveKept
  <2>3. QED
    BY <1>6, <2>2, StoreRemoves DEF Store!ForeignUse
<1>7. QED
  BY <1>1, <1>2, <1>3, <1>4, <1>5, <1>6

(* Every step of the store keeps the invariant. *)
LEMMA StoreStep ==
  ASSUME StoreInv, [Store!Next]_storeVars
  PROVE  StoreInv'
<1>1. CASE UNCHANGED storeVars
  <2>1. Store!TypeOK' /\ Store!ActiveKept'
    BY <1>1 DEF storeVars, StoreInv, Store!TypeOK, Store!ActiveKept
  <2>2. QED
    BY <1>1, <2>1, StoreRemoves DEF storeVars
<1>2. CASE Store!Next
  <2>1. Watcher \in Store!Processes /\ Writers \subseteq Store!Processes
    BY DEF Store!Processes
  <2>2. QED
    BY <1>2, <2>1, StoreSteps, StoreWrites DEF Store!Next
<1>3. QED
  BY <1>1, <1>2

(* No enforcement of any process deletes an artifact of the active campaign,   *)
(* and a store over its limit does not go unnoticed, for any number of         *)
(* writers, any limits and any interleaving of their listings, deletions and   *)
(* writes (plan, enforce, persist_bounded_json_bytes_artifact).                *)
THEOREM ActiveCampaignKept == AttendantsSpec => []StoreSound
<1>1. AttendantsInit => StoreInv
  BY PartsInit, StoreInit
<1>2. StoreInv /\ [AttendantsNext]_allVars => StoreInv'
  BY PartsStep, StoreStep
<1>3. StoreInv => StoreSound
  BY StoreInvNotices DEF StoreInv, StoreSound
<1>4. QED
  BY <1>1, <1>2, <1>3, PTL DEF AttendantsSpec

-------------------------------------------------------------------------------
(* The watcher's decision.  Both of MCAttendants' watchers are watchers under  *)
(* every fault.                                                                *)
Watch == INSTANCE WatchFindings
  WITH Faults <- {"crash", "status", "storage", "persist"}, Threshold <- WatchThreshold,
       MaxStarts <- MaxStarts + 1, pc <- turn

(* The steps of a watcher that is not killed and whose sinks do not raise.     *)
Calm ==
  \/ Watch!RunChanges \/ Watch!HealthChanges \/ Watch!ReadabilityChanges
  \/ Watch!WatchSession \/ Watch!WatchContextRaises \/ Watch!SeeStopFile
  \/ Watch!TakeSample \/ Watch!AppendJsonl \/ Watch!WriteHeartbeat \/ Watch!Decide
  \/ Watch!PersistTerminal
  \/ Watch!FinishWatchFailure /\ heartbeat' = Watch!Beat(TRUE)

(* The watcher that is not killed is one of them. *)
LEMMA SteadyIsWatch ==
  ASSUME starts \in Nat, MaxStarts \in Nat, Steady!Next
  PROVE  Calm /\ Watch!Next
<1>1. Steady!RunChanges => Watch!RunChanges
  BY DEF Steady!RunChanges, Watch!RunChanges
<1>2. Steady!HealthChanges => Watch!HealthChanges
  BY DEF Steady!HealthChanges, Watch!HealthChanges
<1>3. Steady!ReadabilityChanges => Watch!ReadabilityChanges
  BY DEF Steady!ReadabilityChanges, Watch!ReadabilityChanges
<1>4. Steady!WatchSession => Watch!WatchSession
  BY DEF Steady!WatchSession, Steady!Restored, Steady!Zero, Steady!Smaller,
     Steady!NotRead, Steady!Ended, Steady!world, Steady!Gated,
     Watch!WatchSession, Watch!Restored, Watch!Zero, Watch!Smaller,
     Watch!NotRead, Watch!Ended, Watch!world, Watch!Gated
<1>5. Steady!WatchContextRaises => Watch!WatchContextRaises
  BY DEF Steady!WatchContextRaises, Steady!SampleOf, Steady!Advance,
     Steady!Terminal, Steady!NotRead, Steady!Ended, Steady!Zero, Steady!world,
     Steady!Gated, Steady!Immediate, Steady!PostReadiness, Steady!StatusFindings,
     Watch!WatchContextRaises, Watch!SampleOf, Watch!Advance, Watch!Terminal,
     Watch!NotRead, Watch!Ended, Watch!Zero, Watch!world, Watch!Gated,
     Watch!Immediate, Watch!PostReadiness, Watch!StatusFindings
<1>6. Steady!SeeStopFile => Watch!SeeStopFile
  BY DEF Steady!SeeStopFile, Steady!world, Watch!SeeStopFile, Watch!world
<1>7. Steady!TakeSample => Watch!TakeSample
  BY DEF Steady!TakeSample, Steady!SampleOf, Steady!Advance, Steady!Terminal,
     Steady!NotRead, Steady!world, Steady!Gated, Steady!Immediate,
     Steady!PostReadiness, Steady!StatusFindings, Watch!TakeSample,
     Watch!SampleOf, Watch!Advance, Watch!Terminal, Watch!NotRead, Watch!world,
     Watch!Gated, Watch!Immediate, Watch!PostReadiness, Watch!StatusFindings
<1>8. Steady!AppendJsonl => Watch!AppendJsonl
  BY DEF Steady!AppendJsonl, Steady!Record, Steady!world,
     Steady!PostReadiness, Steady!Smaller, Steady!Gated, Watch!AppendJsonl,
     Watch!Record, Watch!world, Watch!PostReadiness, Watch!Smaller, Watch!Gated
<1>9. Steady!WriteHeartbeat => Watch!WriteHeartbeat
  BY DEF Steady!WriteHeartbeat, Steady!Beat, Steady!world,
     Watch!WriteHeartbeat, Watch!Beat, Watch!world
<1>10. ~Steady!PersistRaises /\ ~Steady!Crash
  BY DEF Steady!PersistRaises, Steady!Crash
<1>11. Steady!Decide => Watch!Decide
  BY DEF Steady!Decide, Steady!world, Watch!Decide, Watch!world
<1>12. Steady!PersistTerminal => Watch!PersistTerminal
  BY DEF Steady!PersistTerminal, Steady!Beat, Steady!world,
     Watch!PersistTerminal, Watch!Beat, Watch!world
<1>13. Steady!FinishWatchFailure => Watch!FinishWatchFailure /\ heartbeat' = Watch!Beat(TRUE)
  BY DEF Steady!FinishWatchFailure, Steady!Beat, Watch!FinishWatchFailure, Watch!Beat
<1>14. Calm
  BY <1>1, <1>2, <1>3, <1>4, <1>5, <1>6, <1>7, <1>8, <1>9, <1>10, <1>11, <1>12, <1>13
     DEF Steady!Next, Steady!WatcherStep, Calm
<1>15. QED
  BY <1>14 DEF Calm, Watch!Next, Watch!WatcherStep

(* The watcher under every fault is one of them. *)
LEMMA ShakenIsWatch ==
  ASSUME starts \in Nat, MaxStarts \in Nat, Shaken!Next
  PROVE  Watch!Next
<1>1. Shaken!RunChanges => Watch!RunChanges
  BY DEF Shaken!RunChanges, Watch!RunChanges
<1>2. Shaken!HealthChanges => Watch!HealthChanges
  BY DEF Shaken!HealthChanges, Watch!HealthChanges
<1>3. Shaken!ReadabilityChanges => Watch!ReadabilityChanges
  BY DEF Shaken!ReadabilityChanges, Watch!ReadabilityChanges
<1>4. Shaken!WatchSession => Watch!WatchSession
  BY DEF Shaken!WatchSession, Shaken!Restored, Shaken!Zero, Shaken!Smaller,
     Shaken!NotRead, Shaken!Ended, Shaken!world, Shaken!Gated,
     Watch!WatchSession, Watch!Restored, Watch!Zero, Watch!Smaller,
     Watch!NotRead, Watch!Ended, Watch!world, Watch!Gated
<1>5. Shaken!WatchContextRaises => Watch!WatchContextRaises
  BY DEF Shaken!WatchContextRaises, Shaken!SampleOf, Shaken!Advance,
     Shaken!Terminal, Shaken!NotRead, Shaken!Ended, Shaken!Zero, Shaken!world,
     Shaken!Gated, Shaken!Immediate, Shaken!PostReadiness, Shaken!StatusFindings,
     Watch!WatchContextRaises, Watch!SampleOf, Watch!Advance, Watch!Terminal,
     Watch!NotRead, Watch!Ended, Watch!Zero, Watch!world, Watch!Gated,
     Watch!Immediate, Watch!PostReadiness, Watch!StatusFindings
<1>6. Shaken!SeeStopFile => Watch!SeeStopFile
  BY DEF Shaken!SeeStopFile, Shaken!world, Watch!SeeStopFile, Watch!world
<1>7. Shaken!TakeSample => Watch!TakeSample
  BY DEF Shaken!TakeSample, Shaken!SampleOf, Shaken!Advance, Shaken!Terminal,
     Shaken!NotRead, Shaken!world, Shaken!Gated, Shaken!Immediate,
     Shaken!PostReadiness, Shaken!StatusFindings, Watch!TakeSample,
     Watch!SampleOf, Watch!Advance, Watch!Terminal, Watch!NotRead, Watch!world,
     Watch!Gated, Watch!Immediate, Watch!PostReadiness, Watch!StatusFindings
<1>8. Shaken!AppendJsonl => Watch!AppendJsonl
  BY DEF Shaken!AppendJsonl, Shaken!Record, Shaken!world,
     Shaken!PostReadiness, Shaken!Smaller, Shaken!Gated, Watch!AppendJsonl,
     Watch!Record, Watch!world, Watch!PostReadiness, Watch!Smaller, Watch!Gated
<1>9. Shaken!WriteHeartbeat => Watch!WriteHeartbeat
  BY DEF Shaken!WriteHeartbeat, Shaken!Beat, Shaken!world,
     Watch!WriteHeartbeat, Watch!Beat, Watch!world
<1>10. Shaken!PersistRaises => Watch!PersistRaises
  BY DEF Shaken!PersistRaises, Shaken!Record, Shaken!world,
     Shaken!PostReadiness, Shaken!Smaller, Shaken!Gated, Watch!PersistRaises,
     Watch!Record, Watch!world, Watch!PostReadiness, Watch!Smaller, Watch!Gated
<1>11. Shaken!Decide => Watch!Decide
  BY DEF Shaken!Decide, Shaken!world, Watch!Decide, Watch!world
<1>12. Shaken!PersistTerminal => Watch!PersistTerminal
  BY DEF Shaken!PersistTerminal, Shaken!Beat, Shaken!world,
     Watch!PersistTerminal, Watch!Beat, Watch!world
<1>13. Shaken!FinishWatchFailure => Watch!FinishWatchFailure
  BY DEF Shaken!FinishWatchFailure, Shaken!Beat, Watch!FinishWatchFailure,
     Watch!Beat
<1>14. Shaken!Crash => Watch!Crash
  BY DEF Shaken!Crash, Shaken!world, Shaken!Ended, Watch!Crash, Watch!world,
     Watch!Ended
<1>15. QED
  BY <1>1, <1>2, <1>3, <1>4, <1>5, <1>6, <1>7, <1>8, <1>9, <1>10, <1>11,
     <1>12, <1>13, <1>14 DEF Shaken!Next, Shaken!WatcherStep, Watch!Next,
     Watch!WatcherStep

Findings == Watch!Gated \cup Watch!Immediate \cup {"reported"}
Resting == {"down", "stopped", "failed"}
Recorded == {"heartbeat", "decide", "failing", "stopping"}
Runs == {"none", "starting", "running", "failed"}
Carried(f) == Watch!Restored(heartbeat)[f]

WatchTypes ==
  /\ run \in {"starting", "running", "failed"} /\ up \in BOOLEAN /\ readable \in BOOLEAN
  /\ ill \subseteq {"rest", "writer", "guard"}
  /\ heartbeat \in [campaign : {"earlier", "this"}, shutdown : BOOLEAN,
                    streaks : [Watch!Gated -> 0 .. (WatchThreshold + 1)]]
  /\ turn \in Watch!Points /\ streaks \in [Watch!Gated -> 0 .. (WatchThreshold + 1)]
  /\ lastRead \in [run : Runs, up : BOOLEAN]
  /\ sample \in [findings : SUBSET Findings, run : Runs, up : BOOLEAN, ok : BOOLEAN,
                 terminal : SUBSET Findings]
  /\ starts \in 0 .. (MaxStarts + 1) /\ row \in [Watch!Gated -> Nat]
  /\ lost \in 0 .. (WatchThreshold + 1) /\ verdict \subseteq Findings

(* A sample that is not recorded yet, or was the last one recorded, is         *)
(* annotated from the streaks it advanced.                                     *)
SampleInv ==
  turn \in Recorded \cup {"append"} =>
    /\ sample.terminal = Watch!Terminal(sample, streaks)
    /\ \A f \in Watch!Gated :
         streaks[f] > 0 <=> f \in sample.findings /\ Watch!PostReadiness(sample)

(* How far the samples with a finding may be ahead of its streak: the watcher  *)
(* loses at most one of them each time it is started again.                    *)
Behind(f, streak, n) == row[f] <= Watch!Smaller(streak, WatchThreshold - 1) + n

RowInv ==
  \A f \in Watch!Gated :
    /\ row[f] < WatchThreshold + starts
    /\ ~heartbeat.shutdown => Behind(f, Carried(f), starts)
    /\ turn = "top" => streaks[f] = Carried(f) /\ Behind(f, streaks[f], starts - 1)
    /\ turn = "append" /\ streaks[f] > 0 =>
         streaks[f] - 1 = Carried(f) /\ Behind(f, streaks[f] - 1, starts - 1)
    /\ turn \in Recorded => IF streaks[f] > 0 THEN Behind(f, streaks[f] - 1, starts)
                            ELSE row[f] = 0

TurnInv ==
  /\ turn \notin Resting => starts > 0
  /\ turn = "decide" => heartbeat = Watch!Beat(FALSE)

(* Without a kill or a failing sink no streak is ahead of the samples.         *)
SteadyInv ==
  scope = "steady" =>
    /\ \A f \in Watch!Gated :
         /\ turn \in Resting => Carried(f) <= row[f]
         /\ turn \in {"top"} \cup Recorded => streaks[f] <= row[f]
         /\ turn = "append" => streaks[f] <= row[f] + 1
    /\ turn \in {"top", "append", "heartbeat", "decide"} => verdict = {}
    /\ Steady!TransientTolerated

WatchInv == WatchTypes /\ SampleInv /\ RowInv /\ TurnInv /\ SteadyInv

(* The constants of the watcher. *)
LEMMA WatchConstants ==
  WatchThreshold \in Nat \ {0} /\ MaxStarts \in Nat
BY PartsAssumption DEF Shaken!WatchAssumption

(* What a restarted watcher starts from. *)
LEMMA CarriedType ==
  ASSUME WatchTypes, NEW f \in Watch!Gated
  PROVE  /\ Carried(f) \in 0 .. WatchThreshold
         /\ streaks[f] \in Nat /\ row[f] \in Nat /\ heartbeat.streaks[f] \in Nat
         /\ starts \in Nat
<1>1. WatchThreshold \in Nat \ {0} /\ MaxStarts \in Nat
  BY WatchConstants
<1>2. /\ heartbeat.streaks[f] \in 0 .. (WatchThreshold + 1) /\ row[f] \in Nat
      /\ streaks[f] \in 0 .. (WatchThreshold + 1) /\ starts \in 0 .. (MaxStarts + 1)
  BY DEF WatchTypes
<1>3. heartbeat.streaks[f] \in Nat /\ row[f] \in Nat /\ streaks[f] \in Nat /\ starts \in Nat
  BY <1>1, <1>2
<1>4. Carried(f) \in {0, heartbeat.streaks[f], WatchThreshold} /\ Carried(f) <= WatchThreshold
  BY <1>1, <1>3 DEF Carried, Watch!Restored, Watch!Zero, Watch!Smaller
<1>5. Carried(f) \in Nat
  BY <1>1, <1>3, <1>4
<1>6. QED
  BY <1>1, <1>3, <1>4, <1>5

(* Nothing has been watched at first. *)
LEMMA WatchInit ==
  ASSUME Steady!Init
  PROVE  WatchInv
<1>n. WatchThreshold \in Nat \ {0} /\ MaxStarts \in Nat
  BY WatchConstants
<1>z. /\ 0 \in 0 .. (WatchThreshold + 1) /\ WatchThreshold - 1 \in 0 .. (WatchThreshold + 1)
      /\ 0 \in 0 .. (MaxStarts + 1) /\ WatchThreshold > 0 /\ WatchThreshold - 1 >= 0
  BY <1>n
<1>g. Steady!Gated = Watch!Gated
  BY DEF Steady!Gated, Watch!Gated
<1>h. /\ heartbeat = [campaign |-> "earlier", shutdown |-> FALSE,
                      streaks |-> [f \in Watch!Gated |-> WatchThreshold - 1]]
      /\ turn = "down" /\ starts = 0 /\ row = [f \in Watch!Gated |-> 0]
      /\ streaks = [f \in Watch!Gated |-> 0] /\ verdict = {} /\ lost = 0
  BY <1>g DEF Steady!Init, Steady!OldHeartbeat, Steady!Zero
<1>1. WatchTypes
  <2>1. run = "starting" /\ up = TRUE /\ ill = {} /\ readable = TRUE
    BY DEF Steady!Init
  <2>2. lastRead \in [run : Runs, up : BOOLEAN]
    BY DEF Steady!Init, Steady!NotRead, Runs
  <2>3. sample \in [findings : SUBSET Findings, run : Runs, up : BOOLEAN, ok : BOOLEAN,
                    terminal : SUBSET Findings]
    BY DEF Steady!Init, Steady!NoSample, Runs
  <2>4. QED
    BY <1>z, <1>h, <2>1, <2>2, <2>3 DEF WatchTypes, Watch!Points
<1>2. \A f \in Watch!Gated : Carried(f) = 0 /\ row[f] = 0
  BY <1>h DEF Carried, Watch!Restored, Watch!Zero
<1>3. RowInv
  <2>1. \A f \in Watch!Gated : Behind(f, Carried(f), starts)
    BY <1>z, <1>h, <1>2, <1>n DEF Behind, Watch!Smaller
  <2>2. QED
    BY <1>z, <1>h, <1>2, <1>n, <2>1 DEF RowInv, Recorded
<1>4. SampleInv /\ TurnInv
  BY <1>h DEF SampleInv, TurnInv, Recorded, Resting
<1>5. SteadyInv
  BY <1>h, <1>2 DEF SteadyInv, Recorded, Resting, Steady!TransientTolerated
<1>6. QED
  BY <1>1, <1>3, <1>4, <1>5 DEF WatchInv

CoreInv == WatchTypes /\ SampleInv /\ RowInv /\ TurnInv

(* Steps that touch neither heartbeat, streaks nor samples. *)
LEMMA CoreKept ==
  ASSUME CoreInv, WatchTypes', UNCHANGED <<heartbeat, streaks, starts, row, sample>>,
         turn' = turn \/ turn' \in Resting
  PROVE  CoreInv'
<1>1. SampleInv'
  BY DEF CoreInv, SampleInv, Recorded, Resting, Watch!Terminal, Watch!PostReadiness
<1>2. \A f \in Watch!Gated : Carried(f)' = Carried(f)
  BY DEF Carried, Watch!Restored, Watch!Zero
<1>3. RowInv'
  BY <1>2 DEF CoreInv, RowInv, Behind, Recorded, Resting
<1>4. TurnInv'
  BY DEF CoreInv, TurnInv, Resting, Watch!Beat
<1>5. QED
  BY <1>1, <1>3, <1>4 DEF CoreInv

(* Steps that write the heartbeat once a sample is recorded. *)
LEMMA CoreBeats ==
  ASSUME CoreInv, WatchTypes', UNCHANGED <<streaks, starts, row, sample>>,
         turn \in Recorded, turn' \in {"decide", "stopping"} \cup Resting,
         heartbeat' \in {heartbeat, Watch!Beat(FALSE), Watch!Beat(TRUE)},
         turn' = "decide" => heartbeat' = Watch!Beat(FALSE)
  PROVE  CoreInv'
<1>1. SampleInv'
  BY DEF CoreInv, SampleInv, Recorded, Resting, Watch!Terminal, Watch!PostReadiness
<1>2. RowInv'
  <2> SUFFICES ASSUME NEW f \in Watch!Gated
               PROVE  /\ row[f] < WatchThreshold + starts
                      /\ ~heartbeat'.shutdown => Behind(f, Carried(f), starts)'
                      /\ turn' \in Recorded => IF streaks[f] > 0 THEN Behind(f, streaks[f] - 1, starts)
                                               ELSE row[f] = 0
    BY DEF RowInv, Resting, Behind
  <2>1. /\ row[f] < WatchThreshold + starts
        /\ ~heartbeat.shutdown => Behind(f, Carried(f), starts)
        /\ IF streaks[f] > 0 THEN Behind(f, streaks[f] - 1, starts) ELSE row[f] = 0
    BY DEF CoreInv, RowInv
  <2>2. ASSUME heartbeat' = heartbeat PROVE Carried(f)' = Carried(f)
    BY <2>2 DEF Carried, Watch!Restored, Watch!Zero
  <2>3. ASSUME heartbeat' = Watch!Beat(FALSE)
        PROVE  Carried(f)' = Watch!Smaller(streaks[f], WatchThreshold)
    BY <2>3 DEF Carried, Watch!Restored, Watch!Beat
  <2>4. WatchThreshold \in Nat \ {0} /\ streaks[f] \in Nat /\ row[f] \in Nat /\ starts \in Nat
    BY WatchConstants, CarriedType DEF CoreInv
  <2>5. ASSUME heartbeat' = Watch!Beat(FALSE) PROVE Behind(f, Carried(f), starts)'
    BY <2>1, <2>3, <2>4, <2>5 DEF Behind, Watch!Smaller
  <2>6. heartbeat' = Watch!Beat(TRUE) => heartbeat'.shutdown
    BY DEF Watch!Beat
  <2>7. QED
    BY <2>1, <2>2, <2>5, <2>6 DEF Behind
<1>3. TurnInv'
  BY DEF CoreInv, TurnInv, Resting, Recorded, Watch!Beat
<1>4. QED
  BY <1>1, <1>2, <1>3 DEF CoreInv

(* The annotation of a sample names findings. *)
LEMMA TerminalFindings ==
  ASSUME NEW s, NEW new, s.findings \subseteq Findings
  PROVE  Watch!Terminal(s, new) \subseteq Findings
BY DEF Watch!Terminal, Findings

(* A sample, of whatever status was read. *)
LEMMA SampleTypes ==
  ASSUME WatchTypes, NEW read \in [run : Runs, up : BOOLEAN], NEW ok \in BOOLEAN,
         NEW old \in [Watch!Gated -> 0 .. WatchThreshold]
  PROVE  LET s == Watch!SampleOf(read, ok)
             new == Watch!Advance(old, s)
         IN /\ [s EXCEPT !.terminal = Watch!Terminal(s, new)]
                 \in [findings : SUBSET Findings, run : Runs, up : BOOLEAN, ok : BOOLEAN,
                      terminal : SUBSET Findings]
            /\ new \in [Watch!Gated -> 0 .. (WatchThreshold + 1)]
            /\ \A f \in Watch!Gated :
                 /\ new[f] > 0 <=> f \in s.findings /\ Watch!PostReadiness(s)
                 /\ new[f] > 0 => new[f] = old[f] + 1
            /\ Watch!Terminal([s EXCEPT !.terminal = Watch!Terminal(s, new)], new)
                 = Watch!Terminal(s, new)
<1> DEFINE s == Watch!SampleOf(read, ok)
           new == Watch!Advance(old, s)
<1>n. WatchThreshold \in Nat \ {0}
  BY WatchConstants
<1>1. s.findings \subseteq Findings
  BY DEF Watch!SampleOf, Watch!StatusFindings, Findings, Watch!Gated, Watch!Immediate
<1>2. Watch!Terminal(s, new) \subseteq Findings
  BY <1>1, TerminalFindings
<1>3. /\ s = [findings |-> s.findings, run |-> read.run, up |-> read.up, ok |-> ok, terminal |-> {}]
  BY DEF Watch!SampleOf
<1>4. [s EXCEPT !.terminal = Watch!Terminal(s, new)]
        = [findings |-> s.findings, run |-> read.run, up |-> read.up, ok |-> ok,
           terminal |-> Watch!Terminal(s, new)]
  <2> DEFINE t == Watch!Terminal(s, new)
             g == s.findings
  <2> HIDE DEF t, g, s
  <2>1. QED
    BY <1>3
<1>5. [s EXCEPT !.terminal = Watch!Terminal(s, new)]
         \in [findings : SUBSET Findings, run : Runs, up : BOOLEAN, ok : BOOLEAN,
              terminal : SUBSET Findings]
  <2> DEFINE t == Watch!Terminal(s, new)
             g == s.findings
  <2>1. t \in SUBSET Findings /\ g \in SUBSET Findings
    BY <1>1, <1>2
  <2> HIDE DEF t, g
  <2>2. QED
    BY <1>4, <2>1 DEF t, g
<1>6. \A f \in Watch!Gated : old[f] \in Nat /\ old[f] <= WatchThreshold
  BY <1>n
<1>7. \A f \in Watch!Gated :
        new[f] = IF f \in s.findings /\ Watch!PostReadiness(s) THEN old[f] + 1 ELSE 0
  BY DEF Watch!Advance
<1>8. new \in [Watch!Gated -> 0 .. (WatchThreshold + 1)]
  <2>1. \A f \in Watch!Gated : new[f] \in 0 .. (WatchThreshold + 1)
    BY <1>n, <1>6, <1>7
  <2>2. new = [f \in Watch!Gated |-> new[f]]
    BY DEF Watch!Advance
  <2> HIDE DEF new
  <2>3. QED
    BY <2>1, <2>2
<1>9. \A f \in Watch!Gated :
        /\ new[f] > 0 <=> f \in s.findings /\ Watch!PostReadiness(s)
        /\ new[f] > 0 => new[f] = old[f] + 1
  <2> HIDE DEF new, s
  <2>1. QED
    BY <1>6, <1>7
<1>10. Watch!Terminal([s EXCEPT !.terminal = Watch!Terminal(s, new)], new) = Watch!Terminal(s, new)
  <2> DEFINE u == [s EXCEPT !.terminal = Watch!Terminal(s, new)]
  <2>1. u.findings = s.findings /\ u.run = s.run
    BY <1>3
  <2> HIDE DEF u, new, s
  <2>2. Watch!Terminal(u, new) = Watch!Terminal(s, new)
    BY <2>1 DEF Watch!Terminal, Watch!PostReadiness
  <2>3. QED
    BY <2>2 DEF u
<1>11. QED
  BY <1>5, <1>8, <1>9, <1>10

(* Recording a sample: a finding in it is one more in the row, any other is    *)
(* none.                                                                       *)
LEMMA CoreRecords ==
  ASSUME CoreInv, WatchTypes', turn = "append", turn' \in {"heartbeat", "failing"}, Watch!Record,
         UNCHANGED <<heartbeat, streaks, starts>>,
         sample'.findings = sample.findings, sample'.run = sample.run,
         sample'.terminal = sample.terminal
  PROVE  CoreInv'
<1>1. SampleInv'
  BY DEF CoreInv, SampleInv, Recorded, Watch!Terminal, Watch!PostReadiness
<1>2. RowInv'
  <2> SUFFICES ASSUME NEW f \in Watch!Gated
               PROVE  /\ row'[f] < WatchThreshold + starts
                      /\ ~heartbeat.shutdown => Behind(f, Carried(f), starts)'
                      /\ IF streaks[f] > 0 THEN Behind(f, streaks[f] - 1, starts)' ELSE row'[f] = 0
    BY DEF RowInv, Behind
  <2>1. /\ row[f] < WatchThreshold + starts /\ starts > 0
        /\ streaks[f] > 0 => streaks[f] - 1 = Carried(f) /\ Behind(f, streaks[f] - 1, starts - 1)
        /\ streaks[f] > 0 <=> f \in sample.findings /\ Watch!PostReadiness(sample)
    BY DEF CoreInv, RowInv, TurnInv, SampleInv, Resting
  <2>2. row'[f] = IF streaks[f] > 0 THEN row[f] + 1 ELSE 0
    BY <2>1 DEF Watch!Record
  <2>3. Carried(f)' = Carried(f)
    BY DEF Carried, Watch!Restored, Watch!Zero
  <2>4. /\ WatchThreshold \in Nat \ {0} /\ streaks[f] \in Nat /\ row[f] \in Nat /\ starts \in Nat
        /\ Carried(f) \in Nat
    BY WatchConstants, CarriedType DEF CoreInv
  <2>5. CASE streaks[f] > 0
    BY <2>1, <2>2, <2>3, <2>4, <2>5 DEF Behind, Watch!Smaller
  <2>6. CASE ~(streaks[f] > 0)
    BY <2>1, <2>2, <2>3, <2>4, <2>6 DEF Behind, Watch!Smaller
  <2>7. QED
    BY <2>5, <2>6
<1>3. TurnInv'
  BY DEF CoreInv, TurnInv, Resting
<1>4. QED
  BY <1>1, <1>2, <1>3 DEF CoreInv

(* Counting a lost sample keeps the count within its bound. *)
LEMMA RecordTypes ==
  ASSUME WatchTypes, Watch!Record
  PROVE  row' \in [Watch!Gated -> Nat] /\ lost' \in 0 .. (WatchThreshold + 1)
<1>1. WatchThreshold \in Nat \ {0}
  BY WatchConstants
<1>2. lost \in 0 .. (WatchThreshold + 1) /\ row \in [Watch!Gated -> Nat]
  BY DEF WatchTypes
<1>3. lost' \in 0 .. (WatchThreshold + 1)
  BY <1>1, <1>2 DEF Watch!Record, Watch!Smaller
<1>4. row' \in [Watch!Gated -> Nat]
  BY <1>2 DEF Watch!Record
<1>5. QED
  BY <1>3, <1>4

(* Every step of a watcher, whatever fails, keeps the streaks and the rows of  *)
(* samples in step.                                                            *)
LEMMA CoreStep ==
  ASSUME CoreInv, Watch!Next
  PROVE  CoreInv'
<1>t. WatchTypes
  BY DEF CoreInv
<1>n. WatchThreshold \in Nat \ {0} /\ MaxStarts \in Nat /\ starts \in 0 .. (MaxStarts + 1)
  BY <1>t, WatchConstants DEF WatchTypes
<1>z. 0 \in 0 .. (WatchThreshold + 1) /\ starts \in Nat
  BY <1>n
<1>b. \A x \in BOOLEAN : Watch!Beat(x) \in [campaign : {"earlier", "this"}, shutdown : BOOLEAN,
                                          streaks : [Watch!Gated -> 0 .. (WatchThreshold + 1)]]
  BY <1>t DEF WatchTypes, Watch!Beat
<1>1. CASE Watch!RunChanges \/ Watch!HealthChanges \/ Watch!ReadabilityChanges
  <2>1. /\ run' \in {"starting", "running", "failed"} /\ up' \in BOOLEAN
        /\ ill' \subseteq {"rest", "writer", "guard"} /\ readable' \in BOOLEAN
        /\ UNCHANGED <<heartbeat, turn, lastRead, sample, streaks, starts, row, lost, verdict>>
    BY <1>1, <1>t DEF WatchTypes, Watch!RunChanges, Watch!HealthChanges,
       Watch!ReadabilityChanges
  <2>2. WatchTypes'
    BY <1>t, <2>1 DEF WatchTypes
  <2>3. QED
    BY <2>1, <2>2, CoreKept
<1>2. CASE Watch!WatchSession
  <2>1. /\ turn \in Resting /\ starts < MaxStarts + 1 /\ turn' = "top" /\ starts' = starts + 1
        /\ lastRead' = Watch!NotRead /\ streaks' = Watch!Restored(heartbeat)
        /\ row' = IF heartbeat.shutdown THEN Watch!Zero ELSE row
        /\ lost' = 0 /\ verdict' = {} /\ UNCHANGED <<run, up, ill, readable, heartbeat, sample>>
    BY <1>2 DEF Watch!WatchSession, Watch!Ended, Resting, Watch!world
  <2>2. starts' \in 0 .. (MaxStarts + 1)
    BY <1>n, <2>1
  <2>3. \A f \in Watch!Gated : Carried(f) \in 0 .. (WatchThreshold + 1) /\ Carried(f) \in 0 .. WatchThreshold
    BY <1>t, <1>n, CarriedType
  <2>4. streaks' \in [Watch!Gated -> 0 .. (WatchThreshold + 1)]
    <3>1. Watch!Restored(heartbeat) = [f \in Watch!Gated |-> Carried(f)]
      BY DEF Carried, Watch!Restored, Watch!Zero
    <3>2. QED
      BY <2>1, <2>3, <3>1
  <2>5. row' \in [Watch!Gated -> Nat]
    BY <1>t, <2>1 DEF WatchTypes, Watch!Zero
  <2>6. WatchTypes'
    <3>1. lastRead' \in [run : Runs, up : BOOLEAN]
      BY <2>1 DEF Watch!NotRead, Runs
    <3>2. QED
      BY <1>t, <1>z, <2>1, <2>2, <2>4, <2>5, <3>1 DEF WatchTypes, Watch!Points
  <2>7. RowInv'
    <3> SUFFICES ASSUME NEW f \in Watch!Gated
                 PROVE  /\ row'[f] < WatchThreshold + starts'
                        /\ ~heartbeat.shutdown => Behind(f, Carried(f), starts)'
                        /\ streaks'[f] = Carried(f)' /\ Behind(f, streaks[f], starts - 1)'
      BY <2>1 DEF RowInv, Recorded
    <3>1. Carried(f)' = Carried(f) /\ streaks'[f] = Carried(f)
      BY <2>1 DEF Carried, Watch!Restored, Watch!Zero
    <3>2. /\ row[f] < WatchThreshold + starts
          /\ ~heartbeat.shutdown => Behind(f, Carried(f), starts)
      BY DEF CoreInv, RowInv
    <3>3. Carried(f) \in Nat /\ row[f] \in Nat
      BY <1>t, CarriedType
    <3>4. row'[f] = IF heartbeat.shutdown THEN 0 ELSE row[f]
      BY <2>1 DEF Watch!Zero
    <3>5. QED
      BY <1>n, <1>z, <2>1, <3>1, <3>2, <3>3, <3>4 DEF Behind, Watch!Smaller
  <2>8. SampleInv' /\ TurnInv'
    BY <1>z, <2>1 DEF SampleInv, TurnInv, Recorded
  <2>9. QED
    BY <2>6, <2>7, <2>8 DEF CoreInv
<1>3. CASE Watch!WatchContextRaises
  <2> DEFINE read == IF readable THEN [run |-> run, up |-> up] ELSE Watch!NotRead
             s == Watch!SampleOf(read, FALSE)
             new == Watch!Advance(Watch!Zero, s)
             noted == [s EXCEPT !.terminal = Watch!Terminal(s, new)]
  <2>1. /\ turn' = "failing" /\ starts < MaxStarts + 1 /\ starts' = starts + 1
        /\ lastRead' = Watch!NotRead /\ streaks' = new /\ sample' = noted
        /\ verdict' = Watch!Terminal(s, new) /\ row' = new /\ lost' = 0
        /\ UNCHANGED <<run, up, ill, readable, heartbeat>>
    BY <1>3 DEF Watch!WatchContextRaises, Watch!world
  <2>2. read \in [run : Runs, up : BOOLEAN] /\ Watch!NotRead \in [run : Runs, up : BOOLEAN]
    BY <1>t DEF WatchTypes, Watch!NotRead, Runs
  <2>3. Watch!Zero \in [Watch!Gated -> 0 .. WatchThreshold]
    BY <1>n DEF Watch!Zero
  <2>4. /\ noted \in [findings : SUBSET Findings, run : Runs, up : BOOLEAN, ok : BOOLEAN,
                      terminal : SUBSET Findings]
        /\ new \in [Watch!Gated -> 0 .. (WatchThreshold + 1)]
        /\ \A f \in Watch!Gated :
             /\ new[f] > 0 <=> f \in s.findings /\ Watch!PostReadiness(s)
             /\ new[f] > 0 => new[f] = Watch!Zero[f] + 1
        /\ Watch!Terminal(noted, new) = Watch!Terminal(s, new)
    BY <1>t, <2>2, <2>3, SampleTypes
  <2>5. /\ noted.findings = s.findings /\ noted.run = s.run
        /\ noted.terminal = Watch!Terminal(s, new)
    BY DEF Watch!SampleOf
  <2> HIDE DEF read, s, new, noted
  <2>6. \A f \in Watch!Gated : new[f] \in {0, 1}
    BY <1>n, <2>4 DEF Watch!Zero
  <2>7. WatchTypes'
    <3>1. starts' \in 0 .. (MaxStarts + 1)
      BY <1>n, <2>1
    <3>2. row' \in [Watch!Gated -> Nat] /\ verdict' \subseteq Findings
      BY <1>n, <2>1, <2>4, <2>5
    <3>3. QED
      BY <1>t, <1>z, <2>1, <2>2, <2>4, <3>1, <3>2 DEF WatchTypes, Watch!Points
  <2>8. SampleInv'
    BY <2>1, <2>4, <2>5 DEF SampleInv, Watch!PostReadiness
  <2>9. RowInv'
    <3> SUFFICES ASSUME NEW f \in Watch!Gated
                 PROVE  /\ row'[f] < WatchThreshold + starts'
                        /\ ~heartbeat.shutdown => Behind(f, Carried(f), starts)'
                        /\ IF streaks'[f] > 0 THEN Behind(f, streaks[f] - 1, starts)'
                           ELSE row'[f] = 0
      BY <2>1 DEF RowInv, Recorded
    <3>1. Carried(f)' = Carried(f) /\ Carried(f) \in Nat
      BY <1>t, <2>1, CarriedType DEF Carried, Watch!Restored, Watch!Zero
    <3>2. row'[f] = streaks'[f] /\ streaks'[f] \in {0, 1} /\ starts' = starts + 1
      BY <2>1, <2>6
    <3>3. QED
      BY <1>n, <1>z, <3>1, <3>2 DEF Behind, Watch!Smaller
  <2>10. TurnInv'
    BY <1>z, <2>1 DEF TurnInv
  <2>11. QED
    BY <2>7, <2>8, <2>9, <2>10 DEF CoreInv
<1>4. CASE Watch!SeeStopFile \/ Watch!Crash
  <2>1. /\ turn' \in Resting
        /\ UNCHANGED <<run, up, ill, readable, heartbeat, lastRead, sample, streaks, starts,
                       row, lost, verdict>>
    BY <1>4 DEF Watch!SeeStopFile, Watch!Crash, Watch!world, Resting
  <2>2. WatchTypes'
    BY <1>t, <2>1 DEF WatchTypes, Resting, Watch!Points, Watch!Ended
  <2>3. QED
    BY <2>1, <2>2, CoreKept
<1>5. CASE Watch!TakeSample
  <2> DEFINE read == IF readable THEN [run |-> run, up |-> up]
                     ELSE IF lastRead # Watch!NotRead THEN lastRead
                     ELSE [run |-> "running", up |-> TRUE]
  <2>1. PICK ok \in BOOLEAN :
          LET s == Watch!SampleOf(read, ok)
              new == Watch!Advance(streaks, s)
          IN streaks' = new /\ sample' = [s EXCEPT !.terminal = Watch!Terminal(s, new)]
    BY <1>5 DEF Watch!TakeSample
  <2> DEFINE s == Watch!SampleOf(read, ok)
             new == Watch!Advance(streaks, s)
             noted == [s EXCEPT !.terminal = Watch!Terminal(s, new)]
  <2>2. /\ turn = "top" /\ turn' = "append" /\ streaks' = new /\ sample' = noted
        /\ lastRead' = IF readable THEN [run |-> run, up |-> up] ELSE lastRead
        /\ UNCHANGED <<run, up, ill, readable, heartbeat, starts, row, lost, verdict>>
    BY <1>5, <2>1 DEF Watch!TakeSample, Watch!world
  <2>3. read \in [run : Runs, up : BOOLEAN] /\ lastRead' \in [run : Runs, up : BOOLEAN]
    BY <1>t, <2>2 DEF WatchTypes, Runs
  <2> HIDE DEF read
  <2>4. \A f \in Watch!Gated : /\ streaks[f] = Carried(f) /\ Behind(f, streaks[f], starts - 1)
                               /\ Carried(f) \in 0 .. WatchThreshold
    BY <1>t, <2>2, CarriedType DEF CoreInv, RowInv
  <2>5. streaks \in [Watch!Gated -> 0 .. WatchThreshold]
    BY <1>t, <2>4 DEF WatchTypes
  <2>6. /\ noted \in [findings : SUBSET Findings, run : Runs, up : BOOLEAN, ok : BOOLEAN,
                      terminal : SUBSET Findings]
        /\ new \in [Watch!Gated -> 0 .. (WatchThreshold + 1)]
        /\ \A f \in Watch!Gated :
             /\ new[f] > 0 <=> f \in s.findings /\ Watch!PostReadiness(s)
             /\ new[f] > 0 => new[f] = streaks[f] + 1
        /\ Watch!Terminal(noted, new) = Watch!Terminal(s, new)
    BY <1>t, <2>3, <2>5, SampleTypes
  <2>7. /\ noted.findings = s.findings /\ noted.run = s.run
        /\ noted.terminal = Watch!Terminal(s, new)
    BY DEF Watch!SampleOf
  <2> HIDE DEF s, new, noted
  <2>8. WatchTypes'
    BY <1>t, <2>2, <2>3, <2>6 DEF WatchTypes, Watch!Points
  <2>9. SampleInv'
    BY <2>2, <2>6, <2>7 DEF SampleInv, Watch!PostReadiness
  <2>10. RowInv'
    <3> SUFFICES ASSUME NEW f \in Watch!Gated
                 PROVE  /\ row[f] < WatchThreshold + starts
                        /\ ~heartbeat.shutdown => Behind(f, Carried(f), starts)
                        /\ streaks'[f] > 0 => /\ streaks'[f] - 1 = Carried(f)
                                              /\ Behind(f, streaks'[f] - 1, starts - 1)
      <4>1. \A f \in Watch!Gated : Carried(f)' = Carried(f)
        BY <2>2 DEF Carried, Watch!Restored, Watch!Zero
      <4>2. QED
        BY <2>2, <4>1 DEF RowInv, Recorded, Behind
    <3>1. streaks'[f] > 0 => streaks'[f] = streaks[f] + 1
      BY <2>2, <2>6
    <3>2. streaks[f] \in Nat
      BY <1>t, CarriedType
    <3>3. streaks'[f] > 0 => streaks'[f] - 1 = streaks[f]
      BY <3>1, <3>2
    <3>4. QED
      BY <2>4, <3>3 DEF CoreInv, RowInv
  <2>11. TurnInv'
    BY <2>2 DEF CoreInv, TurnInv, Resting
  <2>12. QED
    BY <2>8, <2>9, <2>10, <2>11 DEF CoreInv
<1>6. CASE Watch!AppendJsonl
  <2>1. /\ turn = "append" /\ turn' = "heartbeat" /\ Watch!Record
        /\ UNCHANGED <<run, up, ill, readable, heartbeat, lastRead, sample, streaks, starts,
                       verdict>>
    BY <1>6 DEF Watch!AppendJsonl, Watch!world
  <2>2. WatchTypes'
    BY <1>t, <2>1, RecordTypes DEF WatchTypes, Watch!Points
  <2>3. QED
    BY <2>1, <2>2, CoreRecords
<1>7. CASE Watch!WriteHeartbeat \/ Watch!PersistTerminal \/ Watch!FinishWatchFailure
  <2>1. /\ turn \in Recorded /\ turn' \in {"decide", "stopping"} \cup Resting
        /\ heartbeat' \in {heartbeat, Watch!Beat(FALSE), Watch!Beat(TRUE)}
        /\ turn' = "decide" => heartbeat' = Watch!Beat(FALSE)
        /\ up' \in {up, FALSE}
        /\ UNCHANGED <<run, ill, readable, lastRead, sample, streaks, starts, row, lost,
                       verdict>>
    BY <1>7 DEF Watch!WriteHeartbeat, Watch!PersistTerminal, Watch!FinishWatchFailure,
       Watch!world, Recorded, Resting
  <2>2. WatchTypes'
    BY <1>t, <1>b, <2>1 DEF WatchTypes, Watch!Points, Watch!Ended, Resting
  <2>3. QED
    BY <2>1, <2>2, CoreBeats
<1>8. CASE Watch!PersistRaises
  <2>1. /\ turn \in {"append", "heartbeat"} /\ turn' = "failing"
        /\ sample' = [sample EXCEPT !.ok = FALSE] /\ verdict' = sample.terminal
        /\ UNCHANGED <<run, up, ill, readable, heartbeat, lastRead, streaks, starts>>
        /\ IF turn = "append" THEN Watch!Record ELSE UNCHANGED <<row, lost>>
    BY <1>8 DEF Watch!PersistRaises, Watch!world
  <2>2. /\ sample'.findings = sample.findings /\ sample'.run = sample.run
        /\ sample'.terminal = sample.terminal /\ sample.terminal \subseteq Findings
        /\ sample' \in [findings : SUBSET Findings, run : Runs, up : BOOLEAN, ok : BOOLEAN,
                        terminal : SUBSET Findings]
    BY <1>t, <2>1 DEF WatchTypes
  <2>3. row' \in [Watch!Gated -> Nat] /\ lost' \in 0 .. (WatchThreshold + 1)
    BY <1>t, <2>1, RecordTypes DEF WatchTypes
  <2>4. WatchTypes'
    BY <1>t, <2>1, <2>2, <2>3 DEF WatchTypes, Watch!Points
  <2>5. CASE turn = "append"
    BY <2>1, <2>2, <2>4, <2>5, CoreRecords
  <2>6. CASE turn = "heartbeat"
    <3>1. SampleInv'
      BY <2>1, <2>2, <2>6 DEF CoreInv, SampleInv, Recorded, Watch!Terminal,
         Watch!PostReadiness
    <3>2. \A f \in Watch!Gated : Carried(f)' = Carried(f)
      BY <2>1 DEF Carried, Watch!Restored, Watch!Zero
    <3>3. RowInv'
      BY <2>1, <2>6, <3>2 DEF CoreInv, RowInv, Behind, Recorded
    <3>4. TurnInv'
      BY <2>1, <2>6 DEF CoreInv, TurnInv, Resting
    <3>5. QED
      BY <2>4, <3>1, <3>3, <3>4 DEF CoreInv
  <2>7. QED
    BY <2>1, <2>5, <2>6
<1>9. CASE Watch!Decide
  <2>1. /\ turn = "decide" /\ turn' \in {"stopping", "stopped", "top"}
        /\ turn' = "top" => sample.terminal = {}
        /\ verdict' \subseteq Findings
        /\ UNCHANGED <<run, up, ill, readable, heartbeat, lastRead, sample, streaks, starts,
                       row, lost>>
    BY <1>9, <1>t DEF Watch!Decide, Watch!world, WatchTypes
  <2>2. WatchTypes'
    BY <1>t, <2>1 DEF WatchTypes, Watch!Points, Watch!Ended
  <2>3. CASE turn' # "top"
    BY <2>1, <2>2, <2>3, CoreBeats DEF Recorded, Resting
  <2>4. CASE turn' = "top"
    <3>1. RowInv'
      <4> SUFFICES ASSUME NEW f \in Watch!Gated
                   PROVE  streaks[f] = Carried(f) /\ Behind(f, streaks[f], starts - 1)
        <5>1. \A f \in Watch!Gated : Carried(f)' = Carried(f)
          BY <2>1 DEF Carried, Watch!Restored, Watch!Zero
        <5>2. QED
          BY <2>1, <2>4, <5>1 DEF CoreInv, RowInv, Behind, Recorded
      <4>1. /\ IF streaks[f] > 0 THEN Behind(f, streaks[f] - 1, starts) ELSE row[f] = 0
            /\ streaks[f] > 0 <=> f \in sample.findings /\ Watch!PostReadiness(sample)
            /\ sample.terminal = Watch!Terminal(sample, streaks) /\ starts > 0
            /\ heartbeat = Watch!Beat(FALSE)
        BY <2>1 DEF CoreInv, RowInv, SampleInv, TurnInv, Recorded, Resting
      <4>2. Carried(f) = Watch!Smaller(streaks[f], WatchThreshold)
        BY <4>1 DEF Carried, Watch!Restored, Watch!Beat
      <4>3. ~(streaks[f] > 0 /\ streaks[f] >= WatchThreshold)
        BY <2>1, <2>4, <4>1 DEF Watch!Terminal
      <4>4. streaks[f] \in Nat /\ row[f] \in Nat
        BY <1>t, CarriedType
      <4>5. streaks[f] < WatchThreshold
        BY <1>n, <4>3, <4>4
      <4>6. QED
        BY <1>n, <1>z, <4>1, <4>2, <4>4, <4>5 DEF Behind, Watch!Smaller
    <3>2. SampleInv' /\ TurnInv'
      BY <2>1, <2>4 DEF CoreInv, SampleInv, TurnInv, Recorded, Resting
    <3>3. QED
      BY <2>2, <3>1, <3>2 DEF CoreInv
  <2>5. QED
    BY <2>3, <2>4
<1>10. QED
  BY <1>1, <1>2, <1>3, <1>4, <1>5, <1>6, <1>7, <1>8, <1>9 DEF Watch!Next,
     Watch!WatcherStep

(* A transient finding is terminal only with a streak as long as the           *)
(* threshold.                                                                  *)
LEMMA TerminalStreak ==
  ASSUME NEW s, NEW new, NEW f \in Watch!Terminal(s, new), f \in Watch!Gated
  PROVE  new[f] >= WatchThreshold
BY DEF Watch!Terminal, Watch!Gated, Watch!Immediate

(* As long as nothing is killed and no sink raises, every streak is made of    *)
(* samples.                                                                    *)
LEMMA SteadyStep ==
  ASSUME CoreInv, SteadyInv, scope = "steady", scope' = scope, Calm
  PROVE  SteadyInv'
<1>t. WatchTypes
  BY DEF CoreInv
<1>n. WatchThreshold \in Nat \ {0}
  BY WatchConstants
<1>g. Steady!Gated = Watch!Gated
  BY DEF Steady!Gated, Watch!Gated
<1>y. \A f \in Watch!Gated : /\ Carried(f) \in Nat /\ streaks[f] \in Nat /\ row[f] \in Nat
                             /\ heartbeat.streaks[f] \in Nat
  BY <1>t, <1>n, CarriedType
<1>s. /\ \A f \in Watch!Gated :
           /\ turn \in Resting => Carried(f) <= row[f]
           /\ turn \in {"top"} \cup Recorded => streaks[f] <= row[f]
           /\ turn = "append" => streaks[f] <= row[f] + 1
      /\ turn \in {"top", "append", "heartbeat", "decide"} => verdict = {}
      /\ \A f \in verdict \cap Watch!Gated : row[f] >= WatchThreshold
  BY <1>g DEF SteadyInv, Steady!TransientTolerated
<1> SUFFICES
      /\ \A f \in Watch!Gated :
           /\ turn' \in Resting => Carried(f)' <= row'[f]
           /\ turn' \in {"top"} \cup Recorded => streaks'[f] <= row'[f]
           /\ turn' = "append" => streaks'[f] <= row'[f] + 1
      /\ turn' \in {"top", "append", "heartbeat", "decide"} => verdict' = {}
      /\ \A f \in verdict' \cap Watch!Gated : row'[f] >= WatchThreshold
  BY <1>g DEF SteadyInv, Steady!TransientTolerated
<1>c. heartbeat' = heartbeat => \A f : Carried(f)' = Carried(f)
  BY DEF Carried, Watch!Restored, Watch!Zero
<1>1. CASE Watch!RunChanges \/ Watch!HealthChanges \/ Watch!ReadabilityChanges
  <2>1. UNCHANGED <<heartbeat, turn, streaks, row, verdict>>
    BY <1>1 DEF Watch!RunChanges, Watch!HealthChanges, Watch!ReadabilityChanges
  <2>2. QED
    BY <1>s, <1>c, <2>1
<1>2. CASE Watch!WatchSession
  <2>1. /\ turn \in Resting /\ turn' = "top" /\ streaks' = Watch!Restored(heartbeat)
        /\ row' = IF heartbeat.shutdown THEN Watch!Zero ELSE row
        /\ verdict' = {}
    BY <1>2 DEF Watch!WatchSession, Watch!Ended, Resting
  <2>2. \A f \in Watch!Gated : streaks'[f] = Carried(f) /\ (heartbeat.shutdown => Carried(f) = 0)
    BY <2>1 DEF Carried, Watch!Restored, Watch!Zero
  <2>3. \A f \in Watch!Gated : streaks'[f] <= row'[f]
    BY <1>s, <1>y, <2>1, <2>2 DEF Watch!Zero
  <2>4. QED
    BY <2>1, <2>3 DEF Resting
<1>3. CASE Watch!WatchContextRaises
  <2>1. PICK s, new : /\ turn' = "failing" /\ streaks' = new /\ row' = new
                      /\ verdict' = Watch!Terminal(s, new)
    BY <1>3 DEF Watch!WatchContextRaises
  <2>2. streaks' \in [Watch!Gated -> 0 .. (WatchThreshold + 1)]
    <3>1. Watch!Next
      BY <1>3 DEF Watch!Next
    <3>2. QED
      BY <3>1, CoreStep DEF CoreInv, WatchTypes
  <2>3. \A f \in Watch!Gated : streaks'[f] <= row'[f]
    BY <1>n, <2>1, <2>2
  <2>4. \A f \in verdict' \cap Watch!Gated : row'[f] >= WatchThreshold
    BY <2>1, TerminalStreak
  <2>5. QED
    BY <2>1, <2>3, <2>4 DEF Resting
<1>4. CASE Watch!SeeStopFile
  <2>1. turn = "top" /\ turn' = "stopped" /\ UNCHANGED <<heartbeat, streaks, row, verdict>>
    BY <1>4 DEF Watch!SeeStopFile
  <2>2. \A f \in Watch!Gated : streaks[f] = Carried(f)
    BY <2>1 DEF CoreInv, RowInv
  <2>3. QED
    BY <1>s, <1>c, <2>1, <2>2 DEF Recorded
<1>5. CASE Watch!TakeSample
  <2>1. /\ turn = "top" /\ turn' = "append" /\ UNCHANGED <<row, verdict>>
        /\ \E s : streaks' = Watch!Advance(streaks, s)
    BY <1>5 DEF Watch!TakeSample
  <2>2. \A f \in Watch!Gated : streaks'[f] \in {0, streaks[f] + 1}
    BY <2>1 DEF Watch!Advance
  <2>3. \A f \in Watch!Gated : streaks'[f] <= row'[f] + 1
    BY <1>s, <1>y, <2>1, <2>2
  <2>4. QED
    BY <1>s, <2>1, <2>3 DEF Resting, Recorded
<1>6. CASE Watch!AppendJsonl
  <2>1. /\ turn = "append" /\ turn' = "heartbeat" /\ Watch!Record /\ UNCHANGED <<streaks,
                                                                                 verdict>>
    BY <1>6 DEF Watch!AppendJsonl
  <2>2. \A f \in Watch!Gated : row'[f] = IF streaks[f] > 0 THEN row[f] + 1 ELSE 0
    BY <2>1 DEF CoreInv, SampleInv, Watch!Record
  <2>3. \A f \in Watch!Gated : streaks'[f] <= row'[f]
    BY <1>s, <1>y, <2>1, <2>2
  <2>4. QED
    BY <1>s, <2>1, <2>3 DEF Resting
<1>7. CASE Watch!WriteHeartbeat \/ Watch!PersistTerminal
  <2>1. /\ turn \in Recorded /\ turn' \in Recorded /\ UNCHANGED <<streaks, row, verdict>>
        /\ turn' \in {"top", "append", "heartbeat", "decide"} => turn = "heartbeat"
    BY <1>7 DEF Watch!WriteHeartbeat, Watch!PersistTerminal, Recorded
  <2>2. turn' \notin Resting /\ turn' # "append"
    BY <2>1 DEF Recorded, Resting
  <2>3. QED
    BY <1>s, <2>1, <2>2
<1>8. CASE Watch!FinishWatchFailure /\ heartbeat' = Watch!Beat(TRUE)
  <2>1. turn' = "failed" /\ UNCHANGED <<row, verdict>>
    BY <1>8 DEF Watch!FinishWatchFailure
  <2>2. \A f \in Watch!Gated : Carried(f)' = 0
    BY <1>8 DEF Carried, Watch!Restored, Watch!Zero, Watch!Beat
  <2>3. QED
    BY <1>s, <1>y, <2>1, <2>2 DEF Recorded
<1>9. CASE Watch!Decide
  <2>1. /\ turn = "decide" /\ turn' \in {"stopping", "stopped", "top"}
        /\ verdict' = (IF turn' = "stopping" THEN sample.terminal ELSE {})
        /\ UNCHANGED <<heartbeat, streaks, row>>
    BY <1>9 DEF Watch!Decide
  <2>2. /\ heartbeat = Watch!Beat(FALSE) /\ sample.terminal = Watch!Terminal(sample, streaks)
        /\ \A f \in Watch!Gated : streaks[f] <= row[f]
    BY <1>s, <2>1 DEF CoreInv, TurnInv, SampleInv, Recorded
  <2>3. \A f \in Watch!Gated : Carried(f) = Watch!Smaller(streaks[f], WatchThreshold)
    BY <2>2 DEF Carried, Watch!Restored, Watch!Beat
  <2>4. ASSUME NEW f \in Watch!Gated PROVE Carried(f)' <= row[f]
    <3>1. /\ Carried(f)' = Watch!Smaller(streaks[f], WatchThreshold) /\ streaks[f] <= row[f]
          /\ streaks[f] \in Nat /\ row[f] \in Nat
      BY <1>c, <1>y, <2>1, <2>2, <2>3
    <3>2. QED
      BY <1>n, <3>1 DEF Watch!Smaller
  <2>5. ASSUME NEW f \in verdict' \cap Watch!Gated PROVE row[f] >= WatchThreshold
    <3>1. streaks[f] >= WatchThreshold
      BY <2>1, <2>2, <2>5, TerminalStreak
    <3>2. streaks[f] <= row[f] /\ streaks[f] \in Nat /\ row[f] \in Nat
      BY <1>y, <2>2, <2>5
    <3>3. QED
      BY <1>n, <3>1, <3>2
  <2>6. QED
    BY <2>1, <2>2, <2>4, <2>5
<1>10. QED
  BY <1>1, <1>2, <1>3, <1>4, <1>5, <1>6, <1>7, <1>8, <1>9 DEF Calm

(* A step of the whole that moves the watcher is one of its scope's. *)
LEMMA WatchScope ==
  ASSUME [AttendantsNext]_allVars
  PROVE  /\ scope' = scope
         /\ \/ UNCHANGED watchVars
            \/ scope = "steady" /\ Steady!Next
            \/ scope = "shaken" /\ Shaken!Next
BY DEF AttendantsNext, allVars

(* Every step keeps the watcher's invariant. *)
LEMMA WatchStep ==
  ASSUME WatchInv, [AttendantsNext]_allVars
  PROVE  WatchInv'
<1>c. CoreInv /\ SteadyInv
  BY DEF WatchInv, CoreInv
<1>n. starts \in Nat /\ MaxStarts \in Nat
  <2>1. MaxStarts \in Nat /\ starts \in 0 .. (MaxStarts + 1)
    BY WatchConstants DEF WatchInv, WatchTypes
  <2>2. QED
    BY <2>1
<1>1. CASE UNCHANGED watchVars
  <2>1. WatchTypes'
    BY <1>1 DEF watchVars, WatchInv, WatchTypes
  <2>2. CoreInv'
    BY <1>1, <1>c, <2>1, CoreKept DEF watchVars
  <2>3. scope' = scope
    BY WatchScope
  <2>4. \A f : Carried(f)' = Carried(f)
    BY <1>1 DEF watchVars, Carried, Watch!Restored, Watch!Zero
  <2>5. SteadyInv'
    BY <1>1, <1>c, <2>3, <2>4 DEF watchVars, SteadyInv, Steady!TransientTolerated
  <2>6. QED
    BY <2>2, <2>5 DEF WatchInv, CoreInv
<1>2. CASE scope = "steady" /\ Steady!Next
  <2>1. Calm /\ Watch!Next
    BY <1>2, <1>n, SteadyIsWatch
  <2>2. scope' = scope
    BY WatchScope
  <2>3. CoreInv' /\ SteadyInv'
    BY <1>2, <1>c, <2>1, <2>2, CoreStep, SteadyStep
  <2>4. QED
    BY <2>3 DEF WatchInv, CoreInv
<1>3. CASE scope = "shaken" /\ Shaken!Next
  <2>1. Watch!Next
    BY <1>3, <1>n, ShakenIsWatch
  <2>2. scope' = scope
    BY WatchScope
  <2>3. CoreInv'
    BY <1>c, <2>1, CoreStep
  <2>4. SteadyInv'
    BY <1>3, <2>2 DEF SteadyInv
  <2>5. QED
    BY <2>3, <2>4 DEF WatchInv, CoreInv
<1>4. QED
  BY <1>1, <1>2, <1>3, WatchScope

(* A transient finding ends the watch only after a full threshold of           *)
(* consecutive samples, over any number of watch commands; one that persists   *)
(* ends it, put off by at most one sample for each restart, wherever watchers  *)
(* are killed and whatever sinks raise (restored_finding_streaks,              *)
(* terminal_watch_findings).                                                   *)
THEOREM StreaksCountSamples == AttendantsSpec => []StreaksSound
<1>1. AttendantsInit => WatchInv
  BY PartsInit, WatchInit
<1>2. WatchInv /\ [AttendantsNext]_allVars => WatchInv'
  BY WatchStep
<1>3. WatchInv => StreaksSound
  <2> SUFFICES ASSUME WatchInv PROVE StreaksSound
    OBVIOUS
  <2>n. WatchThreshold \in Nat \ {0} /\ MaxStarts \in Nat
    BY WatchConstants
  <2>g. Steady!Gated = Watch!Gated /\ Shaken!Gated = Watch!Gated
    BY DEF Steady!Gated, Shaken!Gated, Watch!Gated
  <2>1. \A f \in Watch!Gated : row[f] \in Nat /\ starts \in Nat /\ row[f] < WatchThreshold + starts
    BY CarriedType DEF WatchInv, RowInv
  <2>2. starts \in 0 .. (MaxStarts + 1)
    BY DEF WatchInv, WatchTypes
  <2>3. \A f \in Watch!Gated : row[f] \in 0 .. (WatchThreshold + (MaxStarts + 1))
    BY <2>n, <2>1, <2>2
  <2>4. Steady!TypeOK
    <3>1. row \in [Watch!Gated -> 0 .. (WatchThreshold + (MaxStarts + 1))]
      BY <2>3 DEF WatchInv, WatchTypes
    <3>2. Watch!Points = Steady!Points /\ Findings = Steady!Gated \cup Steady!Immediate \cup {"reported"}
      BY <2>g DEF Watch!Points, Steady!Points, Watch!Ended, Steady!Ended, Findings,
         Watch!Immediate, Steady!Immediate
    <3>3. sample.findings \subseteq Findings
      BY DEF WatchInv, WatchTypes
    <3>4. QED
      BY <2>g, <3>1, <3>2, <3>3 DEF WatchInv, WatchTypes, Steady!TypeOK, Runs
  <2>5. Shaken!PersistentStops
    BY <2>g, <2>1 DEF Shaken!PersistentStops
  <2>6. QED
    BY <2>4, <2>5 DEF WatchInv, SteadyInv, StreaksSound
<1>4. QED
  BY <1>1, <1>2, <1>3, PTL DEF AttendantsSpec

-------------------------------------------------------------------------------
(* The observer.  Its two instances differ in their faults only: the           *)
(* definitions below are those of the one that is killed, and the steps of the *)
(* other are its steps, or one of four more.                                   *)

Detached == {"down", "attach"}
Checkpointing == {"due", "checkpoint", "count"}
Driving == {"recover", "creates", "post", "posted", "polls", "poll", "get", "settle"}
Finalizing == {"finalize", "persist", "replace", "commit"}

(* A state that the observer may go on from: it has its type and passes the    *)
(* observer's own validation, and a pending action is one that was reserved.   *)
Sound(s) ==
  /\ s \in Killed!States /\ Killed!CountsAgree(s)
  /\ IF Killed!Pending(s)
     THEN s.pendingAction.method \in Killed!Methods /\ s.pendingAction.reservation \in 1 .. reserved
     ELSE s.pendingAction = Killed!NoAction

(* Two states that differ in their checkpoints at most, as far as the actions  *)
(* can tell.                                                                   *)
Alike(s, t) ==
  /\ s.nextActionSeq = t.nextActionSeq /\ s.nextCycle = t.nextCycle
  /\ s.gate = t.gate /\ s.pendingAction = t.pendingAction

(* The summary is the last state persisted, unless there is none; while the    *)
(* observer is up that is its own copy, but for a checkpoint it failed to      *)
(* count.                                                                      *)
Synced ==
  /\ Sound(state) /\ (Sound(summary) \/ summary = Killed!NoSummary)
  /\ point \notin Detached \cup Checkpointing => summary \in {state, Killed!NoSummary}
  /\ point \in Checkpointing => summary = Killed!NoSummary \/ Alike(summary, state)
  /\ point \in Detached => state = Killed!NewState

(* How far the pending action is at each point.                                *)
Shape(p, s, a) ==
  /\ p \in Driving => Killed!Pending(s) /\ ~s.pendingAction.driverOutcome
  /\ p = "evidence" => Killed!Pending(s) /\ s.pendingAction.driverOutcome
  /\ p \in Finalizing =>
       Killed!Pending(s) /\ s.pendingAction.driverOutcome /\ s.pendingAction.evidence
  /\ p = "posted" => s.pendingAction.clients[a].create = "prepared"
  /\ p = "get" => s.pendingAction.clients[a].poll = "open"

(* What is known of the action's files while its report is made durable.       *)
Durable(p, n, r) ==
  /\ p \in {"persist", "replace", "commit"} =>
       r # Killed!NoReport /\ r.reservation = state.pendingAction.reservation
  /\ p = "persist" => /\ file[n] # Killed!NoReport => file[n] = r
                      /\ file[n] = Killed!NoReport => temp[n] \in {Killed!NoReport, r}
  /\ p = "replace" => file[n] = Killed!NoReport /\ temp[n] = r
  /\ p = "commit" => file[n] = r

(* A search that was interrupted in doubt has a create that never succeeds.    *)
Doubted(s) ==
  Killed!Pending(s) /\ s.pendingAction.reservation \in ambiguous =>
    \E c \in Killed!Clients : s.pendingAction.clients[c].create \in {"prepared", "failed"}

(* A report is of an action whose searches are through, and of one that was in *)
(* doubt it does not count.                                                    *)
Past(r, s) ==
  Killed!Pending(s) /\ r.reservation = s.pendingAction.reservation => s.pendingAction.driverOutcome
Told(r) ==
  /\ r.reservation <= reserved
  /\ r.reservation \in ambiguous => r.verdict = "retryable"
  /\ Past(r, state) /\ Past(r, summary)

Reported ==
  /\ \A n \in 1 .. MaxActions : Told(file[n]) /\ Told(temp[n])
  /\ Told(report)
  /\ \A i \in DOMAIN folded : Told(folded[i].report)

Trusted ==
  /\ Doubted(state) /\ Doubted(summary) /\ Reported
  /\ point \in {"post", "posted"} => state.pendingAction.reservation \notin ambiguous

(* As long as no file is torn or lost, the summary is missing only before the  *)
(* first one, its gate and its next number are those of the reports folded,    *)
(* the files from that number on are the pending action's, and a create that   *)
(* was not sent has no search.                                                 *)
Numbered ==
  /\ summary = Killed!NoSummary => point \in Detached /\ folded = <<>>
  /\ summary # Killed!NoSummary => /\ summary.nextActionSeq = Len(folded) + 1
                                   /\ summary.gate = Killed!GateOf(folded)
  /\ "report" \notin refused
  /\ \A i \in DOMAIN folded : folded[i].seq = i /\ folded[i].cycle = i
  /\ \A n \in 1 .. MaxActions : n <= Len(folded) =>
       file[n] \in {Killed!NoReport, folded[n].report}

PendingOnly(r, n) ==
  r # Killed!NoReport => /\ n = Len(folded) + 1 /\ Killed!Pending(summary)
                         /\ r.reservation = summary.pendingAction.reservation
OwnFiles ==
  \A n \in 1 .. MaxActions : n > Len(folded) => PendingOnly(file[n], n) /\ PendingOnly(temp[n], n)

Unsent(p, s, a, c) ==
  LET create == s.pendingAction.clients[c].create
  IN \/ create = "none"
     \/ create = "prepared" /\ (p = "post" \/ (p = "posted" /\ c # a))
Sent ==
  \A n \in 1 .. MaxActions, c \in Killed!Clients :
    /\ posts[n][c] <= 1
    /\ n >= summary.nextCycle => posts[n][c] = 0
    /\ n = summary.pendingAction.cycle /\ Unsent(point, summary, at, c) => posts[n][c] = 0

(* An action's report is retained only under a number that was given, and the  *)
(* checkpoints on disk are those of the state, or one more while it is being   *)
(* counted, unless an attempt left one that is not.                            *)
Window(s) == s.retention.actions < s.nextActionSeq
Counted(s, n) == s.retention.checkpoints <= s.checkpoints /\ checkpointFiles <= s.checkpoints + n

Windowed ==
  /\ Window(state) /\ (summary # Killed!NoSummary => Window(summary))
  /\ \/ uncounted
     \/ /\ summary.retention.checkpoints <= summary.checkpoints
        /\ IF point \in Detached THEN Counted(summary, 0)
           ELSE Counted(state, IF point = "count" THEN 1 ELSE 0)
  /\ point = "reject" \/ "state" \in refused => uncounted

(* The other variables' types.                                                 *)
FoldedReports ==
  [seq : Nat, cycle : Nat, method : Killed!Methods, report : Killed!Reports]
ObserverTypes ==
  /\ file \in [1 .. MaxActions -> Killed!Reports] /\ temp \in [1 .. MaxActions -> Killed!Reports]
  /\ report \in Killed!Reports /\ failures \in 0 .. CheckpointThreshold
  /\ point \in Killed!Points /\ at \in Killed!Clients /\ crashes \in 0 .. (MaxKills + 1)
  /\ reserved \in 0 .. MaxActions /\ posts \in [1 .. MaxActions -> [Killed!Clients -> Nat]]
  /\ ambiguous \subseteq 1 .. reserved /\ folded \in Seq(FoldedReports)
  /\ checkpointFiles \in 0 .. RetainedCheckpoints /\ uncounted \in BOOLEAN
  /\ refused \subseteq {"report", "state"}

CommonInv ==
  /\ ObserverTypes /\ Synced /\ Shape(point, state, at)
  /\ Durable(point, state.pendingAction.reportSeq, report) /\ Trusted
OrderInv == Numbered /\ OwnFiles /\ Sent /\ Windowed
ObserverInv == CommonInv /\ (scope = "killed" => OrderInv)

(* What the two observers' faults make no difference to. *)
LEMMA TornIsKilled ==
  ASSUME Torn!Next, crashes \in Nat, MaxKills \in Nat
  PROVE  \/ Killed!Next \/ Torn!CheckpointFails \/ Torn!CheckpointRaises
         \/ Torn!CrashInWrite \/ Torn!SummaryLost
<1>1. Torn!LoadState => Killed!LoadState
  BY DEF Torn!LoadState, Torn!NoSummary, Torn!NewState, Torn!NoAction, Torn!Clients,
     Torn!NewClient, Torn!pending, Torn!Methods, Torn!Reconciled, Torn!Pending,
     Torn!history, Torn!Valid, Torn!CountsAgree, Torn!RetentionFits, Torn!ValidPending,
     Torn!ValidClient, Torn!Loaded, Killed!LoadState, Killed!NoSummary, Killed!NewState,
     Killed!NoAction, Killed!Clients, Killed!NewClient, Killed!pending, Killed!Methods,
     Killed!Reconciled, Killed!Pending, Killed!history, Killed!Valid, Killed!CountsAgree,
     Killed!RetentionFits, Killed!ValidPending, Killed!ValidClient, Killed!Loaded
<1>2. Torn!RejectState => Killed!RejectState
  BY DEF Torn!RejectState, Torn!Refuse, Torn!Loaded, Torn!NoSummary, Torn!Gone,
     Torn!NewState, Torn!NoAction, Torn!Clients, Torn!NewClient, Torn!pending,
     Torn!Methods, Torn!NoReport, Torn!Valid, Torn!CountsAgree, Torn!RetentionFits,
     Torn!ValidPending, Torn!ValidClient, Torn!Pending, Killed!RejectState, Killed!Refuse,
     Killed!Loaded, Killed!NoSummary, Killed!Gone, Killed!NewState, Killed!NoAction,
     Killed!Clients, Killed!NewClient, Killed!pending, Killed!Methods, Killed!NoReport,
     Killed!Valid, Killed!CountsAgree, Killed!RetentionFits, Killed!ValidPending,
     Killed!ValidClient, Killed!Pending
<1>3. Torn!NoCheckpointDue => Killed!NoCheckpointDue
  BY DEF Torn!NoCheckpointDue, Torn!Goto, Torn!history, Killed!NoCheckpointDue,
     Killed!Goto, Killed!history
<1>4. Torn!DueCheckpoint => Killed!DueCheckpoint
  BY DEF Torn!DueCheckpoint, Torn!Goto, Torn!history, Killed!DueCheckpoint,
     Killed!Goto, Killed!history
<1>5. Torn!PruneCheckpoint => Killed!PruneCheckpoint
  BY DEF Torn!PruneCheckpoint, Torn!history, Killed!PruneCheckpoint, Killed!history
<1>6. Torn!WriteCheckpoint => Killed!WriteCheckpoint
  BY DEF Torn!WriteCheckpoint, Torn!history, Killed!WriteCheckpoint, Killed!history
<1>7. Torn!CaptureCheckpoint => Killed!CaptureCheckpoint
  BY DEF Torn!CaptureCheckpoint, Torn!Persist, Torn!Recorded, Torn!Min, Torn!history,
     Torn!Methods, Torn!Clients, Torn!Valid, Torn!CountsAgree, Torn!RetentionFits,
     Torn!ValidPending, Torn!ValidClient, Torn!Pending, Killed!CaptureCheckpoint,
     Killed!Persist, Killed!Recorded, Killed!Min, Killed!history, Killed!Methods,
     Killed!Clients, Killed!Valid, Killed!CountsAgree, Killed!RetentionFits,
     Killed!ValidPending, Killed!ValidClient, Killed!Pending
<1>8. Torn!Sleep => Killed!Sleep
  BY DEF Torn!Sleep, Torn!Pending, Torn!PollsDue, Torn!OpenPolls, Torn!Clients,
     Torn!pending, Torn!Goto, Torn!history, Killed!Sleep, Killed!Pending, Killed!PollsDue,
     Killed!OpenPolls, Killed!Clients, Killed!pending, Killed!Goto, Killed!history
<1>9. Torn!EndTurn => Killed!EndTurn
  BY DEF Torn!EndTurn, Torn!Pending, Torn!Goto, Torn!history, Torn!Advance,
     Torn!Persist, Torn!Reconciled, Killed!EndTurn, Killed!Pending, Killed!Goto,
     Killed!history, Killed!Advance, Killed!Persist, Killed!Reconciled
<1>10. Torn!ConnectivitySkip => Killed!ConnectivitySkip
  BY DEF Torn!ConnectivitySkip, Torn!Pending, Torn!Advance, Torn!Persist, Torn!history,
     Killed!ConnectivitySkip, Killed!Pending, Killed!Advance, Killed!Persist,
     Killed!history
<1>11. Torn!Reserve => Killed!Reserve
  BY DEF Torn!Reserve, Torn!Pending, Torn!Persist, Torn!NoAction, Torn!Clients,
     Torn!NewClient, Torn!ScheduledMethod, Torn!Rotation, Torn!pending, Torn!Unmet,
     Torn!Methods, Killed!Reserve, Killed!Pending, Killed!Persist, Killed!NoAction,
     Killed!Clients, Killed!NewClient, Killed!ScheduledMethod, Killed!Rotation,
     Killed!pending, Killed!Unmet, Killed!Methods
<1>12. Torn!Resume => Killed!Resume
  BY DEF Torn!Resume, Torn!Pending, Torn!PollsDue, Torn!OpenPolls, Torn!Clients,
     Torn!pending, Torn!Goto, Torn!history, Killed!Resume, Killed!Pending,
     Killed!PollsDue, Killed!OpenPolls, Killed!Clients, Killed!pending, Killed!Goto,
     Killed!history
<1>13. Torn!RecoverCreate => Killed!RecoverCreate
  BY DEF Torn!RecoverCreate, Torn!Unrecovered, Torn!Creates, Torn!Clients,
     Torn!pending, Torn!FirstOf, Torn!Advance, Torn!Persist, Torn!history,
     Torn!UpdateClient, Killed!RecoverCreate, Killed!Unrecovered, Killed!Creates,
     Killed!Clients, Killed!pending, Killed!FirstOf, Killed!Advance, Killed!Persist,
     Killed!history, Killed!UpdateClient
<1>14. Torn!Recovered => Killed!Recovered
  BY DEF Torn!Recovered, Torn!Unrecovered, Torn!Creates, Torn!Clients, Torn!pending,
     Torn!Goto, Torn!history, Killed!Recovered, Killed!Unrecovered, Killed!Creates,
     Killed!Clients, Killed!pending, Killed!Goto, Killed!history
<1>15. Torn!PrepareCreates => Killed!PrepareCreates
  BY DEF Torn!PrepareCreates, Torn!Creates, Torn!Clients, Torn!pending, Torn!Advance,
     Torn!Persist, Torn!history, Killed!PrepareCreates, Killed!Creates, Killed!Clients,
     Killed!pending, Killed!Advance, Killed!Persist, Killed!history
<1>16. Torn!CreatesDone => Killed!CreatesDone
  BY DEF Torn!CreatesDone, Torn!Creates, Torn!Clients, Torn!pending, Torn!Goto,
     Torn!history, Killed!CreatesDone, Killed!Creates, Killed!Clients, Killed!pending,
     Killed!Goto, Killed!history
<1>17. Torn!Post => Killed!Post
  BY DEF Torn!Post, Torn!Creates, Torn!Clients, Torn!pending, Torn!FirstOf,
     Killed!Post, Killed!Creates, Killed!Clients, Killed!pending, Killed!FirstOf
<1>18. Torn!CompleteCreate => Killed!CompleteCreate
  BY DEF Torn!CompleteCreate, Torn!Advance, Torn!Persist, Torn!history,
     Torn!UpdateClient, Torn!pending, Killed!CompleteCreate, Killed!Advance,
     Killed!Persist, Killed!history, Killed!UpdateClient, Killed!pending
<1>19. Torn!StartPolls => Killed!StartPolls
  BY DEF Torn!StartPolls, Torn!Unpolled, Torn!Creates, Torn!Clients, Torn!pending,
     Torn!Advance, Torn!Persist, Torn!history, Killed!StartPolls, Killed!Unpolled,
     Killed!Creates, Killed!Clients, Killed!pending, Killed!Advance, Killed!Persist,
     Killed!history
<1>20. Torn!PollsStarted => Killed!PollsStarted
  BY DEF Torn!PollsStarted, Torn!Unpolled, Torn!Creates, Torn!Clients, Torn!pending,
     Torn!Goto, Torn!history, Killed!PollsStarted, Killed!Unpolled, Killed!Creates,
     Killed!Clients, Killed!pending, Killed!Goto, Killed!history
<1>21. Torn!NothingRipe => Killed!NothingRipe
  BY DEF Torn!NothingRipe, Torn!Ripe, Torn!OpenPolls, Torn!Clients, Torn!pending,
     Torn!Goto, Torn!history, Killed!NothingRipe, Killed!Ripe, Killed!OpenPolls,
     Killed!Clients, Killed!pending, Killed!Goto, Killed!history
<1>22. Torn!ExpirePoll => Killed!ExpirePoll
  BY DEF Torn!ExpirePoll, Torn!Ripe, Torn!OpenPolls, Torn!Clients, Torn!pending,
     Torn!FirstOf, Torn!Advance, Torn!Persist, Torn!history, Torn!UpdateClient,
     Killed!ExpirePoll, Killed!Ripe, Killed!OpenPolls, Killed!Clients, Killed!pending,
     Killed!FirstOf, Killed!Advance, Killed!Persist, Killed!history, Killed!UpdateClient
<1>23. Torn!BeginGet => Killed!BeginGet
  BY DEF Torn!BeginGet, Torn!Ripe, Torn!OpenPolls, Torn!Clients, Torn!pending,
     Torn!FirstOf, Torn!history, Killed!BeginGet, Killed!Ripe, Killed!OpenPolls,
     Killed!Clients, Killed!pending, Killed!FirstOf, Killed!history
<1>24. Torn!EndGet => Killed!EndGet
  BY DEF Torn!EndGet, Torn!pending, Torn!Advance, Torn!Persist, Torn!history,
     Torn!UpdateClient, Torn!Min, Killed!EndGet, Killed!pending, Killed!Advance,
     Killed!Persist, Killed!history, Killed!UpdateClient, Killed!Min
<1>25. Torn!Unsettled => Killed!Unsettled
  BY DEF Torn!Unsettled, Torn!Clients, Torn!Terminal, Torn!pending, Torn!Goto,
     Torn!history, Killed!Unsettled, Killed!Clients, Killed!Terminal, Killed!pending,
     Killed!Goto, Killed!history
<1>26. Torn!RecordDriverCycle => Killed!RecordDriverCycle
  BY DEF Torn!RecordDriverCycle, Torn!Clients, Torn!Terminal, Torn!pending,
     Torn!Advance, Torn!Persist, Torn!history, Killed!RecordDriverCycle, Killed!Clients,
     Killed!Terminal, Killed!pending, Killed!Advance, Killed!Persist, Killed!history
<1>27. Torn!MarkEvidencePending => Killed!MarkEvidencePending
  BY DEF Torn!MarkEvidencePending, Torn!Advance, Torn!Persist, Torn!history,
     Killed!MarkEvidencePending, Killed!Advance, Killed!Persist, Killed!history
<1>28. Torn!LoadCandidate => Killed!LoadCandidate
  BY DEF Torn!LoadCandidate, Torn!Candidate, Torn!pending, Torn!NoReport,
     Torn!Acceptable, Torn!history, Killed!LoadCandidate, Killed!Candidate,
     Killed!pending, Killed!NoReport, Killed!Acceptable, Killed!history
<1>29. Torn!RefuseCandidate => Killed!RefuseCandidate
  BY DEF Torn!RefuseCandidate, Torn!Candidate, Torn!pending, Torn!NoReport,
     Torn!Acceptable, Torn!Refuse, Torn!Gone, Torn!NewState, Torn!NoAction, Torn!Clients,
     Torn!NewClient, Torn!Methods, Killed!RefuseCandidate, Killed!Candidate,
     Killed!pending, Killed!NoReport, Killed!Acceptable, Killed!Refuse, Killed!Gone,
     Killed!NewState, Killed!NoAction, Killed!Clients, Killed!NewClient, Killed!Methods
<1>30. Torn!BuildReport => Killed!BuildReport
  BY DEF Torn!BuildReport, Torn!Candidate, Torn!pending, Torn!NoReport, Torn!Complete,
     Torn!Clients, Torn!Verdicts, Torn!history, Killed!BuildReport, Killed!Candidate,
     Killed!pending, Killed!NoReport, Killed!Complete, Killed!Clients, Killed!Verdicts,
     Killed!history
<1>31. Torn!ReplayReport => Killed!ReplayReport
  BY DEF Torn!ReplayReport, Torn!pending, Torn!NoReport, Torn!Conflict, Torn!Refuse,
     Torn!Gone, Torn!NewState, Torn!NoAction, Torn!Clients, Torn!NewClient, Torn!Methods,
     Torn!Goto, Torn!history, Killed!ReplayReport, Killed!pending, Killed!NoReport,
     Killed!Conflict, Killed!Refuse, Killed!Gone, Killed!NewState, Killed!NoAction,
     Killed!Clients, Killed!NewClient, Killed!Methods, Killed!Goto, Killed!history
<1>32. Torn!DropTemporary => Killed!DropTemporary
  BY DEF Torn!DropTemporary, Torn!pending, Torn!NoReport, Torn!Conflict, Torn!Refuse,
     Torn!Gone, Torn!NewState, Torn!NoAction, Torn!Clients, Torn!NewClient, Torn!Methods,
     Torn!history, Killed!DropTemporary, Killed!pending, Killed!NoReport, Killed!Conflict,
     Killed!Refuse, Killed!Gone, Killed!NewState, Killed!NoAction, Killed!Clients,
     Killed!NewClient, Killed!Methods, Killed!history
<1>33. Torn!WriteTemporary => Killed!WriteTemporary
  BY DEF Torn!WriteTemporary, Torn!pending, Torn!NoReport, Torn!history,
     Killed!WriteTemporary, Killed!pending, Killed!NoReport, Killed!history
<1>34. Torn!PruneReport => Killed!PruneReport
  BY DEF Torn!PruneReport, Torn!Kept, Torn!NoReport, Torn!history, Torn!Min,
     Torn!Cardinality, Killed!PruneReport, Killed!Kept, Killed!NoReport, Killed!history,
     Killed!Min, Killed!Cardinality
<1>35. Torn!ReplaceReport => Killed!ReplaceReport
  BY DEF Torn!ReplaceReport, Torn!Kept, Torn!NoReport, Torn!pending, Torn!history,
     Torn!Cardinality, Killed!ReplaceReport, Killed!Kept, Killed!NoReport, Killed!pending,
     Killed!history, Killed!Cardinality
<1>36. Torn!CommitReport => Killed!CommitReport
  BY DEF Torn!CommitReport, Torn!Persist, Torn!NoAction, Torn!Clients, Torn!NewClient,
     Torn!Fold, Torn!pending, Torn!Methods, Torn!NoReport, Torn!Committed, Torn!Kept,
     Torn!Cardinality, Torn!Valid, Torn!CountsAgree, Torn!RetentionFits,
     Torn!ValidPending, Torn!ValidClient, Torn!Pending, Killed!CommitReport,
     Killed!Persist, Killed!NoAction, Killed!Clients, Killed!NewClient, Killed!Fold,
     Killed!pending, Killed!Methods, Killed!NoReport, Killed!Committed, Killed!Kept,
     Killed!Cardinality, Killed!Valid, Killed!CountsAgree, Killed!RetentionFits,
     Killed!ValidPending, Killed!ValidClient, Killed!Pending
<1>37. Torn!Attach => Killed!Attach
  BY DEF Torn!Attach, Torn!Goto, Torn!history, Killed!Attach, Killed!Goto,
     Killed!history
<1>38. Torn!Leave => Killed!Leave
  BY DEF Torn!Leave, Torn!Gone, Torn!NewState, Torn!NoAction, Torn!Clients,
     Torn!NewClient, Torn!pending, Torn!Methods, Torn!NoReport, Killed!Leave, Killed!Gone,
     Killed!NewState, Killed!NoAction, Killed!Clients, Killed!NewClient, Killed!pending,
     Killed!Methods, Killed!NoReport
<1>39. Torn!Crash => Killed!Crash
  BY DEF Torn!Crash, Torn!Gone, Torn!NewState, Torn!NoAction, Torn!Clients,
     Torn!NewClient, Torn!pending, Torn!Methods, Torn!NoReport, Killed!Crash, Killed!Gone,
     Killed!NewState, Killed!NoAction, Killed!Clients, Killed!NewClient, Killed!pending,
     Killed!Methods, Killed!NoReport
<1>40. Torn!Tick => Killed!Tick
  BY DEF Torn!Tick, Torn!Running, Torn!Clients, Torn!Elapse, Torn!Later, Torn!history,
     Torn!Max, Killed!Tick, Killed!Running, Killed!Clients, Killed!Elapse, Killed!Later,
     Killed!history, Killed!Max
<1>q. QED
  BY <1>1, <1>2, <1>3, <1>4, <1>5, <1>6, <1>7, <1>8, <1>9, <1>10, <1>11, <1>12, <1>13,
     <1>14, <1>15, <1>16, <1>17, <1>18, <1>19, <1>20, <1>21, <1>22, <1>23, <1>24, <1>25,
     <1>26, <1>27, <1>28, <1>29, <1>30, <1>31, <1>32, <1>33, <1>34, <1>35, <1>36, <1>37,
     <1>38, <1>39, <1>40 DEF Torn!Next, Torn!Observer, Killed!Next, Killed!Observer

LEMMA ObserverConstants ==
  /\ Target \in Nat \ {0} /\ Timeout \in Nat \ {0} /\ Interval \in Nat \ {0}
  /\ CheckpointThreshold \in Nat \ {0} /\ RetainedReports \in Nat \ {0}
  /\ RetainedCheckpoints \in Nat \ {0}
  /\ MaxActions \in Nat /\ MaxSkips \in Nat /\ MaxKills \in Nat
BY PartsAssumption DEF Killed!ObserverAssumption, Torn!ObserverAssumption

(* The states that nothing is pending in. *)
LEMMA FirstStates ==
  /\ Killed!NoAction \in Killed!Actions /\ Killed!NewState \in Killed!States
  /\ Sound(Killed!NewState) /\ ~Killed!Pending(Killed!NewState)
  /\ Killed!NoSummary \in Killed!States /\ ~Killed!Pending(Killed!NoSummary)
  /\ Killed!NoSummary.nextCycle = 1 /\ Killed!NoSummary.nextActionSeq = 0
  /\ Killed!NewState.nextCycle = 1 /\ Killed!NewState.nextActionSeq = 1
  /\ Killed!NewState.pendingAction = Killed!NoAction
  /\ Killed!NoSummary.pendingAction = Killed!NoAction
  /\ Killed!NewState.checkpoints = 0
  /\ Killed!NewState.retention = [actions |-> 0, checkpoints |-> 0]
  /\ Killed!NoSummary.checkpoints = 0 /\ Killed!NoSummary.retention.checkpoints = 0
<1>1. Killed!NewClient \in Killed!ClientStates
  BY ObserverConstants DEF Killed!NewClient, Killed!ClientStates
<1>2. Killed!NoAction \in Killed!Actions /\ Killed!NoAction.cycle = 0
  BY <1>1, ObserverConstants DEF Killed!NoAction, Killed!Actions
<1>3. /\ Killed!NewState \in Killed!States /\ Killed!NewState.pendingAction = Killed!NoAction
      /\ Killed!NewState.nextCycle = 1 /\ Killed!NewState.nextActionSeq = 1
      /\ Killed!NewState.cycles = 0 /\ Killed!NewState.connectivitySkips = 0
      /\ Killed!NewState.nextScheduleSlot = 1 /\ Killed!NewState.checkpoints = 0
      /\ Killed!NewState.retention = [actions |-> 0, checkpoints |-> 0]
  BY <1>2, ObserverConstants DEF Killed!NewState, Killed!States
<1>4. /\ Killed!NoSummary \in Killed!States /\ Killed!NoSummary.pendingAction = Killed!NoAction
      /\ Killed!NoSummary.nextCycle = 1 /\ Killed!NoSummary.nextActionSeq = 0
      /\ Killed!NoSummary.checkpoints = 0 /\ Killed!NoSummary.retention.checkpoints = 0
  BY <1>3 DEF Killed!NoSummary, Killed!States
<1>5. ~Killed!Pending(Killed!NewState) /\ ~Killed!Pending(Killed!NoSummary)
  BY <1>2, <1>3, <1>4 DEF Killed!Pending
<1>6. Sound(Killed!NewState)
  BY <1>3, <1>5 DEF Sound, Killed!CountsAgree
<1>7. QED
  BY <1>2, <1>3, <1>4, <1>5, <1>6

(* A state with other clients in its pending action. *)
WithClients(s, f) == [s EXCEPT !.pendingAction.clients = f]

LEMMA ClientsReplaced ==
  ASSUME NEW s \in Killed!States, NEW f \in [Killed!Clients -> Killed!ClientStates]
  PROVE  LET t == WithClients(s, f) IN
         /\ t \in Killed!States /\ t.pendingAction.clients = f
         /\ t.pendingAction.cycle = s.pendingAction.cycle
         /\ t.pendingAction.reportSeq = s.pendingAction.reportSeq
         /\ t.pendingAction.method = s.pendingAction.method
         /\ t.pendingAction.reservation = s.pendingAction.reservation
         /\ t.pendingAction.driverOutcome = s.pendingAction.driverOutcome
         /\ t.pendingAction.evidence = s.pendingAction.evidence
         /\ t.nextActionSeq = s.nextActionSeq /\ t.nextCycle = s.nextCycle
         /\ t.nextScheduleSlot = s.nextScheduleSlot /\ t.cycles = s.cycles /\ t.gate = s.gate
         /\ t.connectivitySkips = s.connectivitySkips /\ t.nextActionSet = s.nextActionSet
         /\ t.checkpoints = s.checkpoints /\ t.retention = s.retention
BY DEF WithClients, Killed!States, Killed!Actions

(* It is as sound as its clients. *)
LEMMA ClientsSound ==
  ASSUME NEW s, Sound(s), Killed!Pending(s),
         NEW f \in [Killed!Clients -> Killed!ClientStates],
         \A c \in Killed!Clients : Killed!ValidClient(f[c], s.pendingAction.driverOutcome)
  PROVE  Sound(WithClients(s, f)) /\ Killed!Pending(WithClients(s, f))
<1> DEFINE t == WithClients(s, f)
<1>1. s \in Killed!States
  BY DEF Sound
<1>2. /\ t \in Killed!States /\ t.pendingAction.clients = f
      /\ t.pendingAction.cycle = s.pendingAction.cycle
      /\ t.pendingAction.reportSeq = s.pendingAction.reportSeq
      /\ t.pendingAction.method = s.pendingAction.method
      /\ t.pendingAction.reservation = s.pendingAction.reservation
      /\ t.pendingAction.driverOutcome = s.pendingAction.driverOutcome
      /\ t.pendingAction.evidence = s.pendingAction.evidence
      /\ t.nextActionSeq = s.nextActionSeq /\ t.nextCycle = s.nextCycle
      /\ t.nextScheduleSlot = s.nextScheduleSlot /\ t.cycles = s.cycles /\ t.gate = s.gate
      /\ t.connectivitySkips = s.connectivitySkips /\ t.nextActionSet = s.nextActionSet
      /\ t.checkpoints = s.checkpoints /\ t.retention = s.retention
  BY <1>1, ClientsReplaced
<1> HIDE DEF t
<1>3. Killed!Pending(t)
  BY <1>2 DEF Killed!Pending
<1>4. Killed!CountsAgree(t)
  BY <1>2, <1>3 DEF Sound, Killed!CountsAgree, Killed!ValidPending
<1>5. Sound(t)
  BY <1>2, <1>3, <1>4 DEF Sound
<1>6. QED
  BY <1>3, <1>5 DEF t

(* The instance's cardinality is the library's. *)
LEMMA ObserverCardinality == \A S : Killed!Cardinality(S) = Cardinality(S)
BY Zenon DEF Killed!Cardinality, Cardinality

(* Without reports the gate is pending.                                        *)
LEMMA NoReports == Killed!GateOf(<<>>) = Killed!NewState.gate
<1>1. /\ \A v : Killed!Telling(<<>>, v) = {}
      /\ \A m : {i \in Killed!Telling(<<>>, "success") : <<>>[i].method = m} = {}
  BY DEF Killed!Telling
<1>2. /\ \A m : Killed!Successes(<<>>, m) = 0
      /\ Killed!Divergences(<<>>) = 0
  BY <1>1, ObserverCardinality, FS_EmptySet DEF Killed!Successes, Killed!Divergences
<1>3. ~ \A m \in Killed!Methods : 0 >= Target
  BY ObserverConstants DEF Killed!Methods
<1>4. QED
  BY <1>2, <1>3 DEF Killed!GateOf, Killed!NewState

(* A report more is a success more of its method, or a divergence more, or     *)
(* neither.                                                                    *)
LEMMA ReportAdded ==
  ASSUME NEW q \in Seq(FoldedReports), NEW e \in FoldedReports
  PROVE  /\ \A m \in Killed!Methods :
              /\ Killed!Successes(q, m) \in Nat
              /\ Killed!Successes(Append(q, e), m) = Killed!Successes(q, m)
                   + (IF e.report.verdict = "success" /\ e.method = m THEN 1 ELSE 0)
         /\ Killed!Divergences(q) \in Nat
         /\ Killed!Divergences(Append(q, e)) = Killed!Divergences(q)
              + (IF e.report.verdict = "confirmed-divergence" THEN 1 ELSE 0)
<1> DEFINE n == Len(q)
           p == Append(q, e)
<1>1. /\ n \in Nat /\ DOMAIN q = 1 .. n /\ DOMAIN p = 1 .. (n + 1) /\ p[n + 1] = e
      /\ \A i \in 1 .. n : p[i] = q[i]
  OBVIOUS
<1> HIDE DEF n, p
<1>2. IsFiniteSet(1 .. n) /\ n + 1 \notin 1 .. n
  BY <1>1, FS_Interval
<1>3. ASSUME NEW S \in SUBSET (1 .. n), NEW b \in BOOLEAN
      PROVE  /\ Killed!Cardinality(S) \in Nat
             /\ Killed!Cardinality(IF b THEN S \cup {n + 1} ELSE S)
                  = Killed!Cardinality(S) + (IF b THEN 1 ELSE 0)
  <2>1. IsFiniteSet(S) /\ n + 1 \notin S
    BY <1>2, FS_Subset
  <2>2. /\ Cardinality(S) \in Nat
        /\ Cardinality(S \cup {n + 1}) = Cardinality(S) + 1
    BY <2>1, FS_CardinalityType, FS_AddElement
  <2>3. QED
    BY <2>2, ObserverCardinality
<1>4. ASSUME NEW m \in Killed!Methods
      PROVE  /\ Killed!Successes(q, m) \in Nat
             /\ Killed!Successes(p, m) = Killed!Successes(q, m)
                  + (IF e.report.verdict = "success" /\ e.method = m THEN 1 ELSE 0)
  <2> DEFINE b == e.report.verdict = "success" /\ e.method = m
             S == {i \in Killed!Telling(q, "success") : q[i].method = m}
             T == {i \in Killed!Telling(p, "success") : p[i].method = m}
  <2>1. S \in SUBSET (1 .. n) /\ b \in BOOLEAN
    BY <1>1 DEF Killed!Telling
  <2>2. T = IF b THEN S \cup {n + 1} ELSE S
    BY <1>1 DEF Killed!Telling
  <2>3. /\ Killed!Successes(q, m) = Killed!Cardinality(S)
        /\ Killed!Successes(p, m) = Killed!Cardinality(T)
    BY DEF Killed!Successes
  <2> HIDE DEF b, S, T
  <2>4. QED
    BY <1>3, <2>1, <2>2, <2>3 DEF b
<1>5. /\ Killed!Divergences(q) \in Nat
      /\ Killed!Divergences(p) = Killed!Divergences(q)
           + (IF e.report.verdict = "confirmed-divergence" THEN 1 ELSE 0)
  <2> DEFINE b == e.report.verdict = "confirmed-divergence"
             S == Killed!Telling(q, "confirmed-divergence")
             T == Killed!Telling(p, "confirmed-divergence")
  <2>1. S \in SUBSET (1 .. n) /\ b \in BOOLEAN
    BY <1>1 DEF Killed!Telling
  <2>2. T = IF b THEN S \cup {n + 1} ELSE S
    BY <1>1 DEF Killed!Telling
  <2>3. /\ Killed!Divergences(q) = Killed!Cardinality(S)
        /\ Killed!Divergences(p) = Killed!Cardinality(T)
    BY DEF Killed!Divergences
  <2> HIDE DEF b, S, T
  <2>4. QED
    BY <1>3, <2>1, <2>2, <2>3 DEF b
<1>6. QED
  BY <1>4, <1>5 DEF p

(* Folding a report into the gate of those before it gives the gate of all.    *)
LEMMA FoldIsGateOf ==
  ASSUME NEW q \in Seq(FoldedReports), NEW e \in FoldedReports
  PROVE  Killed!Fold(Killed!GateOf(q), e.method, e.report.verdict) = Killed!GateOf(Append(q, e))
<1> DEFINE p == Append(q, e)
           gate == Killed!GateOf(q)
           v == e.report.verdict
           done == IF v = "success" THEN [gate.successful EXCEPT ![e.method] = @ + 1]
                   ELSE gate.successful
<1>1. e.method \in Killed!Methods
  BY DEF FoldedReports
<1>2. /\ gate.successful = [m \in Killed!Methods |-> Killed!Successes(q, m)]
      /\ gate.confirmedDivergences = Killed!Divergences(q)
      /\ gate.status = IF Killed!Divergences(q) > 0 THEN "failed"
                       ELSE IF \A m \in Killed!Methods : Killed!Successes(q, m) >= Target
                       THEN "green" ELSE "pending"
  BY DEF Killed!GateOf
<1>3. /\ \A m \in Killed!Methods :
           /\ Killed!Successes(q, m) \in Nat
           /\ Killed!Successes(p, m) = Killed!Successes(q, m)
                + (IF v = "success" /\ e.method = m THEN 1 ELSE 0)
      /\ Killed!Divergences(q) \in Nat
      /\ Killed!Divergences(p) = Killed!Divergences(q)
           + (IF v = "confirmed-divergence" THEN 1 ELSE 0)
  BY ReportAdded
<1>4. done = [m \in Killed!Methods |-> Killed!Successes(p, m)]
  <2>1. CASE v = "success"
    <3>1. done = [m \in Killed!Methods |-> Killed!Successes(q, m)
                                            + (IF e.method = m THEN 1 ELSE 0)]
      BY <1>1, <1>2, <1>3, <2>1
    <3>2. \A m \in Killed!Methods :
            Killed!Successes(q, m) + (IF e.method = m THEN 1 ELSE 0) = Killed!Successes(p, m)
      BY <1>3, <2>1
    <3> HIDE DEF done, p, v
    <3>3. QED
      BY <3>1, <3>2
  <2>2. CASE v # "success"
    <3>1. \A m \in Killed!Methods : Killed!Successes(p, m) = Killed!Successes(q, m)
      BY <1>3, <2>2
    <3>2. done = gate.successful
      BY <2>2
    <3> HIDE DEF done, p, v, gate
    <3>3. QED
      BY <1>2, <3>1, <3>2
  <2>3. QED
    BY <2>1, <2>2
<1>5. Killed!GateOf(p) =
        [status |-> IF Killed!Divergences(p) > 0 THEN "failed"
                    ELSE IF \A m \in Killed!Methods : Killed!Successes(p, m) >= Target
                    THEN "green" ELSE "pending",
         successful |-> [m \in Killed!Methods |-> Killed!Successes(p, m)],
         confirmedDivergences |-> Killed!Divergences(p)]
  BY DEF Killed!GateOf
<1>6. Killed!Fold(gate, e.method, v) =
        [status |-> IF v = "confirmed-divergence" THEN "failed"
                    ELSE IF /\ v = "success" /\ gate.status = "pending"
                            /\ \A m \in Killed!Methods : done[m] >= Target
                    THEN "green" ELSE gate.status,
         successful |-> done,
         confirmedDivergences |-> gate.confirmedDivergences
                                    + (IF v = "confirmed-divergence" THEN 1 ELSE 0)]
  BY DEF Killed!Fold
<1> HIDE DEF p, gate, v, done
<1>7. \A m \in Killed!Methods : done[m] = Killed!Successes(p, m)
  BY <1>4
<1> DEFINE diverges == v = "confirmed-divergence"
           full == \A m \in Killed!Methods : Killed!Successes(p, m) >= Target
           before == \A m \in Killed!Methods : Killed!Successes(q, m) >= Target
           d == Killed!Divergences(q)
<1>8. gate.confirmedDivergences + (IF diverges THEN 1 ELSE 0) = Killed!Divergences(p)
  BY <1>2, <1>3
<1>9. /\ Killed!Divergences(p) > 0 <=> (diverges \/ d > 0)
      /\ before => full
      /\ v # "success" => (full => before)
  <2>1. Killed!Divergences(p) > 0 <=> (diverges \/ d > 0)
    BY <1>3
  <2>2. Target \in Nat
    BY ObserverConstants
  <2>3. before => full
    <3>1. \A m \in Killed!Methods :
            Killed!Successes(q, m) >= Target => Killed!Successes(p, m) >= Target
      BY <1>3, <2>2
    <3>2. QED
      BY <3>1
  <2>4. v # "success" => (full => before)
    BY <1>3
  <2>5. QED
    BY <2>1, <2>3, <2>4
<1>10. (\A m \in Killed!Methods : done[m] >= Target) <=> full
  BY <1>7
<1> HIDE DEF diverges, full, before, d
<1>11. (IF diverges THEN "failed"
        ELSE IF v = "success" /\ gate.status = "pending" /\ full THEN "green" ELSE gate.status)
         = (IF diverges \/ d > 0 THEN "failed" ELSE IF full THEN "green" ELSE "pending")
  <2>1. gate.status = IF d > 0 THEN "failed" ELSE IF before THEN "green" ELSE "pending"
    BY <1>2 DEF d, before
  <2>2. QED
    BY <1>9, <2>1
<1>12. Killed!Fold(gate, e.method, v) =
         [status |-> IF diverges \/ d > 0 THEN "failed" ELSE IF full THEN "green" ELSE "pending",
          successful |-> done, confirmedDivergences |-> Killed!Divergences(p)]
  BY <1>6, <1>8, <1>10, <1>11 DEF diverges
<1>13. Killed!GateOf(p) =
         [status |-> IF diverges \/ d > 0 THEN "failed" ELSE IF full THEN "green" ELSE "pending",
          successful |-> done, confirmedDivergences |-> Killed!Divergences(p)]
  BY <1>4, <1>5, <1>9 DEF full
<1>14. QED
  BY <1>12, <1>13 DEF p, gate, v

(* A state s that goes on with the action of a state t.                        *)
Carries(s, t) ==
  /\ Sound(s) /\ Doubted(s)
  /\ Killed!Pending(s) = Killed!Pending(t)
  /\ s.pendingAction.cycle = t.pendingAction.cycle
  /\ s.pendingAction.reportSeq = t.pendingAction.reportSeq
  /\ s.pendingAction.reservation = t.pendingAction.reservation
  /\ t.pendingAction.driverOutcome => s.pendingAction.driverOutcome
  /\ s.nextActionSeq = t.nextActionSeq /\ s.nextCycle = t.nextCycle /\ s.gate = t.gate
  /\ s.checkpoints = t.checkpoints /\ s.retention = t.retention

(* The points outside which the summary is the observer's own copy.            *)
Aside == Detached \cup Checkpointing

(* What most steps have in common: they change no report and at most persist   *)
(* such a state.                                                               *)
MoveTo(s) ==
  /\ point \notin Aside /\ point' \in Killed!Points \ Aside
  /\ point' = "reject" => point = "reject"
  /\ state' = s /\ summary' \in {s, Killed!NoSummary} /\ (summary = state => summary' = s)
  /\ UNCHANGED <<file, temp, report, crashes, reserved, ambiguous, folded, refused,
                 checkpointFiles, uncounted>>
  /\ at' \in Killed!Clients /\ failures' \in 0 .. CheckpointThreshold
  /\ Carries(s, state) /\ Shape(point', s, at')
  /\ point' \in {"post", "posted"} => s.pendingAction.reservation \notin ambiguous
  /\ point' \in {"persist", "replace", "commit"} => point' = point

LEMMA SummaryMissing == ASSUME NEW s, Sound(s) PROVE s # Killed!NoSummary
<1>1. Killed!NoSummary.nextCycle # Killed!NoSummary.nextActionSeq
  BY FirstStates
<1>2. QED
  BY <1>1, FirstStates DEF Sound, Killed!CountsAgree

LEMMA MoveKeepsCommon ==
  ASSUME CommonInv, NEW s, point \notin Aside, point' \in Killed!Points \ Aside,
         state' = s, summary' \in {s, Killed!NoSummary},
         UNCHANGED <<file, temp, report, crashes, reserved, ambiguous, folded, refused,
                     checkpointFiles, uncounted>>,
         at' \in Killed!Clients, failures' \in 0 .. CheckpointThreshold,
         posts' \in [1 .. MaxActions -> [Killed!Clients -> Nat]],
         Carries(s, state), Shape(point', s, at'),
         point' \in {"post", "posted"} => s.pendingAction.reservation \notin ambiguous,
         point' \in {"persist", "replace", "commit"} => point' = point
  PROVE  CommonInv'
<1>1. ObserverTypes'
  BY DEF CommonInv, ObserverTypes
<1>2. Synced'
  BY DEF Synced, Carries, Sound, Aside
<1>3. Shape(point, state, at)'
  BY DEF Shape
<1>4. Durable(point, state.pendingAction.reportSeq, report)'
  BY DEF CommonInv, Durable, Carries
<1>5. Trusted'
  <2>1. (Doubted(state) /\ Doubted(summary))'
    <3>1. Doubted(Killed!NoSummary)'
      BY FirstStates DEF Doubted
    <3>2. QED
      BY <3>1 DEF Doubted, Carries
  <2>2. \A r : Past(r, state) => Past(r, state)' /\ Past(r, summary)'
    <3>1. \A r : Past(r, Killed!NoSummary)
      BY FirstStates DEF Past
    <3>2. QED
      BY <3>1 DEF Past, Carries
  <2>3. Reported'
    BY <2>2 DEF CommonInv, Trusted, Reported, Told
  <2>4. QED
    BY <2>1, <2>3 DEF Trusted
<1>6. QED
  BY <1>1, <1>2, <1>3, <1>4, <1>5 DEF CommonInv

LEMMA MoveKeepsOrder ==
  ASSUME CommonInv, OrderInv, NEW s, point \notin Aside, point' \in Killed!Points \ Aside,
         point' = "reject" => point = "reject", state' = s, summary' = s,
         UNCHANGED <<file, temp, folded, refused, checkpointFiles, uncounted, posts>>,
         Carries(s, state),
         \A c \in Killed!Clients : Unsent(point', s, at', c) => Unsent(point, state, at, c)
  PROVE  OrderInv'
<1>1. summary = state
  BY DEF CommonInv, Synced, OrderInv, Numbered, Aside
<1>2. summary # Killed!NoSummary /\ summary' # Killed!NoSummary
  BY SummaryMissing DEF OrderInv, Numbered, Carries, Aside
<1>3. Numbered'
  BY <1>1, <1>2 DEF OrderInv, Numbered, Carries
<1>4. OwnFiles'
  BY <1>1 DEF OrderInv, OwnFiles, PendingOnly, Carries
<1>5. Sent'
  BY <1>1 DEF OrderInv, Sent, Carries, Unsent
<1>6. Windowed'
  BY <1>1, <1>2 DEF OrderInv, Windowed, Window, Counted, Carries, Aside, Checkpointing
<1>7. QED
  BY <1>3, <1>4, <1>5, <1>6 DEF OrderInv

LEMMA MoveKeeps ==
  ASSUME CommonInv, NEW s, MoveTo(s), posts' = posts,
         \A c \in Killed!Clients : Unsent(point', s, at', c) => Unsent(point, state, at, c)
  PROVE  CommonInv' /\ (OrderInv => OrderInv')
<1>1. CommonInv'
  BY MoveKeepsCommon DEF MoveTo, CommonInv, ObserverTypes
<1>2. ASSUME OrderInv PROVE OrderInv'
  <2>1. summary = state
    BY <1>2 DEF CommonInv, Synced, OrderInv, Numbered, MoveTo, Aside
  <2>2. QED
    BY <1>2, <2>1, MoveKeepsOrder DEF MoveTo
<1>3. QED
  BY <1>1, <1>2

LEMMA CarriesOn == ASSUME CommonInv PROVE Carries(state, state)
BY DEF CommonInv, Synced, Trusted, Carries

(* Beside its creates' own steps, nothing becomes unsent again. *)
LEMMA UnsentElsewhere ==
  ASSUME NEW s, NEW p, NEW a, p \notin {"post", "posted"}, NEW c,
         Unsent(p, s, a, c), s.pendingAction.clients[c].create = state.pendingAction.clients[c].create
  PROVE  Unsent(point, state, at, c)
BY DEF Unsent

LEMMA GotoKeeps ==
  ASSUME CommonInv, point \notin Aside, NEW p, Killed!Goto(p), Shape(p, state, at),
         p \in {"loop", "act", "after", "recover", "creates", "polls", "poll", "settle",
                "evidence", "finalize"}
  PROVE  CommonInv' /\ (OrderInv => OrderInv')
<1>1. /\ point' = p
      /\ UNCHANGED <<state, summary, file, temp, report, failures, at, crashes, reserved, posts,
                     ambiguous, folded, refused, checkpointFiles, uncounted>>
  BY DEF Killed!Goto, Killed!history
<1>2. MoveTo(state)
  <2>1. summary \in {state, Killed!NoSummary}
    BY DEF CommonInv, Synced, Aside
  <2>2. /\ p \in Killed!Points \ Aside
        /\ p \notin {"post", "posted", "persist", "replace", "commit", "reject"}
    BY DEF Killed!Points, Aside, Detached, Checkpointing
  <2>3. at \in Killed!Clients /\ failures \in 0 .. CheckpointThreshold
    BY DEF CommonInv, ObserverTypes
  <2>4. QED
    BY <1>1, <2>1, <2>2, <2>3, CarriesOn DEF MoveTo
<1>3. \A c \in Killed!Clients : Unsent(point', state, at', c) => Unsent(point, state, at, c)
  BY <1>1, UnsentElsewhere
<1>4. QED
  BY <1>1, <1>2, <1>3, MoveKeeps

(* The steps that only go from one point to another. *)
LEMMA PointSteps ==
  ASSUME CommonInv,
         \/ Killed!NoCheckpointDue \/ Killed!Sleep \/ Killed!Resume \/ Killed!Recovered
         \/ Killed!CreatesDone \/ Killed!PollsStarted \/ Killed!NothingRipe \/ Killed!Unsettled
         \/ Killed!EndTurn /\ Killed!Pending(state)
  PROVE  CommonInv' /\ (OrderInv => OrderInv')
<1>h. Shape(point, state, at)
  BY DEF CommonInv
<1>p. \A p : p \in {"loop", "act", "after"} => Shape(p, state, at) /\ p \notin Aside
  BY DEF Shape, Driving, Finalizing, Aside, Detached, Checkpointing
<1>d. ASSUME point \in Driving
      PROVE  /\ point \notin Aside
             /\ \A p : p \in {"recover", "creates", "polls", "poll", "settle"} => Shape(p, state, at)
  BY <1>h, <1>d DEF Shape, Driving, Finalizing, Aside, Detached, Checkpointing
<1>1. CASE Killed!NoCheckpointDue
  BY <1>1, <1>p, GotoKeeps DEF Killed!NoCheckpointDue
<1>2. CASE Killed!Sleep
  BY <1>2, <1>p, GotoKeeps DEF Killed!Sleep
<1>3. CASE Killed!Resume
  <2>1. point = "act" /\ point \notin Aside /\ Killed!Pending(state)
    BY <1>3, <1>p DEF Killed!Resume
  <2>2. CASE ~state.pendingAction.driverOutcome
    <3>1. Killed!Goto("recover") /\ Shape("recover", state, at)
      BY <1>3, <2>1, <2>2 DEF Killed!Resume, Killed!pending, Shape, Driving, Finalizing
    <3>2. QED
      BY <2>1, <3>1, GotoKeeps
  <2>3. CASE state.pendingAction.driverOutcome /\ state.pendingAction.evidence
    <3>1. Killed!Goto("finalize") /\ Shape("finalize", state, at)
      BY <1>3, <2>1, <2>3 DEF Killed!Resume, Killed!pending, Shape, Driving, Finalizing
    <3>2. QED
      BY <2>1, <3>1, GotoKeeps
  <2>4. CASE state.pendingAction.driverOutcome /\ ~state.pendingAction.evidence
    <3>1. Killed!Goto("evidence") /\ Shape("evidence", state, at)
      BY <1>3, <2>1, <2>4 DEF Killed!Resume, Killed!pending, Shape, Driving, Finalizing
    <3>2. QED
      BY <2>1, <3>1, GotoKeeps
  <2>5. QED
    BY <2>2, <2>3, <2>4
<1>4. CASE Killed!Recovered
  BY <1>4, <1>d, GotoKeeps DEF Killed!Recovered, Driving
<1>5. CASE Killed!CreatesDone
  BY <1>5, <1>d, GotoKeeps DEF Killed!CreatesDone, Driving
<1>6. CASE Killed!PollsStarted
  BY <1>6, <1>d, GotoKeeps DEF Killed!PollsStarted, Driving
<1>7. CASE Killed!NothingRipe
  BY <1>7, <1>d, GotoKeeps DEF Killed!NothingRipe, Driving
<1>8. CASE Killed!Unsettled
  BY <1>8, <1>d, <1>p, GotoKeeps DEF Killed!Unsettled, Driving
<1>9. CASE Killed!EndTurn /\ Killed!Pending(state)
  BY <1>9, <1>p, GotoKeeps DEF Killed!EndTurn
<1>10. QED
  BY <1>1, <1>2, <1>3, <1>4, <1>5, <1>6, <1>7, <1>8, <1>9

LEMMA AdvanceKeeps ==
  ASSUME CommonInv, point \notin Aside, NEW s, NEW p, Killed!Advance(s, p),
         Carries(s, state), Shape(p, s, at),
         p \in {"loop", "after", "recover", "post", "poll", "settle", "evidence", "finalize"},
         p = "post" => s.pendingAction.reservation \notin ambiguous,
         \A c \in Killed!Clients : Unsent(p, s, at, c) => Unsent(point, state, at, c)
  PROVE  CommonInv' /\ (OrderInv => OrderInv')
<1>1. /\ point' = p /\ state' = s /\ summary' = s
      /\ UNCHANGED <<file, temp, report, failures, at, crashes, reserved, posts, ambiguous,
                     folded, refused, checkpointFiles, uncounted>>
  BY DEF Killed!Advance, Killed!Persist, Killed!history
<1>2. MoveTo(s)
  <2>2. p \in Killed!Points \ Aside /\ p \notin {"posted", "persist", "replace", "commit", "reject"}
    BY DEF Killed!Points, Aside, Detached, Checkpointing
  <2>3. at \in Killed!Clients /\ failures \in 0 .. CheckpointThreshold
    BY DEF CommonInv, ObserverTypes
  <2>4. QED
    BY <1>1, <2>2, <2>3 DEF MoveTo
<1>4. QED
  BY <1>1, <1>2, MoveKeeps

(* The clients of the pending action. *)
LEMMA ClientTypes ==
  ASSUME CommonInv
  PROVE  /\ state \in Killed!States
         /\ state.pendingAction.clients \in [Killed!Clients -> Killed!ClientStates]
         /\ Killed!Pending(state) => \A c \in Killed!Clients :
              Killed!ValidClient(state.pendingAction.clients[c], state.pendingAction.driverOutcome)
<1>1. state \in Killed!States /\ Killed!CountsAgree(state)
  BY DEF CommonInv, Synced, Sound
<1>2. state.pendingAction.clients \in [Killed!Clients -> Killed!ClientStates]
  BY <1>1 DEF Killed!States, Killed!Actions
<1>3. QED
  BY <1>1, <1>2 DEF Killed!CountsAgree, Killed!ValidPending

LEMMA ClientsCarry ==
  ASSUME NEW t, Sound(t), Doubted(t), Killed!Pending(t),
         NEW f \in [Killed!Clients -> Killed!ClientStates],
         \A c \in Killed!Clients : Killed!ValidClient(f[c], t.pendingAction.driverOutcome),
         t.pendingAction.reservation \in ambiguous =>
           \A c \in Killed!Clients :
             t.pendingAction.clients[c].create \in {"prepared", "failed"} =>
               f[c].create \in {"prepared", "failed"}
  PROVE  LET s == WithClients(t, f) IN
         /\ Carries(s, t) /\ Killed!Pending(s) /\ s.pendingAction.clients = f
         /\ s.pendingAction.driverOutcome = t.pendingAction.driverOutcome
         /\ s.pendingAction.evidence = t.pendingAction.evidence
<1> DEFINE s == WithClients(t, f)
<1>1. /\ s.pendingAction.clients = f
      /\ s.pendingAction.cycle = t.pendingAction.cycle
      /\ s.pendingAction.reportSeq = t.pendingAction.reportSeq
      /\ s.pendingAction.reservation = t.pendingAction.reservation
      /\ s.pendingAction.driverOutcome = t.pendingAction.driverOutcome
      /\ s.pendingAction.evidence = t.pendingAction.evidence
      /\ s.nextActionSeq = t.nextActionSeq /\ s.nextCycle = t.nextCycle /\ s.gate = t.gate
      /\ s.checkpoints = t.checkpoints /\ s.retention = t.retention
  BY ClientsReplaced DEF Sound
<1>2. Sound(s) /\ Killed!Pending(s)
  BY ClientsSound
<1> HIDE DEF s
<1>3. Doubted(s)
  BY <1>1 DEF Doubted
<1>4. Carries(s, t)
  BY <1>1, <1>2, <1>3 DEF Carries
<1>5. QED
  BY <1>1, <1>2, <1>4 DEF s

LEMMA StateClientsCarry ==
  ASSUME CommonInv, Killed!Pending(state),
         NEW f \in [Killed!Clients -> Killed!ClientStates],
         \A c \in Killed!Clients : Killed!ValidClient(f[c], state.pendingAction.driverOutcome),
         state.pendingAction.reservation \in ambiguous =>
           \A c \in Killed!Clients :
             state.pendingAction.clients[c].create \in {"prepared", "failed"} =>
               f[c].create \in {"prepared", "failed"}
  PROVE  LET s == WithClients(state, f) IN
         /\ Carries(s, state) /\ Killed!Pending(s) /\ s.pendingAction.clients = f
         /\ s.pendingAction.driverOutcome = state.pendingAction.driverOutcome
         /\ s.pendingAction.evidence = state.pendingAction.evidence
<1>1. Sound(state) /\ Doubted(state)
  BY DEF CommonInv, Synced, Trusted
<1>2. QED
  BY <1>1, ClientsCarry

(* A step of one client while the searches are driven. *)
LEMMA ClientAdvances ==
  ASSUME CommonInv, point \in Driving, NEW c \in Killed!Clients, NEW new \in Killed!ClientStates,
         Killed!ValidClient(new, FALSE),
         NEW p \in {"recover", "post", "settle"}, Killed!Advance(Killed!UpdateClient(c, new), p),
         p = "post" => point = "posted" /\ c = at,
         state.pendingAction.clients[c].create \in {"prepared", "failed"} /\ p # "post" =>
           new.create \in {"prepared", "failed"},
         new.create \notin {"none", "prepared"}
  PROVE  CommonInv' /\ (OrderInv => OrderInv')
<1> DEFINE f == [state.pendingAction.clients EXCEPT ![c] = new]
           s == WithClients(state, f)
<1>1. Killed!Pending(state) /\ ~state.pendingAction.driverOutcome /\ point \notin Aside
  BY DEF CommonInv, Shape, Driving, Aside, Detached, Checkpointing
<1>2. f \in [Killed!Clients -> Killed!ClientStates]
  BY ClientTypes
<1>f. \A d \in Killed!Clients : f[d] = IF d = c THEN new ELSE state.pendingAction.clients[d]
  BY ClientTypes
<1>v. \A d \in Killed!Clients : Killed!ValidClient(f[d], state.pendingAction.driverOutcome)
  <2>1. TAKE d \in Killed!Clients
  <2>2. CASE d = c
    <3>1. f[d] = new
      BY <1>f, <2>2
    <3>2. QED
      BY <1>1, <3>1 DEF Killed!ValidClient
  <2>3. CASE d # c
    <3>1. f[d] = state.pendingAction.clients[d]
      BY <1>f, <2>3
    <3>2. QED
      BY <1>1, <3>1, ClientTypes
  <2>4. QED
    BY <2>2, <2>3
<1>a. p = "post" => state.pendingAction.reservation \notin ambiguous
  BY DEF CommonInv, Trusted
<1>3. Killed!UpdateClient(c, new) = s
  BY ClientTypes DEF Killed!UpdateClient, WithClients, Killed!States, Killed!Actions
<1>d. state.pendingAction.reservation \in ambiguous =>
        \A d \in Killed!Clients :
          state.pendingAction.clients[d].create \in {"prepared", "failed"} =>
            f[d].create \in {"prepared", "failed"}
  BY <1>a, <1>f
<1> HIDE DEF f
<1>4. /\ Carries(s, state) /\ Killed!Pending(s) /\ s.pendingAction.clients = f
      /\ s.pendingAction.driverOutcome = state.pendingAction.driverOutcome
  BY <1>1, <1>2, <1>v, <1>d, StateClientsCarry
<1> HIDE DEF s
<1>5. Shape(p, s, at)
  BY <1>1, <1>4 DEF Shape, Driving, Finalizing
<1>6. \A d \in Killed!Clients : Unsent(p, s, at, d) => Unsent(point, state, at, d)
  BY <1>4, <1>f DEF Unsent
<1>7. p = "post" => s.pendingAction.reservation \notin ambiguous
  BY <1>4, <1>a DEF Carries
<1>8. QED
  BY <1>1, <1>3, <1>4, <1>5, <1>6, <1>7, AdvanceKeeps

LEMMA FirstOfMember ==
  ASSUME NEW S \in SUBSET Killed!Clients, S # {}
  PROVE  Killed!FirstOf(S) \in S
BY DEF Killed!Clients, Killed!FirstOf

(* A create that was interrupted is closed. *)
LEMMA RecoverStep ==
  ASSUME CommonInv, Killed!RecoverCreate
  PROVE  CommonInv' /\ (OrderInv => OrderInv')
<1> DEFINE U == Killed!Unrecovered
           c == Killed!FirstOf(U)
           prepared == Killed!Creates("prepared") # {}
           status == IF prepared THEN "failed" ELSE "skipped"
           old == state.pendingAction.clients[c]
           new == [old EXCEPT !.create = status]
<1>1. /\ point = "recover" /\ U # {}
      /\ Killed!Advance(Killed!UpdateClient(c, new), "recover")
  BY DEF Killed!RecoverCreate, Killed!pending
<1>2. U \in SUBSET Killed!Clients
  BY DEF Killed!Unrecovered, Killed!Creates
<1>3. c \in U /\ c \in Killed!Clients
  BY <1>1, <1>2, FirstOfMember
<1>4. old.create = IF prepared THEN "prepared" ELSE "none"
  BY <1>3 DEF Killed!Unrecovered, Killed!Creates, Killed!pending
<1>5. old \in Killed!ClientStates /\ Killed!ValidClient(old, FALSE)
  <2>1. Killed!Pending(state) /\ ~state.pendingAction.driverOutcome
    BY <1>1 DEF CommonInv, Shape, Driving
  <2>2. QED
    BY <1>3, <2>1, ClientTypes DEF Killed!ValidClient
<1> HIDE DEF c, U, prepared, old
<1>6. new \in Killed!ClientStates /\ new.create = status
  BY <1>5 DEF Killed!ClientStates
<1>7. Killed!ValidClient(new, FALSE)
  <2>1. old.create # "succeeded" /\ new.poll = old.poll /\ new.completed = old.completed
    BY <1>4, <1>5 DEF Killed!ClientStates
  <2>2. old.poll = "none" /\ ~old.completed
    BY <1>5, <2>1 DEF Killed!ValidClient, Killed!ClientStates
  <2>3. QED
    BY <2>1, <2>2 DEF Killed!ValidClient
<1>8. (old.create \in {"prepared", "failed"} => new.create \in {"prepared", "failed"})
      /\ new.create \notin {"none", "prepared"}
  BY <1>4, <1>6
<1>9. point \in Driving
  BY <1>1 DEF Driving
<1> HIDE DEF new
<1>10. QED
  BY <1>1, <1>3, <1>6, <1>7, <1>8, <1>9, ClientAdvances DEF old

(* A create that was sent has its outcome. *)
LEMMA CompleteStep ==
  ASSUME CommonInv, Killed!CompleteCreate
  PROVE  CommonInv' /\ (OrderInv => OrderInv')
<1> DEFINE old == state.pendingAction.clients[at]
           new(status) == [old EXCEPT !.create = status,
                             !.left = IF status = "succeeded" THEN Timeout ELSE 0]
<1>1. PICK status \in {"succeeded", "failed"} :
        point = "posted" /\ Killed!Advance(Killed!UpdateClient(at, new(status)), "post")
  BY DEF Killed!CompleteCreate, Killed!pending
<1>2. at \in Killed!Clients /\ old.create = "prepared"
  BY <1>1 DEF CommonInv, ObserverTypes, Shape
<1>3. old \in Killed!ClientStates /\ Killed!ValidClient(old, FALSE)
  <2>1. Killed!Pending(state) /\ ~state.pendingAction.driverOutcome
    BY <1>1 DEF CommonInv, Shape, Driving
  <2>2. QED
    BY <1>2, <2>1, ClientTypes DEF Killed!ValidClient
<1> HIDE DEF old
<1>4. new(status) \in Killed!ClientStates /\ new(status).create = status
      /\ new(status).poll = old.poll /\ new(status).completed = old.completed
  <2>1. status \in {"succeeded", "failed"}
    BY <1>1
  <2>2. (IF status = "succeeded" THEN Timeout ELSE 0) \in 0 .. Timeout
    BY ObserverConstants
  <2>3. QED
    BY <1>3, <2>1, <2>2 DEF Killed!ClientStates
<1>5. Killed!ValidClient(new(status), FALSE)
  BY <1>2, <1>3, <1>4 DEF Killed!ValidClient, Killed!ClientStates
<1>6. point \in Driving
  BY <1>1 DEF Driving
<1> HIDE DEF new
<1>7. QED
  BY <1>1, <1>2, <1>4, <1>5, <1>6, ClientAdvances

(* A poll whose deadline has passed is closed. *)
LEMMA ExpireStep ==
  ASSUME CommonInv, Killed!ExpirePoll
  PROVE  CommonInv' /\ (OrderInv => OrderInv')
<1> DEFINE c == Killed!FirstOf(Killed!Ripe)
           old == state.pendingAction.clients[c]
           new == [old EXCEPT !.poll = "done", !.erred = @ \/ ~old.counted]
<1>1. /\ point = "poll" /\ Killed!Ripe # {}
      /\ Killed!Advance(Killed!UpdateClient(c, new), "settle")
  BY DEF Killed!ExpirePoll, Killed!pending
<1>2. c \in Killed!Clients /\ old.poll = "open"
  <2>1. Killed!Ripe \in SUBSET Killed!Clients
    BY DEF Killed!Ripe, Killed!OpenPolls
  <2>2. c \in Killed!Ripe
    BY <1>1, <2>1, FirstOfMember
  <2>3. QED
    BY <2>2 DEF Killed!Ripe, Killed!OpenPolls, Killed!pending
<1>3. old \in Killed!ClientStates /\ Killed!ValidClient(old, FALSE)
  <2>1. Killed!Pending(state) /\ ~state.pendingAction.driverOutcome
    BY <1>1 DEF CommonInv, Shape, Driving
  <2>2. QED
    BY <1>2, <2>1, ClientTypes DEF Killed!ValidClient
<1> HIDE DEF c, old
<1>4. new \in Killed!ClientStates /\ new.create = old.create /\ new.poll = "done"
      /\ new.counted = old.counted /\ new.completed = old.completed
      /\ new.erred = (old.erred \/ ~old.counted)
  BY <1>3 DEF Killed!ClientStates
<1>5. Killed!ValidClient(new, FALSE) /\ new.create = "succeeded"
  BY <1>2, <1>3, <1>4 DEF Killed!ValidClient, Killed!ClientStates
<1>6. point \in Driving
  BY <1>1 DEF Driving
<1> HIDE DEF new
<1>7. QED
  BY <1>1, <1>2, <1>4, <1>5, <1>6, ClientAdvances DEF old

(* The answer to a poll. *)
LEMMA AnswerStep ==
  ASSUME CommonInv, Killed!EndGet
  PROVE  CommonInv' /\ (OrderInv => OrderInv')
<1> DEFINE old == state.pendingAction.clients[at]
           completed(answer) == answer = "complete" /\ old.left > 0
           terminal(answer) == completed(answer) \/ old.left = 0
           new(answer) == [old EXCEPT
             !.counted = @ \/ answer # "error", !.erred = answer = "error",
             !.completed = completed(answer),
             !.poll = IF terminal(answer) THEN "done" ELSE "open",
             !.wait = IF terminal(answer) THEN 0 ELSE Killed!Min({Interval, old.left})]
<1>1. PICK answer \in {"error", "partial", "complete"} :
        point = "get" /\ Killed!Advance(Killed!UpdateClient(at, new(answer)), "settle")
  BY DEF Killed!EndGet, Killed!pending
<1>2. at \in Killed!Clients /\ old.poll = "open"
  BY <1>1 DEF CommonInv, ObserverTypes, Shape
<1>3. old \in Killed!ClientStates /\ Killed!ValidClient(old, FALSE)
  <2>1. Killed!Pending(state) /\ ~state.pendingAction.driverOutcome
    BY <1>1 DEF CommonInv, Shape, Driving
  <2>2. QED
    BY <1>2, <2>1, ClientTypes DEF Killed!ValidClient
<1>m. Killed!Min({Interval, old.left}) \in 0 .. Interval
  <2>1. old.left \in Nat /\ Interval \in Nat
    BY <1>3, ObserverConstants DEF Killed!ClientStates
  <2>2. QED
    <3>1. \E x \in {Interval, old.left} : \A y \in {Interval, old.left} : x <= y
      BY <2>1
    <3>2. Killed!Min({Interval, old.left}) \in {Interval, old.left}
          /\ \A y \in {Interval, old.left} : Killed!Min({Interval, old.left}) <= y
      BY <3>1 DEF Killed!Min
    <3>3. QED
      BY <2>1, <3>2
<1> HIDE DEF old
<1>4. new(answer) \in Killed!ClientStates /\ new(answer).create = old.create
      /\ new(answer).poll = (IF terminal(answer) THEN "done" ELSE "open")
      /\ new(answer).counted = (old.counted \/ answer # "error")
      /\ new(answer).completed = completed(answer)
      /\ new(answer).erred = (answer = "error")
  <2>1. PICK x \in BOOLEAN : x = (old.counted \/ answer # "error")
    BY Zenon
  <2>2. PICK y \in BOOLEAN : y = (answer = "error")
    BY Zenon
  <2>3. PICK z \in BOOLEAN : z = completed(answer)
    BY Zenon
  <2>4. PICK v \in 0 .. Interval :
          v = IF terminal(answer) THEN 0 ELSE Killed!Min({Interval, old.left})
    BY <1>m, ObserverConstants
  <2>5. PICK d \in {"open", "done"} : d = IF terminal(answer) THEN "done" ELSE "open"
    OBVIOUS
  <2>6. new(answer) = [old EXCEPT !.counted = x, !.erred = y, !.completed = z, !.poll = d, !.wait = v]
    BY <2>1, <2>2, <2>3, <2>4, <2>5, Zenon
  <2> HIDE DEF new, completed, terminal
  <2>7. /\ new(answer) \in Killed!ClientStates /\ new(answer).create = old.create
        /\ new(answer).poll = d /\ new(answer).counted = x /\ new(answer).erred = y
        /\ new(answer).completed = z
    BY <1>3, <2>6 DEF Killed!ClientStates
  <2>8. QED
    BY <2>1, <2>2, <2>3, <2>5, <2>7, Zenon
<1> HIDE DEF new
<1>5. Killed!ValidClient(new(answer), FALSE) /\ new(answer).create = "succeeded"
  BY <1>1, <1>2, <1>3, <1>4 DEF Killed!ValidClient, Killed!ClientStates
<1>6. point \in Driving
  BY <1>1 DEF Driving
<1>7. QED
  BY <1>1, <1>2, <1>4, <1>5, <1>6, ClientAdvances DEF old

(* The steps that change every client at once. *)
LEMMA ClientsStep ==
  ASSUME CommonInv, Killed!PrepareCreates \/ Killed!StartPolls
  PROVE  CommonInv' /\ (OrderInv => OrderInv')
<1> DEFINE old == state.pendingAction.clients
<1>t. old \in [Killed!Clients -> Killed!ClientStates]
  BY ClientTypes
<1>1. CASE Killed!PrepareCreates
  <2> DEFINE f == [c \in Killed!Clients |-> [old[c] EXCEPT !.create = "prepared"]]
             s == WithClients(state, f)
  <2>1. point = "creates" /\ Killed!Creates("none") = Killed!Clients /\ Killed!Advance(s, "post")
    BY <1>1 DEF Killed!PrepareCreates, WithClients
  <2>2. /\ Killed!Pending(state) /\ ~state.pendingAction.driverOutcome /\ point \notin Aside
    BY <2>1 DEF CommonInv, Shape, Driving, Aside, Detached, Checkpointing
  <2>3. \A c \in Killed!Clients : old[c].create = "none"
    BY <2>1 DEF Killed!Creates, Killed!pending
  <2>4. state.pendingAction.reservation \notin ambiguous
    BY <2>2, <2>3 DEF CommonInv, Trusted, Doubted
  <2>5. f \in [Killed!Clients -> Killed!ClientStates]
    BY <1>t DEF Killed!ClientStates
  <2>6. ASSUME NEW c \in Killed!Clients
        PROVE  Killed!ValidClient(f[c], state.pendingAction.driverOutcome)
    <3>1. Killed!ValidClient(old[c], state.pendingAction.driverOutcome) /\ old[c] \in Killed!ClientStates
      BY <1>t, <2>2, ClientTypes
    <3>2. f[c].poll = old[c].poll /\ f[c].completed = old[c].completed
      BY <3>1 DEF Killed!ClientStates
    <3>3. QED
      BY <2>2, <2>3, <3>1, <3>2 DEF Killed!ValidClient, Killed!ClientStates
  <2>f. \A c \in Killed!Clients : f[c].create = "prepared"
    BY <1>t DEF Killed!ClientStates
  <2> HIDE DEF f
  <2>7. /\ Carries(s, state) /\ Killed!Pending(s) /\ s.pendingAction.clients = f
        /\ s.pendingAction.driverOutcome = state.pendingAction.driverOutcome
    BY <2>2, <2>4, <2>5, <2>6, StateClientsCarry
  <2> HIDE DEF s
  <2>8. Shape("post", s, at)
    BY <2>2, <2>7 DEF Shape, Driving, Finalizing
  <2>9. \A c \in Killed!Clients : Unsent("post", s, at, c) => Unsent(point, state, at, c)
    BY <2>3 DEF Unsent
  <2>10. s.pendingAction.reservation \notin ambiguous
    BY <2>4, <2>7 DEF Carries
  <2>11. QED
    BY <2>1, <2>2, <2>7, <2>8, <2>9, <2>10, AdvanceKeeps
<1>2. CASE Killed!StartPolls
  <2> DEFINE f == [c \in Killed!Clients |-> IF c \in Killed!Unpolled
                                            THEN [old[c] EXCEPT !.poll = "open"] ELSE old[c]]
             s == WithClients(state, f)
  <2>1. point = "polls" /\ Killed!Advance(s, "poll")
    BY <1>2 DEF Killed!StartPolls, WithClients
  <2>2. Killed!Pending(state) /\ ~state.pendingAction.driverOutcome /\ point \notin Aside
    BY <2>1 DEF CommonInv, Shape, Driving, Aside, Detached, Checkpointing
  <2>3. \A c \in Killed!Unpolled : old[c].create = "succeeded" /\ old[c].poll = "none"
    BY DEF Killed!Unpolled, Killed!Creates, Killed!pending
  <2>5. f \in [Killed!Clients -> Killed!ClientStates]
    BY <1>t DEF Killed!ClientStates
  <2>f. \A c \in Killed!Clients : f[c].create = old[c].create /\ f[c].completed = old[c].completed
                                  /\ f[c].counted = old[c].counted /\ f[c].erred = old[c].erred
                                  /\ f[c].poll = IF c \in Killed!Unpolled THEN "open" ELSE old[c].poll
    BY <1>t DEF Killed!ClientStates
  <2>6. ASSUME NEW c \in Killed!Clients
        PROVE  Killed!ValidClient(f[c], state.pendingAction.driverOutcome)
    <3>1. Killed!ValidClient(old[c], state.pendingAction.driverOutcome) /\ old[c] \in Killed!ClientStates
      BY <1>t, <2>2, ClientTypes
    <3>2. QED
      BY <2>2, <2>3, <2>f, <3>1 DEF Killed!ValidClient, Killed!ClientStates
  <2> HIDE DEF f
  <2>7. /\ Carries(s, state) /\ Killed!Pending(s) /\ s.pendingAction.clients = f
        /\ s.pendingAction.driverOutcome = state.pendingAction.driverOutcome
    BY <2>2, <2>5, <2>6, <2>f, StateClientsCarry
  <2> HIDE DEF s
  <2>8. Shape("poll", s, at)
    BY <2>2, <2>7 DEF Shape, Driving, Finalizing
  <2>9. \A c \in Killed!Clients : Unsent("poll", s, at, c) => Unsent(point, state, at, c)
    BY <2>7, <2>f, UnsentElsewhere
  <2>11. QED
    BY <2>1, <2>2, <2>7, <2>8, <2>9, AdvanceKeeps
<1>3. QED
  BY <1>1, <1>2

(* The steps that leave the pending action's clients alone. *)
LEMMA CarriesRest ==
  ASSUME CommonInv, NEW s \in Killed!States, s.pendingAction.clients = state.pendingAction.clients,
         s.pendingAction.cycle = state.pendingAction.cycle,
         s.pendingAction.reportSeq = state.pendingAction.reportSeq,
         s.pendingAction.reservation = state.pendingAction.reservation,
         state.pendingAction.driverOutcome => s.pendingAction.driverOutcome,
         s.nextActionSeq = state.nextActionSeq, s.nextCycle = state.nextCycle,
         s.gate = state.gate, s.checkpoints = state.checkpoints, s.retention = state.retention,
         Killed!CountsAgree(s), s.pendingAction.method = state.pendingAction.method,
         ~Killed!Pending(state) => s.pendingAction = state.pendingAction
  PROVE  Carries(s, state) /\ Killed!Pending(s) = Killed!Pending(state)
<1>1. Killed!Pending(s) = Killed!Pending(state)
  BY DEF Killed!Pending
<1>2. Sound(s)
  BY <1>1 DEF CommonInv, Synced, Sound
<1>3. Doubted(s)
  BY <1>1 DEF CommonInv, Trusted, Doubted
<1>4. QED
  BY <1>1, <1>2, <1>3 DEF Carries

LEMMA LoopSteps ==
  ASSUME CommonInv,
         Killed!ConnectivitySkip \/ (Killed!EndTurn /\ ~Killed!Pending(state))
  PROVE  CommonInv' /\ (OrderInv => OrderInv')
<1>t. state \in Killed!States /\ Killed!CountsAgree(state)
  BY DEF CommonInv, Synced, Sound
<1>p. \A p, s : p \in {"loop", "act", "after"} => Shape(p, s, at) /\ p \notin Aside
  BY DEF Shape, Driving, Finalizing, Aside, Detached, Checkpointing
<1>1. CASE Killed!ConnectivitySkip
  <2> DEFINE s == [state EXCEPT !.connectivitySkips = @ + 1, !.nextScheduleSlot = @ + 1]
  <2>1. point = "act" /\ ~Killed!Pending(state) /\ Killed!Advance(s, "after")
    BY <1>1 DEF Killed!ConnectivitySkip
  <2>2. /\ s \in Killed!States /\ s.pendingAction = state.pendingAction
        /\ s.nextActionSeq = state.nextActionSeq /\ s.nextCycle = state.nextCycle
        /\ s.gate = state.gate /\ s.checkpoints = state.checkpoints
        /\ s.retention = state.retention
        /\ s.cycles = state.cycles /\ s.nextScheduleSlot = state.nextScheduleSlot + 1
        /\ s.connectivitySkips = state.connectivitySkips + 1
        /\ state.connectivitySkips \in Nat /\ state.nextCycle \in Nat
    <3>1. /\ state.connectivitySkips \in Nat /\ state.nextCycle \in Nat
          /\ state.nextScheduleSlot \in Nat
      BY <1>t DEF Killed!States
    <3>2. state.connectivitySkips + 1 \in Nat /\ state.nextScheduleSlot + 1 \in Nat
      BY <3>1
    <3>3. QED
      BY <1>t, <3>1, <3>2 DEF Killed!States
  <2> HIDE DEF s
  <2>3. Killed!CountsAgree(s)
    BY <1>t, <2>1, <2>2 DEF Killed!CountsAgree, Killed!Pending
  <2>4. Carries(s, state)
    BY <2>2, <2>3, CarriesRest
  <2>5. \A c \in Killed!Clients : Unsent("after", s, at, c) => Unsent(point, state, at, c)
    BY <2>2, UnsentElsewhere
  <2>6. QED
    BY <1>p, <2>1, <2>4, <2>5, AdvanceKeeps
<1>2. CASE Killed!EndTurn /\ ~Killed!Pending(state)
  <2> DEFINE s == Killed!Reconciled(state)
  <2>1. point = "after" /\ Killed!Advance(s, "loop")
    BY <1>2 DEF Killed!EndTurn
  <2>2. /\ s \in Killed!States /\ s.pendingAction = state.pendingAction
        /\ s.nextActionSeq = state.nextActionSeq /\ s.nextCycle = state.nextCycle
        /\ s.gate = state.gate /\ s.checkpoints = state.checkpoints
        /\ s.retention = state.retention
        /\ s.cycles = state.cycles /\ s.nextScheduleSlot = state.nextScheduleSlot
        /\ s.connectivitySkips = state.connectivitySkips
    BY <1>t, <1>2 DEF Killed!States, Killed!Reconciled
  <2> HIDE DEF s
  <2>3. Killed!CountsAgree(s)
    BY <1>t, <1>2, <2>1, <2>2 DEF Killed!CountsAgree, Killed!Pending
  <2>4. Carries(s, state)
    BY <2>2, <2>3, CarriesRest
  <2>5. \A c \in Killed!Clients : Unsent("loop", s, at, c) => Unsent(point, state, at, c)
    BY <2>2, UnsentElsewhere
  <2>6. QED
    BY <1>p, <2>1, <2>4, <2>5, AdvanceKeeps
<1>3. QED
  BY <1>1, <1>2

(* The searches are through, and their outcome is recorded. *)
LEMMA OutcomeSteps ==
  ASSUME CommonInv, Killed!RecordDriverCycle \/ Killed!MarkEvidencePending
  PROVE  CommonInv' /\ (OrderInv => OrderInv')
<1>t. state \in Killed!States /\ Killed!CountsAgree(state)
  BY DEF CommonInv, Synced, Sound
<1>1. CASE Killed!RecordDriverCycle
  <2> DEFINE s == [state EXCEPT !.cycles = @ + 1, !.pendingAction.driverOutcome = TRUE]
  <2>1. point = "settle" /\ Killed!Advance(s, "evidence")
    BY <1>1 DEF Killed!RecordDriverCycle
  <2>2. Killed!Pending(state) /\ ~state.pendingAction.driverOutcome /\ point \notin Aside
    BY <2>1 DEF CommonInv, Shape, Driving, Aside, Detached, Checkpointing
  <2>3. /\ s \in Killed!States /\ s.pendingAction.driverOutcome
        /\ s.pendingAction.clients = state.pendingAction.clients
        /\ s.pendingAction.cycle = state.pendingAction.cycle
        /\ s.pendingAction.reportSeq = state.pendingAction.reportSeq
        /\ s.pendingAction.method = state.pendingAction.method
        /\ s.pendingAction.reservation = state.pendingAction.reservation
        /\ s.nextActionSeq = state.nextActionSeq /\ s.nextCycle = state.nextCycle
        /\ s.gate = state.gate /\ s.checkpoints = state.checkpoints
        /\ s.retention = state.retention
        /\ s.cycles = state.cycles + 1 /\ s.nextScheduleSlot = state.nextScheduleSlot
        /\ s.connectivitySkips = state.connectivitySkips /\ s.nextActionSet = state.nextActionSet
        /\ state.cycles \in Nat
    <3>1. state.cycles \in Nat /\ state.cycles + 1 \in Nat
      <4>1. state.cycles \in Nat
        BY <1>t DEF Killed!States
      <4>2. QED
        BY <4>1
    <3>2. QED
      BY <1>t, <3>1 DEF Killed!States, Killed!Actions
  <2> HIDE DEF s
  <2>4. \A c \in Killed!Clients : Killed!ValidClient(s.pendingAction.clients[c], TRUE)
    <3>1. \A c \in Killed!Clients : Killed!Terminal(c)
      BY <1>1 DEF Killed!RecordDriverCycle
    <3>2. QED
      BY <2>2, <2>3, <3>1, ClientTypes DEF Killed!ValidClient, Killed!Terminal,
         Killed!pending
  <2>5. Killed!CountsAgree(s)
    BY <1>t, <2>2, <2>3, <2>4 DEF Killed!CountsAgree, Killed!Pending,
       Killed!ValidPending, Killed!ValidClient
  <2>6. Carries(s, state) /\ Killed!Pending(s)
    BY <2>2, <2>3, <2>5, CarriesRest
  <2>7. Shape("evidence", s, at)
    BY <2>3, <2>6 DEF Shape, Driving, Finalizing
  <2>8. \A c \in Killed!Clients : Unsent("evidence", s, at, c) => Unsent(point, state, at, c)
    BY <2>3, UnsentElsewhere
  <2>9. QED
    BY <2>1, <2>2, <2>6, <2>7, <2>8, AdvanceKeeps
<1>2. CASE Killed!MarkEvidencePending
  <2> DEFINE s == [state EXCEPT !.pendingAction.evidence = TRUE]
  <2>1. point = "evidence" /\ Killed!Advance(s, "finalize")
    BY <1>2 DEF Killed!MarkEvidencePending
  <2>2. Killed!Pending(state) /\ state.pendingAction.driverOutcome /\ point \notin Aside
    BY <2>1 DEF CommonInv, Shape, Aside, Detached, Checkpointing
  <2>3. /\ s \in Killed!States /\ s.pendingAction.evidence
        /\ s.pendingAction.driverOutcome = state.pendingAction.driverOutcome
        /\ s.pendingAction.clients = state.pendingAction.clients
        /\ s.pendingAction.cycle = state.pendingAction.cycle
        /\ s.pendingAction.reportSeq = state.pendingAction.reportSeq
        /\ s.pendingAction.method = state.pendingAction.method
        /\ s.pendingAction.reservation = state.pendingAction.reservation
        /\ s.nextActionSeq = state.nextActionSeq /\ s.nextCycle = state.nextCycle
        /\ s.gate = state.gate /\ s.checkpoints = state.checkpoints
        /\ s.retention = state.retention
        /\ s.cycles = state.cycles /\ s.nextScheduleSlot = state.nextScheduleSlot
        /\ s.connectivitySkips = state.connectivitySkips /\ s.nextActionSet = state.nextActionSet
    BY <1>t DEF Killed!States, Killed!Actions
  <2> HIDE DEF s
  <2>5. Killed!CountsAgree(s)
    BY <1>t, <2>2, <2>3 DEF Killed!CountsAgree, Killed!Pending, Killed!ValidPending
  <2>6. Carries(s, state) /\ Killed!Pending(s)
    BY <2>2, <2>3, <2>5, CarriesRest
  <2>7. Shape("finalize", s, at)
    BY <2>2, <2>3, <2>6 DEF Shape, Driving, Finalizing
  <2>8. \A c \in Killed!Clients : Unsent("finalize", s, at, c) => Unsent(point, state, at, c)
    BY <2>3, UnsentElsewhere
  <2>9. QED
    BY <2>1, <2>2, <2>6, <2>7, <2>8, AdvanceKeeps
<1>3. QED
  BY <1>1, <1>2

(* Time changes a running poll's clocks and nothing else. *)
LEMMA ElapseCarries ==
  ASSUME NEW t, Sound(t), Doubted(t)
  PROVE  LET s == Killed!Elapse(t) IN
         /\ Carries(s, t)
         /\ s.pendingAction.driverOutcome = t.pendingAction.driverOutcome
         /\ s.pendingAction.evidence = t.pendingAction.evidence
         /\ \A c \in Killed!Clients :
              /\ s.pendingAction.clients[c].create = t.pendingAction.clients[c].create
              /\ s.pendingAction.clients[c].poll = t.pendingAction.clients[c].poll
         /\ ~Killed!Pending(t) => s = t
<1> DEFINE old == t.pendingAction.clients
           f == [c \in Killed!Clients |->
                   IF c \in Killed!Running(t) THEN Killed!Later(old[c]) ELSE old[c]]
           s == WithClients(t, f)
<1>1. Killed!Elapse(t) = s
  BY DEF Killed!Elapse, WithClients
<1>2. t \in Killed!States /\ old \in [Killed!Clients -> Killed!ClientStates]
  <2>1. t \in Killed!States
    BY DEF Sound
  <2>2. QED
    BY <2>1 DEF Killed!States, Killed!Actions
<1>3. ASSUME NEW c \in Killed!Clients
      PROVE  /\ f[c] \in Killed!ClientStates
             /\ f[c].create = old[c].create /\ f[c].poll = old[c].poll
             /\ f[c].counted = old[c].counted /\ f[c].erred = old[c].erred
             /\ f[c].completed = old[c].completed
  <2>1. old[c] \in Killed!ClientStates
    BY <1>2
  <2>2. CASE c \in Killed!Running(t)
    <3>1. old[c].left \in 0 .. Timeout /\ old[c].wait \in 0 .. Interval /\ old[c].left > 0
      BY <2>1, <2>2 DEF Killed!Running, Killed!ClientStates
    <3>2. Timeout \in Nat /\ Interval \in Nat
      BY ObserverConstants
    <3>3. old[c].left - 1 \in 0 .. Timeout
      BY <3>1, <3>2
    <3>4. Killed!Max({old[c].wait - 1, 0}) \in 0 .. Interval
      <4>1. \E x \in {old[c].wait - 1, 0} : \A y \in {old[c].wait - 1, 0} : x >= y
        BY <3>1, <3>2
      <4>2. /\ Killed!Max({old[c].wait - 1, 0}) \in {old[c].wait - 1, 0}
            /\ \A y \in {old[c].wait - 1, 0} : Killed!Max({old[c].wait - 1, 0}) >= y
        BY <4>1 DEF Killed!Max
      <4>3. QED
        BY <3>1, <3>2, <4>2
    <3>5. f[c] = [old[c] EXCEPT !.left = old[c].left - 1, !.wait = Killed!Max({old[c].wait - 1, 0})]
      BY <2>2 DEF Killed!Later
    <3> HIDE DEF f, old
    <3>6. QED
      BY <2>1, <3>3, <3>4, <3>5 DEF Killed!ClientStates
  <2>3. CASE c \notin Killed!Running(t)
    BY <2>1, <2>3
  <2>4. QED
    BY <2>2, <2>3
<1>4. f \in [Killed!Clients -> Killed!ClientStates]
  BY <1>3
<1>5. CASE Killed!Pending(t)
  <2>1. \A c \in Killed!Clients : Killed!ValidClient(f[c], t.pendingAction.driverOutcome)
    <3>1. \A c \in Killed!Clients : Killed!ValidClient(old[c], t.pendingAction.driverOutcome)
      BY <1>5 DEF Sound, Killed!CountsAgree, Killed!ValidPending
    <3> HIDE DEF f, old
    <3>2. QED
      BY <1>3, <3>1 DEF Killed!ValidClient
  <2> HIDE DEF f
  <2>2. /\ Carries(s, t) /\ s.pendingAction.clients = f
        /\ s.pendingAction.driverOutcome = t.pendingAction.driverOutcome
        /\ s.pendingAction.evidence = t.pendingAction.evidence
    BY <1>3, <1>4, <1>5, <2>1, ClientsCarry
  <2> HIDE DEF s
  <2>3. QED
    BY <1>1, <1>3, <1>5, <2>2
<1>6. CASE ~Killed!Pending(t)
  <2>1. t.pendingAction = Killed!NoAction
    BY <1>6 DEF Sound
  <2>2. \A c \in Killed!Clients : old[c].create = "none"
    BY <2>1 DEF Killed!NoAction, Killed!NewClient
  <2>3. Killed!Running(t) = {}
    BY <2>2 DEF Killed!Running
  <2>4. f = old
    BY <1>2, <2>3
  <2> HIDE DEF f
  <2>5. s = t
    BY <1>2, <2>4 DEF WithClients, Killed!States, Killed!Actions
  <2> HIDE DEF s
  <2>6. Carries(t, t)
    BY DEF Carries
  <2>7. QED
    BY <1>1, <2>5, <2>6
<1>7. QED
  BY <1>5, <1>6

LEMMA ElapseMissing == Killed!Elapse(Killed!NoSummary) = Killed!NoSummary
<1> DEFINE t == Killed!NoSummary
<1>1. t \in Killed!States /\ t.pendingAction = Killed!NoAction
  BY FirstStates
<1>2. Killed!Running(t) = {}
  BY <1>1 DEF Killed!Running, Killed!NoAction, Killed!NewClient
<1>3. t.pendingAction.clients \in [Killed!Clients -> Killed!ClientStates]
  BY <1>1 DEF Killed!States, Killed!Actions
<1> HIDE DEF t
<1>4. Killed!Elapse(t) = t
  BY <1>1, <1>2, <1>3 DEF Killed!Elapse, Killed!States, Killed!Actions
<1>5. QED
  BY <1>4 DEF t

(* Time finds two states that are alike, and leaves them so. *)
LEMMA ElapseAlike ==
  ASSUME NEW s \in Killed!States, NEW t \in Killed!States, Alike(s, t)
  PROVE  Alike(Killed!Elapse(s), Killed!Elapse(t))
<1>1. s.pendingAction \in Killed!Actions /\ t.pendingAction = s.pendingAction
  BY DEF Alike, Killed!States
<1>2. Killed!Running(s) = Killed!Running(t)
  BY <1>1 DEF Killed!Running
<1>3. Killed!Elapse(s).pendingAction = Killed!Elapse(t).pendingAction
  BY <1>1, <1>2 DEF Killed!Elapse, Killed!States, Killed!Actions
<1>4. QED
  BY <1>3 DEF Alike, Killed!Elapse, Killed!States

(* A step while no observer is up, or in which it is at a checkpoint, that     *)
(* changes no more than the clocks.                                            *)
LEMMA AsideKeeps ==
  ASSUME CommonInv, point \in Aside, point' = point \/ (point = "down" /\ point' = "attach"),
         UNCHANGED <<file, temp, report, failures, at, crashes, reserved, posts, ambiguous,
                     folded, refused, checkpointFiles, uncounted>>,
         Carries(state', state), point \in Detached => state' = state,
         summary' = summary \/ (summary # Killed!NoSummary /\ Carries(summary', summary)),
         Alike(summary, state) => Alike(summary', state'),
         \A c \in Killed!Clients :
           summary.pendingAction.clients[c].create = summary'.pendingAction.clients[c].create
  PROVE  CommonInv' /\ (OrderInv => OrderInv')
<1>0. /\ point' \in Aside /\ (point' \in Detached <=> point \in Detached)
      /\ (point' \in Checkpointing <=> point \in Checkpointing)
      /\ (point' = "count" <=> point = "count") /\ point' # "reject"
  BY DEF Aside, Detached, Checkpointing
<1>1. /\ summary' = Killed!NoSummary <=> summary = Killed!NoSummary
      /\ summary # Killed!NoSummary => Carries(summary', summary)
  <2>1. summary # Killed!NoSummary => Carries(summary, summary)
    BY DEF CommonInv, Synced, Trusted, Carries
  <2>2. summary' # summary => Sound(summary')
    BY DEF Carries
  <2>3. QED
    BY <2>1, <2>2, SummaryMissing
<1>2. ObserverTypes'
  <2>1. point' \in Killed!Points
    BY <1>0 DEF Killed!Points, Aside, Detached, Checkpointing
  <2>2. QED
    BY <2>1 DEF CommonInv, ObserverTypes
<1>3. Synced'
  BY <1>0, <1>1 DEF CommonInv, Synced, Sound, Carries, Aside
<1>4. Shape(point, state, at)' /\ Durable(point, state.pendingAction.reportSeq, report)'
  BY <1>0 DEF Shape, Durable, Aside, Detached, Checkpointing, Driving, Finalizing
<1>5. Trusted'
  <2>1. (Doubted(state) /\ Doubted(summary))'
    <3>1. Doubted(Killed!NoSummary)'
      BY FirstStates DEF Doubted
    <3>2. QED
      BY <1>1, <3>1 DEF Doubted, Carries, CommonInv, Trusted
  <2>2. \A r : Past(r, summary) => Past(r, summary)'
    <3>1. \A r : Past(r, Killed!NoSummary)
      BY FirstStates DEF Past
    <3>2. QED
      BY <1>1, <3>1 DEF Past, Carries
  <2>3. \A r : Past(r, state) => Past(r, state)'
    BY DEF Past, Carries
  <2>4. Reported'
    BY <2>2, <2>3 DEF CommonInv, Trusted, Reported, Told
  <2>5. QED
    BY <1>0, <2>1, <2>4 DEF Trusted, Aside, Detached, Checkpointing
<1>6. ASSUME OrderInv PROVE OrderInv'
  <2>1. Numbered'
    BY <1>0, <1>1, <1>6 DEF OrderInv, Numbered, Carries
  <2>2. OwnFiles'
    BY <1>1, <1>6 DEF OrderInv, OwnFiles, PendingOnly, Carries
  <2>3. Sent'
    BY <1>0, <1>1, <1>6 DEF OrderInv, Sent, Carries, Unsent, Aside, Detached,
       Checkpointing
  <2>4. Windowed'
    BY <1>0, <1>1, <1>6 DEF OrderInv, Windowed, Window, Counted, Carries
  <2>5. QED
    BY <2>1, <2>2, <2>3, <2>4 DEF OrderInv
<1>7. QED
  BY <1>2, <1>3, <1>4, <1>5, <1>6 DEF CommonInv

(* Time, and an observer that is started. *)
LEMMA TickStep ==
  ASSUME CommonInv, Killed!Tick \/ Killed!Attach
  PROVE  CommonInv' /\ (OrderInv => OrderInv')
<1>1. CASE Killed!Attach
  <2>1. /\ point = "down" /\ point' = "attach"
        /\ UNCHANGED <<state, summary, file, temp, report, failures, at, crashes, reserved,
                       posts,
                       ambiguous, folded, refused, checkpointFiles, uncounted>>
    BY <1>1 DEF Killed!Attach, Killed!Goto, Killed!history
  <2>2. QED
    BY <2>1, CarriesOn, AsideKeeps DEF Aside, Detached
<1>2. CASE Killed!Tick
  <2>1. /\ state' = Killed!Elapse(state) /\ summary' = Killed!Elapse(summary)
        /\ UNCHANGED <<file, temp, report, failures, point, at, crashes, reserved, posts,
                       ambiguous, folded, refused, checkpointFiles, uncounted>>
    BY <1>2 DEF Killed!Tick, Killed!history
  <2>2. Sound(state) /\ Doubted(state) /\ Doubted(summary)
    BY DEF CommonInv, Synced, Trusted
  <2> DEFINE s == Killed!Elapse(state)
  <2>s. /\ Carries(s, state) /\ s.pendingAction.driverOutcome = state.pendingAction.driverOutcome
        /\ s.pendingAction.evidence = state.pendingAction.evidence
        /\ \A c \in Killed!Clients :
             /\ s.pendingAction.clients[c].create = state.pendingAction.clients[c].create
             /\ s.pendingAction.clients[c].poll = state.pendingAction.clients[c].poll
        /\ ~Killed!Pending(state) => s = state
    BY <2>2, ElapseCarries
  <2> HIDE DEF s
  <2>3. CASE point \notin Aside
    <3>1. summary' \in {s, Killed!NoSummary} /\ (summary = state => summary' = s)
      BY <2>1, <2>3, ElapseMissing DEF CommonInv, Synced, Aside, s
    <3>2. Shape(point', s, at')
      <4>1. Shape(point, state, at) /\ Killed!Pending(s) = Killed!Pending(state)
            /\ at \in Killed!Clients
        BY <2>s DEF CommonInv, Carries, ObserverTypes
      <4>2. QED
        BY <2>1, <2>s, <4>1 DEF Shape
    <3>3. /\ at \in Killed!Clients /\ failures \in 0 .. CheckpointThreshold
          /\ point \in Killed!Points
          /\ point \in {"post", "posted"} => state.pendingAction.reservation \notin ambiguous
      BY DEF CommonInv, ObserverTypes, Trusted
    <3>4. MoveTo(s)
      BY <2>1, <2>3, <2>s, <3>1, <3>2, <3>3 DEF MoveTo, Carries, s
    <3>5. \A c \in Killed!Clients : Unsent(point', s, at', c) => Unsent(point, state, at, c)
      BY <2>1, <2>s DEF Unsent
    <3>6. QED
      BY <2>1, <3>4, <3>5, MoveKeeps
  <2>4. CASE point \in Aside
    <3>1. Carries(state', state) /\ (point \in Detached => state' = state)
      BY <2>1, <2>s, FirstStates DEF CommonInv, Synced, s
    <3>2. Alike(summary, state) => Alike(summary', state')
      <4>1. state \in Killed!States /\ summary \in Killed!States
        BY FirstStates DEF CommonInv, Synced, Sound
      <4>2. QED
        BY <2>1, <4>1, ElapseAlike
    <3>3. CASE summary = Killed!NoSummary
      <4>1. summary' = summary
        BY <2>1, <3>3, ElapseMissing
      <4>2. QED
        BY <2>1, <2>4, <3>1, <3>2, <4>1, AsideKeeps
    <3>4. CASE summary # Killed!NoSummary
      <4>1. Sound(summary)
        BY <3>4 DEF CommonInv, Synced
      <4>2. /\ Carries(summary', summary)
            /\ \A c \in Killed!Clients :
                 summary.pendingAction.clients[c].create = summary'.pendingAction.clients[c].create
        BY <2>1, <2>2, <4>1, ElapseCarries
      <4>3. QED
        BY <2>1, <2>4, <3>1, <3>2, <3>4, <4>2, AsideKeeps
    <3>5. QED
      BY <3>3, <3>4
  <2>5. QED
    BY <2>3, <2>4
<1>3. QED
  BY <1>1, <1>2

(* The state that counts a checkpoint. *)
LEMMA RecordedState ==
  ASSUME CommonInv
  PROVE  LET s == Killed!Recorded IN
         /\ Sound(s) /\ Alike(s, state) /\ s # Killed!NoSummary
         /\ s.retention.checkpoints = checkpointFiles
         /\ s.retention.actions = state.retention.actions
         /\ s.checkpoints >= state.checkpoints
         /\ checkpointFiles <= state.checkpoints + 1 => checkpointFiles <= s.checkpoints
<1> DEFINE k == Killed!Min({state.checkpoints + 1, RetainedCheckpoints})
           s == [state EXCEPT !.checkpoints = k, !.retention.checkpoints = checkpointFiles]
<1>1. Sound(state) /\ state \in Killed!States
  BY DEF CommonInv, Synced, Sound
<1>2. /\ RetainedCheckpoints \in Nat /\ checkpointFiles \in 0 .. RetainedCheckpoints
      /\ state.checkpoints \in 0 .. RetainedCheckpoints
  BY <1>1, ObserverConstants DEF CommonInv, ObserverTypes, Killed!States
<1>3. /\ k \in 0 .. RetainedCheckpoints /\ k >= state.checkpoints
      /\ checkpointFiles <= state.checkpoints + 1 => checkpointFiles <= k
  <2> DEFINE S == {state.checkpoints + 1, RetainedCheckpoints}
  <2>1. \E x \in S : \A y \in S : x <= y
    BY <1>2
  <2>2. k \in S /\ \A y \in S : k <= y
    BY <2>1 DEF Killed!Min
  <2>3. QED
    BY <1>2, <2>2
<1> HIDE DEF k
<1>4. /\ s \in Killed!States /\ s.checkpoints = k
      /\ s.retention.checkpoints = checkpointFiles
      /\ s.retention.actions = state.retention.actions
      /\ s.nextActionSeq = state.nextActionSeq /\ s.nextCycle = state.nextCycle
      /\ s.gate = state.gate /\ s.pendingAction = state.pendingAction
      /\ s.cycles = state.cycles /\ s.nextScheduleSlot = state.nextScheduleSlot
      /\ s.connectivitySkips = state.connectivitySkips /\ s.nextActionSet = state.nextActionSet
  BY <1>1, <1>2, <1>3 DEF Killed!States
<1>5. s = Killed!Recorded
  BY DEF Killed!Recorded, k
<1> HIDE DEF s
<1>6. Killed!Pending(s) = Killed!Pending(state) /\ Killed!CountsAgree(s)
  BY <1>1, <1>4 DEF Sound, Killed!Pending, Killed!CountsAgree, Killed!ValidPending
<1>7. Sound(s)
  BY <1>1, <1>4, <1>6 DEF Sound
<1>8. Alike(s, state)
  BY <1>4 DEF Alike
<1>9. QED
  BY <1>3, <1>4, <1>5, <1>7, <1>8, SummaryMissing

(* What the steps of a checkpoint have in common. *)
LEMMA CheckpointKeeps ==
  ASSUME CommonInv, point \in Checkpointing \cup {"loop"},
         point' \in Checkpointing \cup {"act", "reject"},
         state' \in {state, Killed!Recorded},
         summary' \in {summary, Killed!Recorded, Killed!NoSummary},
         point' \notin Checkpointing => summary' = state',
         failures' \in 0 .. CheckpointThreshold,
         checkpointFiles' \in 0 .. RetainedCheckpoints, uncounted' \in BOOLEAN,
         UNCHANGED <<file, temp, report, at, crashes, reserved, posts, ambiguous, folded,
                     refused>>
  PROVE  /\ CommonInv'
         /\ OrderInv /\ summary' # Killed!NoSummary /\ Windowed' => OrderInv'
<1>1. /\ point \notin Detached /\ point' \notin Detached
      /\ point \notin Driving \cup Finalizing /\ point' \notin Driving \cup Finalizing
      /\ point' # "evidence" /\ point' \in Killed!Points
  BY DEF Detached, Checkpointing, Driving, Finalizing, Killed!Points
<1>2. Sound(state) /\ Sound(state') /\ Alike(state', state)
  BY RecordedState DEF CommonInv, Synced, Alike
<1>3. /\ summary' = Killed!NoSummary \/ (Sound(summary') /\ Alike(summary', state'))
      /\ summary' # Killed!NoSummary /\ summary # Killed!NoSummary => Alike(summary', summary)
  BY <1>1, <1>2, RecordedState DEF CommonInv, Synced, Alike
<1>4. ObserverTypes'
  BY <1>1 DEF CommonInv, ObserverTypes
<1>5. Synced'
  BY <1>1, <1>2, <1>3 DEF Synced, Sound
<1>6. Shape(point, state, at)' /\ Durable(point, state.pendingAction.reportSeq, report)'
  BY <1>1 DEF Shape, Durable, Driving, Finalizing
<1>7. Trusted'
  <2>1. Doubted(state) /\ \A r : Told(r) => Past(r, state)
    BY DEF CommonInv, Trusted, Told
  <2>2. Doubted(state)' /\ \A r : Past(r, state) => Past(r, state)'
    BY <1>2, <2>1 DEF Doubted, Past, Alike, Killed!Pending
  <2>3. Doubted(summary)' /\ \A r : Past(r, state) => Past(r, summary)'
    <3>1. Doubted(Killed!NoSummary)' /\ \A r : Past(r, Killed!NoSummary)
      BY FirstStates DEF Doubted, Past
    <3>2. QED
      BY <1>2, <1>3, <2>1, <3>1 DEF Doubted, Past, Alike, Killed!Pending
  <2>4. Reported'
    BY <2>1, <2>2, <2>3 DEF CommonInv, Trusted, Reported, Told
  <2>5. QED
    BY <1>1, <2>2, <2>3, <2>4 DEF Trusted, Driving
<1>8. ASSUME OrderInv, summary' # Killed!NoSummary, Windowed' PROVE OrderInv'
  <2>1. Alike(summary', summary) /\ summary # Killed!NoSummary
    BY <1>1, <1>3, <1>8 DEF OrderInv, Numbered
  <2>2. Numbered'
    BY <1>8, <2>1 DEF OrderInv, Numbered, Alike
  <2>3. OwnFiles'
    BY <1>8, <2>1 DEF OrderInv, OwnFiles, PendingOnly, Alike, Killed!Pending
  <2>4. Sent'
    BY <1>1, <1>8, <2>1 DEF OrderInv, Sent, Unsent, Alike, Driving
  <2>5. QED
    BY <1>8, <2>2, <2>3, <2>4 DEF OrderInv
<1>9. QED
  BY <1>4, <1>5, <1>6, <1>7, <1>8 DEF CommonInv

LEMMA CheckpointSteps ==
  ASSUME CommonInv,
         \/ Killed!DueCheckpoint \/ Killed!PruneCheckpoint \/ Killed!WriteCheckpoint
         \/ Killed!CaptureCheckpoint \/ Killed!CheckpointFails
  PROVE  CommonInv' /\ (OrderInv => OrderInv')
<1> DEFINE s == Killed!Recorded
<1>s. /\ Alike(s, state) /\ s # Killed!NoSummary /\ s \in Killed!States /\ Killed!CountsAgree(s)
      /\ s.retention.checkpoints = checkpointFiles
      /\ s.retention.actions = state.retention.actions
      /\ s.checkpoints >= state.checkpoints
      /\ checkpointFiles <= state.checkpoints + 1 => checkpointFiles <= s.checkpoints
  BY RecordedState DEF Sound
<1>t. /\ failures \in 0 .. CheckpointThreshold /\ CheckpointThreshold \in Nat
      /\ checkpointFiles \in 0 .. RetainedCheckpoints /\ RetainedCheckpoints \in Nat
      /\ uncounted \in BOOLEAN
      /\ state.checkpoints \in Nat /\ state.retention.checkpoints \in Nat
      /\ s.checkpoints \in Nat
  BY <1>s, ObserverConstants DEF CommonInv, ObserverTypes, Synced, Sound, Killed!States
<1>w. ASSUME OrderInv, point \notin Detached
      PROVE  /\ summary # Killed!NoSummary /\ Window(state) /\ Window(summary) /\ Window(s)
             /\ "state" \in refused => uncounted
             /\ \/ uncounted
                \/ /\ summary.retention.checkpoints <= summary.checkpoints
                   /\ Counted(state, IF point = "count" THEN 1 ELSE 0)
  BY <1>s, <1>w DEF OrderInv, Numbered, Windowed, Window, Alike
<1> HIDE DEF s
<1>1. CASE Killed!DueCheckpoint
  <2>1. /\ point \in {"due", "loop"} /\ point' = "checkpoint"
        /\ UNCHANGED <<state, summary, file, temp, checkpointFiles, report, failures, at,
                       crashes,
                       reserved, posts, ambiguous, folded, uncounted, refused>>
    BY <1>1 DEF Killed!DueCheckpoint, Killed!Goto, Killed!history
  <2>2. /\ point \in Checkpointing \cup {"loop"} /\ point' \in Checkpointing
        /\ point \notin Detached /\ point' \notin Detached
    BY <2>1 DEF Checkpointing, Detached
  <2>3. OrderInv => Windowed' /\ summary' # Killed!NoSummary
    BY <1>w, <2>1, <2>2 DEF Windowed, Window, Counted
  <2>4. QED
    BY <1>t, <2>1, <2>2, <2>3, CheckpointKeeps
<1>2. CASE Killed!PruneCheckpoint
  <2>1. /\ point = "checkpoint" /\ point' = point /\ checkpointFiles >= RetainedCheckpoints
        /\ checkpointFiles' = checkpointFiles - 1
        /\ UNCHANGED <<state, summary, file, temp, report, failures, at, crashes, reserved,
                       posts,
                       ambiguous, folded, uncounted, refused>>
    BY <1>2 DEF Killed!PruneCheckpoint, Killed!history
  <2>2. /\ point \in Checkpointing /\ point' \in Checkpointing
        /\ point \notin Detached /\ point' \notin Detached
    BY <2>1 DEF Checkpointing, Detached
  <2>3. checkpointFiles' \in 0 .. RetainedCheckpoints
    BY <1>t, <2>1, ObserverConstants
  <2>4. OrderInv => Windowed' /\ summary' # Killed!NoSummary
    BY <1>t, <1>w, <2>1, <2>2 DEF Windowed, Window, Counted
  <2>5. QED
    BY <1>t, <2>1, <2>2, <2>3, <2>4, CheckpointKeeps
<1>3. CASE Killed!WriteCheckpoint
  <2>1. /\ point = "checkpoint" /\ point' = "count" /\ checkpointFiles < RetainedCheckpoints
        /\ checkpointFiles' = checkpointFiles + 1
        /\ UNCHANGED <<state, summary, file, temp, report, failures, at, crashes, reserved,
                       posts,
                       ambiguous, folded, uncounted, refused>>
    BY <1>3 DEF Killed!WriteCheckpoint, Killed!history
  <2>2. /\ point \in Checkpointing /\ point' \in Checkpointing
        /\ point \notin Detached /\ point' \notin Detached
    BY <2>1 DEF Checkpointing, Detached
  <2>3. checkpointFiles' \in 0 .. RetainedCheckpoints
    BY <1>t, <2>1
  <2>4. OrderInv => Windowed' /\ summary' # Killed!NoSummary
    BY <1>t, <1>w, <2>1, <2>2 DEF Windowed, Window, Counted
  <2>5. QED
    BY <1>t, <2>1, <2>2, <2>3, <2>4, CheckpointKeeps
<1>4. CASE Killed!CaptureCheckpoint
  <2>1. /\ point = "count" /\ state' = s /\ summary' = s /\ failures' = 0
        /\ point' = IF Killed!Valid(s) THEN "act" ELSE "reject"
        /\ UNCHANGED <<file, temp, checkpointFiles, report, at, crashes, reserved, posts,
                       ambiguous, folded, uncounted, refused>>
    BY <1>4 DEF Killed!CaptureCheckpoint, Killed!Persist, Killed!history, s
  <2>2. /\ point \in Checkpointing /\ point' \in {"act", "reject"}
        /\ point \notin Detached /\ point' \notin Detached
    BY <2>1 DEF Checkpointing, Detached
  <2>3. ASSUME OrderInv PROVE Windowed'
    <3>1. uncounted \/ checkpointFiles <= s.checkpoints
      BY <1>s, <1>t, <1>w, <2>1, <2>2, <2>3 DEF Counted
    <3>2. point' = "reject" => uncounted
      BY <1>s, <1>w, <2>1, <2>2, <2>3, <3>1 DEF Killed!Valid, Killed!RetentionFits,
         Window
    <3>3. Window(state)' /\ (Window(summary))'
      BY <1>w, <2>1, <2>2, <2>3 DEF Window
    <3>4. uncounted \/ (s.retention.checkpoints <= s.checkpoints /\ checkpointFiles <= s.checkpoints + 0)
      BY <1>s, <1>t, <3>1
    <3>5. QED
      BY <1>w, <2>1, <2>2, <2>3, <3>2, <3>3, <3>4 DEF Windowed, Counted
  <2>4. failures' \in 0 .. CheckpointThreshold
    BY <1>t, <2>1
  <2>5. QED
    BY <1>s, <1>t, <2>1, <2>2, <2>3, <2>4, CheckpointKeeps DEF s
<1>5. CASE Killed!CheckpointFails
  <2>1. /\ point \in {"checkpoint", "count"} /\ point' = "due"
        /\ summary' = summary \/ (point = "count" /\ summary' = s)
        /\ failures + 1 < CheckpointThreshold /\ failures' = failures + 1
        /\ uncounted' = (uncounted \/ checkpointFiles > state.checkpoints)
        /\ UNCHANGED <<state, file, temp, checkpointFiles, report, at, crashes, reserved, posts,
                       ambiguous, folded, refused>>
    BY <1>5 DEF Killed!CheckpointFails, Killed!FailedCheckpoint, s
  <2>2. /\ point \in Checkpointing /\ point' \in Checkpointing
        /\ point \notin Detached /\ point' \notin Detached
    BY <2>1 DEF Checkpointing, Detached
  <2>3. ASSUME OrderInv PROVE Windowed' /\ summary' # Killed!NoSummary
    <3>1. summary' # Killed!NoSummary /\ Window(state)' /\ Window(summary)'
      BY <1>s, <1>w, <2>1, <2>2, <2>3 DEF Window
    <3>2. uncounted \/ checkpointFiles > state.checkpoints
            \/ (Counted(state, 0) /\ summary'.retention.checkpoints <= summary'.checkpoints)
      BY <1>s, <1>t, <1>w, <2>1, <2>2, <2>3 DEF Counted
    <3>3. QED
      BY <1>w, <2>1, <2>2, <2>3, <3>1, <3>2 DEF Windowed, Counted
  <2>4. failures' \in 0 .. CheckpointThreshold /\ uncounted' \in BOOLEAN
    BY <1>t, <2>1
  <2>5. QED
    BY <1>t, <2>1, <2>2, <2>3, <2>4, CheckpointKeeps DEF s
<1>6. QED
  BY <1>1, <1>2, <1>3, <1>4, <1>5

(* The start of a poll's request. *)
LEMMA BeginStep ==
  ASSUME CommonInv, Killed!BeginGet
  PROVE  CommonInv' /\ (OrderInv => OrderInv')
<1>1. /\ point = "poll" /\ Killed!Ripe # {} /\ at' = Killed!FirstOf(Killed!Ripe)
      /\ point' = "get"
      /\ UNCHANGED <<state, summary, file, temp, report, failures, crashes, reserved, posts,
                     ambiguous, folded, refused, checkpointFiles, uncounted>>
  BY DEF Killed!BeginGet, Killed!history
<1>2. at' \in Killed!Clients /\ state.pendingAction.clients[at'].poll = "open"
  <2>1. Killed!Ripe \in SUBSET Killed!Clients
    BY DEF Killed!Ripe, Killed!OpenPolls
  <2>2. at' \in Killed!Ripe
    BY <1>1, <2>1, FirstOfMember
  <2>3. QED
    BY <2>2 DEF Killed!Ripe, Killed!OpenPolls, Killed!pending
<1>3. Shape("get", state, at') /\ point \notin Aside
  BY <1>1, <1>2 DEF CommonInv, Shape, Driving, Finalizing, Aside, Detached,
     Checkpointing
<1>4. summary \in {state, Killed!NoSummary} /\ failures \in 0 .. CheckpointThreshold
  BY <1>3 DEF CommonInv, Synced, Aside, ObserverTypes
<1>5. "get" \in Killed!Points \ Aside
  BY DEF Killed!Points, Aside, Detached, Checkpointing
<1>6. MoveTo(state)
  BY <1>1, <1>2, <1>3, <1>4, <1>5, CarriesOn DEF MoveTo
<1>7. \A c \in Killed!Clients : Unsent(point', state, at', c) => Unsent(point, state, at, c)
  BY <1>1, UnsentElsewhere
<1>8. QED
  BY <1>1, <1>6, <1>7, MoveKeeps

(* A search is created. *)
LEMMA PostStep ==
  ASSUME CommonInv, Killed!Post
  PROVE  CommonInv' /\ (OrderInv => OrderInv')
<1> DEFINE n == state.pendingAction.cycle
<1>1. /\ point = "post" /\ Killed!Creates("prepared") # {} /\ point' = "posted"
      /\ at' = Killed!FirstOf(Killed!Creates("prepared"))
      /\ posts' = [posts EXCEPT ![n][at'] = @ + 1]
      /\ UNCHANGED <<state, summary, file, temp, report, failures, crashes, reserved, ambiguous,
                     folded, refused, checkpointFiles, uncounted>>
  BY DEF Killed!Post, Killed!pending
<1>2. at' \in Killed!Clients /\ state.pendingAction.clients[at'].create = "prepared"
  <2>1. Killed!Creates("prepared") \in SUBSET Killed!Clients
    BY DEF Killed!Creates
  <2>2. at' \in Killed!Creates("prepared")
    BY <1>1, <2>1, FirstOfMember
  <2>3. QED
    BY <2>2 DEF Killed!Creates, Killed!pending
<1>3. /\ Shape("posted", state, at') /\ point \notin Aside /\ Killed!Pending(state)
      /\ state.pendingAction.reservation \notin ambiguous
  BY <1>1, <1>2 DEF CommonInv, Shape, Driving, Finalizing, Aside, Detached,
     Checkpointing, Trusted
<1>4. n \in 1 .. MaxActions /\ state.nextCycle = n + 1 /\ state.nextCycle \in Nat
  <2>1. state \in Killed!States /\ Killed!CountsAgree(state)
    BY DEF CommonInv, Synced, Sound
  <2>2. state.pendingAction.cycle \in 0 .. MaxActions /\ state.nextCycle \in Nat
    BY <2>1 DEF Killed!States, Killed!Actions
  <2>3. state.nextCycle = state.pendingAction.cycle + 1
    BY <1>3, <2>1 DEF Killed!CountsAgree, Killed!ValidPending
  <2>4. QED
    BY <1>3, <2>2, <2>3, ObserverConstants DEF Killed!Pending
<1> HIDE DEF n
<1>5. posts \in [1 .. MaxActions -> [Killed!Clients -> Nat]]
  BY DEF CommonInv, ObserverTypes
<1>6. posts' \in [1 .. MaxActions -> [Killed!Clients -> Nat]]
  BY <1>1, <1>2, <1>4, <1>5
<1>7. \A m \in 1 .. MaxActions, c \in Killed!Clients :
        posts'[m][c] = IF m = n /\ c = at' THEN posts[m][c] + 1 ELSE posts[m][c]
  BY <1>1, <1>2, <1>4, <1>5
<1>8. CommonInv'
  <2>1. /\ summary' \in {state, Killed!NoSummary} /\ failures' \in 0 .. CheckpointThreshold
        /\ point' \in Killed!Points \ Aside
    BY <1>1, <1>3 DEF CommonInv, Synced, ObserverTypes, Killed!Points, Aside, Detached,
       Checkpointing
  <2>2. QED
    BY <1>1, <1>2, <1>3, <1>6, <2>1, CarriesOn, MoveKeepsCommon
<1>9. ASSUME OrderInv PROVE OrderInv'
  <2>1. summary = state
    BY <1>3, <1>9 DEF CommonInv, Synced, OrderInv, Numbered, Aside
  <2>2. Numbered' /\ OwnFiles' /\ Windowed'
    BY <1>1, <1>3, <1>9 DEF OrderInv, Numbered, OwnFiles, PendingOnly, Windowed,
       Window, Counted, Aside, Detached
  <2>3. Sent'
    <3>1. ASSUME NEW m \in 1 .. MaxActions, NEW c \in Killed!Clients
          PROVE  /\ posts'[m][c] <= 1
                 /\ m >= summary'.nextCycle => posts'[m][c] = 0
                 /\ m = summary'.pendingAction.cycle /\ Unsent(point', summary', at', c) =>
                      posts'[m][c] = 0
      <4>1. /\ posts[m][c] \in Nat /\ posts[m][c] <= 1
            /\ m >= summary.nextCycle => posts[m][c] = 0
            /\ m = summary.pendingAction.cycle /\ Unsent(point, summary, at, c) => posts[m][c] = 0
        BY <1>5, <1>9 DEF OrderInv, Sent
      <4>2. CASE m = n /\ c = at'
        <5>1. Unsent(point, summary, at, c) /\ ~Unsent(point', summary', at', c)
          BY <1>1, <1>2, <2>1, <4>2 DEF Unsent
        <5>2. QED
          BY <1>1, <1>4, <1>7, <2>1, <4>1, <4>2, <5>1 DEF n
      <4>3. CASE ~(m = n /\ c = at')
        <5>1. Unsent(point', summary', at', c) => Unsent(point, summary, at, c)
          BY <1>1, <4>3 DEF Unsent
        <5>2. QED
          BY <1>1, <1>7, <4>1, <4>3, <5>1
      <4>4. QED
        BY <4>2, <4>3
    <3>2. QED
      BY <3>1 DEF Sent
  <2>4. QED
    BY <2>2, <2>3 DEF OrderInv
<1>10. QED
  BY <1>8, <1>9

(* The action whose report is made durable. *)
LEMMA FinalAction ==
  ASSUME CommonInv, point \in Finalizing
  PROVE  LET n == state.pendingAction.reportSeq IN
         /\ point \notin Aside /\ Killed!Pending(state) /\ state.pendingAction.driverOutcome
         /\ n \in 1 .. MaxActions /\ state.nextActionSeq = n /\ state.pendingAction.cycle = n
         /\ state.pendingAction.reservation \in 1 .. reserved
         /\ state.pendingAction.method \in Killed!Methods
         /\ summary \in {state, Killed!NoSummary}
         /\ OrderInv => summary = state /\ n = Len(folded) + 1
<1> DEFINE n == state.pendingAction.reportSeq
<1>1. point \notin Aside /\ Killed!Pending(state) /\ state.pendingAction.driverOutcome
  BY DEF CommonInv, Shape, Finalizing, Aside, Detached, Checkpointing
<1>2. state \in Killed!States /\ Killed!CountsAgree(state)
  BY DEF CommonInv, Synced, Sound
<1>3. state.pendingAction.cycle \in 0 .. MaxActions
  BY <1>2 DEF Killed!States, Killed!Actions
<1>4. state.nextActionSeq = n /\ state.pendingAction.cycle = n
  BY <1>1, <1>2 DEF Killed!CountsAgree, Killed!ValidPending
<1>5. n \in 1 .. MaxActions
  BY <1>1, <1>3, <1>4, ObserverConstants DEF Killed!Pending
<1>6. /\ state.pendingAction.reservation \in 1 .. reserved
      /\ state.pendingAction.method \in Killed!Methods
  BY <1>1 DEF CommonInv, Synced, Sound
<1>7. summary \in {state, Killed!NoSummary}
  BY <1>1 DEF CommonInv, Synced, Aside
<1>8. ASSUME OrderInv PROVE summary = state /\ n = Len(folded) + 1
  <2>1. summary # Killed!NoSummary
    BY <1>1, <1>8 DEF OrderInv, Numbered, Aside
  <2>2. QED
    BY <1>4, <1>7, <1>8, <2>1 DEF OrderInv, Numbered
<1>9. QED
  BY <1>1, <1>4, <1>5, <1>6, <1>7, <1>8

(* What its steps have in common: they change reports only. *)
LEMMA FilesKeep ==
  ASSUME CommonInv, point \in Finalizing, point' \in Finalizing,
         UNCHANGED <<state, summary, failures, at, crashes, reserved, posts, ambiguous, folded,
                     refused, checkpointFiles, uncounted>>,
         file' \in [1 .. MaxActions -> Killed!Reports],
         temp' \in [1 .. MaxActions -> Killed!Reports], report' \in Killed!Reports,
         \A m \in 1 .. MaxActions :
           /\ file'[m] \in {file[m], Killed!NoReport} \/ Told(file'[m])
           /\ temp'[m] \in {temp[m], Killed!NoReport} \/ Told(temp'[m]),
         Told(report'),
         Durable(point, state.pendingAction.reportSeq, report)'
  PROVE  CommonInv'
<1>1. Told(Killed!NoReport)
  <2>1. /\ Killed!NoReport.reservation = 0 /\ reserved >= 0 /\ 0 \notin ambiguous
    BY DEF Killed!NoReport, CommonInv, ObserverTypes
  <2>2. state.pendingAction.reservation # 0
    BY FinalAction
  <2>3. Killed!Pending(summary) => summary.pendingAction.reservation # 0
    BY FinalAction, FirstStates
  <2>4. QED
    BY <2>1, <2>2, <2>3 DEF Told, Past
<1>2. \A m \in 1 .. MaxActions : Told(file'[m]) /\ Told(temp'[m])
  BY <1>1 DEF CommonInv, Trusted, Reported
<1>3. Reported'
  BY <1>2 DEF CommonInv, Trusted, Reported, Told, Past
<1>4. Trusted'
  BY <1>3 DEF CommonInv, Trusted, Doubted, Finalizing
<1>5. ObserverTypes'
  <2>1. point' \in Killed!Points
    BY DEF Killed!Points, Finalizing
  <2>2. QED
    BY <2>1 DEF CommonInv, ObserverTypes
<1>6. Synced'
  BY FinalAction DEF CommonInv, Synced, Sound, Detached, Checkpointing, Finalizing
<1>7. Shape(point, state, at)'
  BY DEF CommonInv, Shape, Finalizing, Driving
<1>8. QED
  BY <1>4, <1>5, <1>6, <1>7 DEF CommonInv

LEMMA FilesKeepOrder ==
  ASSUME CommonInv, OrderInv, point \in Finalizing, point' \in Finalizing,
         UNCHANGED <<state, summary, at, posts, folded, refused, checkpointFiles, uncounted>>,
         \A m \in 1 .. MaxActions :
           /\ \/ file'[m] \in {file[m], Killed!NoReport}
              \/ /\ m = state.pendingAction.reportSeq
                 /\ file'[m].reservation = state.pendingAction.reservation
           /\ \/ temp'[m] \in {temp[m], Killed!NoReport}
              \/ /\ m = state.pendingAction.reportSeq
                 /\ temp'[m].reservation = state.pendingAction.reservation
  PROVE  OrderInv'
<1>1. /\ summary = state /\ state.pendingAction.reportSeq = Len(folded) + 1
      /\ Killed!Pending(state) /\ point \notin Detached /\ point' \notin Detached
      /\ Len(folded) \in Nat
  BY FinalAction DEF Aside, Detached, Finalizing, CommonInv, ObserverTypes
<1>2. Numbered'
  BY <1>1 DEF OrderInv, Numbered, Detached, Finalizing
<1>3. OwnFiles'
  BY <1>1 DEF OrderInv, OwnFiles, PendingOnly
<1>4. Sent'
  BY DEF OrderInv, Sent, Unsent, Finalizing
<1>5. Windowed'
  BY <1>1 DEF OrderInv, Windowed, Window, Counted, Finalizing
<1>6. QED
  BY <1>2, <1>3, <1>4, <1>5 DEF OrderInv

(* finalize_pending_action finds a report of its own, or builds one. *)
LEMMA FindStep ==
  ASSUME CommonInv, Killed!LoadCandidate \/ Killed!BuildReport
  PROVE  CommonInv' /\ (OrderInv => OrderInv')
<1> DEFINE n == state.pendingAction.reportSeq
<1>1. /\ point = "finalize" /\ point' = "persist"
      /\ UNCHANGED <<state, summary, file, temp, failures, at, crashes, reserved, posts,
                     ambiguous, folded, refused, checkpointFiles, uncounted>>
  BY DEF Killed!LoadCandidate, Killed!BuildReport, Killed!history
<1>2. point \in Finalizing /\ point' \in Finalizing
  BY <1>1 DEF Finalizing
<1>3. /\ n \in 1 .. MaxActions /\ state.pendingAction.reservation \in 1 .. reserved
      /\ state.pendingAction.driverOutcome /\ summary \in {state, Killed!NoSummary}
      /\ Killed!Pending(state)
  BY <1>2, FinalAction
<1>t. /\ file \in [1 .. MaxActions -> Killed!Reports]
      /\ temp \in [1 .. MaxActions -> Killed!Reports]
      /\ reserved \in 0 .. MaxActions /\ MaxActions \in Nat
  BY ObserverConstants DEF CommonInv, ObserverTypes
<1> HIDE DEF n
<1>4. /\ report' \in Killed!Reports /\ Told(report') /\ report' # Killed!NoReport
      /\ report'.reservation = state.pendingAction.reservation
      /\ file[n] # Killed!NoReport => file[n] = report'
      /\ file[n] = Killed!NoReport => temp[n] \in {Killed!NoReport, report'}
  <2>1. CASE Killed!LoadCandidate
    <3>1. /\ report' = IF file[n] # Killed!NoReport THEN file[n] ELSE temp[n]
          /\ report' # Killed!NoReport /\ report'.reservation = state.pendingAction.reservation
      BY <2>1 DEF Killed!LoadCandidate, Killed!Candidate, Killed!Acceptable,
         Killed!pending, n
    <3>2. Told(file[n]) /\ Told(temp[n])
      BY <1>3 DEF CommonInv, Trusted, Reported
    <3>3. QED
      BY <1>3, <1>t, <3>1, <3>2
  <2>2. CASE Killed!BuildReport
    <3>1. file[n] = Killed!NoReport /\ temp[n] = Killed!NoReport
      BY <2>2 DEF Killed!BuildReport, Killed!Candidate, Killed!pending, n
    <3>2. PICK v \in (IF Killed!Complete THEN Killed!Verdicts ELSE {"retryable"}) :
            report' = [reservation |-> state.pendingAction.reservation, verdict |-> v]
      BY <2>2 DEF Killed!BuildReport, Killed!pending
    <3>3. /\ report'.reservation = state.pendingAction.reservation /\ report'.verdict = v
          /\ v \in Killed!Verdicts
      BY <3>2 DEF Killed!Verdicts
    <3>4. report' \in Killed!Reports
      BY <1>3, <1>t, <3>2, <3>3 DEF Killed!Reports
    <3>5. state.pendingAction.reservation \in ambiguous => v = "retryable"
      <4>1. ASSUME state.pendingAction.reservation \in ambiguous PROVE ~Killed!Complete
        BY <1>3, <4>1 DEF CommonInv, Trusted, Doubted, Killed!Complete, Killed!pending
      <4>2. QED
        BY <3>2, <4>1
    <3>6. Told(report')
      <4>1. Past(report', state)
        BY <1>3 DEF Past
      <4>2. Past(report', summary)
        BY <1>3, FirstStates DEF Past
      <4>3. QED
        BY <1>3, <1>t, <3>3, <3>5, <4>1, <4>2 DEF Told
    <3>7. report' # Killed!NoReport
      BY <1>3, <3>3 DEF Killed!NoReport
    <3>8. QED
      BY <3>1, <3>3, <3>4, <3>6, <3>7
  <2>3. QED
    BY <2>1, <2>2
<1>5. Durable(point, state.pendingAction.reportSeq, report)'
  BY <1>1, <1>4 DEF Durable, n
<1>6. CommonInv'
  BY <1>1, <1>2, <1>4, <1>5, <1>t, FilesKeep
<1>7. OrderInv => OrderInv'
  BY <1>1, <1>2, FilesKeepOrder
<1>8. QED
  BY <1>6, <1>7

(* It never conflicts with what it finds. *)
LEMMA NoConflict ==
  ASSUME CommonInv, point = "persist"
  PROVE  ~Killed!Conflict
BY DEF CommonInv, Durable, Killed!Conflict, Killed!pending

LEMMA StoreReportSteps ==
  ASSUME CommonInv,
         \/ Killed!ReplayReport \/ Killed!DropTemporary \/ Killed!WriteTemporary
         \/ Killed!PruneReport \/ Killed!ReplaceReport
  PROVE  CommonInv' /\ (OrderInv => OrderInv')
<1> DEFINE n == state.pendingAction.reportSeq
<1>p. point \in {"persist", "replace"}
  BY DEF Killed!ReplayReport, Killed!DropTemporary, Killed!WriteTemporary,
     Killed!PruneReport, Killed!ReplaceReport
<1>2. point \in Finalizing
  BY <1>p DEF Finalizing
<1>3. n \in 1 .. MaxActions
  BY <1>2, FinalAction
<1>t. /\ file \in [1 .. MaxActions -> Killed!Reports]
      /\ temp \in [1 .. MaxActions -> Killed!Reports] /\ report \in Killed!Reports
  BY DEF CommonInv, ObserverTypes
<1>d. /\ report # Killed!NoReport /\ report.reservation = state.pendingAction.reservation
      /\ Told(report) /\ Durable(point, n, report)
  BY <1>p DEF CommonInv, Durable, Trusted, Reported
<1>n. Killed!NoReport \in Killed!Reports
  BY ObserverConstants DEF Killed!NoReport, Killed!Reports
<1> HIDE DEF n
<1>1. CASE Killed!ReplayReport
  <2>1. /\ point = "persist" /\ file[n] # Killed!NoReport /\ point' = "commit"
        /\ UNCHANGED <<state, summary, file, temp, report, failures, at, crashes, reserved,
                       posts,
                       ambiguous, folded, refused, checkpointFiles, uncounted>>
    <3>1. point = "persist" /\ file[n] # Killed!NoReport /\ ~Killed!Conflict
      BY <1>1, NoConflict DEF Killed!ReplayReport, Killed!pending, n
    <3>2. QED
      BY <1>1, <3>1 DEF Killed!ReplayReport, Killed!Goto, Killed!history
  <2>2. Durable(point, state.pendingAction.reportSeq, report)' /\ point' \in Finalizing
    BY <1>d, <2>1 DEF Durable, n, Finalizing
  <2>3. QED
    BY <1>2, <1>d, <1>t, <2>1, <2>2, FilesKeep, FilesKeepOrder
<1>4. CASE Killed!DropTemporary
  <2>1. /\ point = "persist" /\ file[n] = Killed!NoReport
        /\ temp' = [temp EXCEPT ![n] = Killed!NoReport]
        /\ UNCHANGED <<state, summary, file, report, failures, point, at, crashes, reserved,
                       posts, ambiguous, folded, refused, checkpointFiles, uncounted>>
    <3>1. point = "persist" /\ file[n] = Killed!NoReport /\ ~Killed!Conflict
      BY <1>4, NoConflict DEF Killed!DropTemporary, Killed!pending, n
    <3>2. QED
      BY <1>4, <3>1 DEF Killed!DropTemporary, Killed!history, Killed!pending, n
  <2>2. /\ temp' \in [1 .. MaxActions -> Killed!Reports] /\ temp'[n] = Killed!NoReport
        /\ \A m \in 1 .. MaxActions : temp'[m] \in {temp[m], Killed!NoReport}
    BY <1>3, <1>n, <1>t, <2>1
  <2>3. Durable(point, state.pendingAction.reportSeq, report)' /\ point' \in Finalizing
    BY <1>d, <2>1, <2>2 DEF Durable, n, Finalizing
  <2>4. QED
    BY <1>2, <1>d, <1>t, <2>1, <2>2, <2>3, FilesKeep, FilesKeepOrder
<1>5. CASE Killed!WriteTemporary
  <2>1. /\ point = "persist" /\ file[n] = Killed!NoReport /\ point' = "replace"
        /\ temp' = [temp EXCEPT ![n] = report]
        /\ UNCHANGED <<state, summary, file, report, failures, at, crashes, reserved,
                       posts, ambiguous, folded, refused, checkpointFiles, uncounted>>
    BY <1>5 DEF Killed!WriteTemporary, Killed!history, Killed!pending, n
  <2>2. /\ temp' \in [1 .. MaxActions -> Killed!Reports] /\ temp'[n] = report
        /\ \A m \in 1 .. MaxActions : temp'[m] = temp[m] \/ (m = n /\ temp'[m] = report)
    BY <1>3, <1>t, <2>1
  <2>3. Durable(point, state.pendingAction.reportSeq, report)' /\ point' \in Finalizing
    BY <1>d, <2>1, <2>2 DEF Durable, n, Finalizing
  <2>4. CommonInv'
    BY <1>2, <1>d, <1>t, <2>1, <2>2, <2>3, FilesKeep
  <2>5. OrderInv => OrderInv'
    BY <1>2, <1>d, <2>1, <2>2, <2>3, FilesKeepOrder DEF n
  <2>6. QED
    BY <2>4, <2>5
<1>6. CASE Killed!PruneReport
  <2>1. /\ point = "replace"
        /\ file' = [file EXCEPT ![Killed!Min(Killed!Kept)] = Killed!NoReport]
        /\ UNCHANGED <<state, summary, temp, report, failures, point, at, crashes, reserved,
                       posts, ambiguous, folded, refused, checkpointFiles, uncounted>>
    BY <1>6 DEF Killed!PruneReport, Killed!history
  <2>2. /\ file' \in [1 .. MaxActions -> Killed!Reports]
        /\ \A m \in 1 .. MaxActions : file'[m] \in {file[m], Killed!NoReport}
    BY <1>n, <1>t, <2>1
  <2>3. Durable(point, state.pendingAction.reportSeq, report)' /\ point' \in Finalizing
    BY <1>3, <1>d, <2>1, <2>2 DEF Durable, n, Finalizing
  <2>4. QED
    BY <1>2, <1>d, <1>t, <2>1, <2>2, <2>3, FilesKeep, FilesKeepOrder
<1>7. CASE Killed!ReplaceReport
  <2>1. /\ point = "replace" /\ point' = "commit"
        /\ file' = [file EXCEPT ![n] = temp[n]]
        /\ temp' = [temp EXCEPT ![n] = Killed!NoReport]
        /\ UNCHANGED <<state, summary, report, failures, at, crashes, reserved,
                       posts, ambiguous, folded, refused, checkpointFiles, uncounted>>
    BY <1>7 DEF Killed!ReplaceReport, Killed!history, Killed!pending, n
  <2>2. temp[n] = report
    BY <1>d, <2>1 DEF Durable
  <2>3. /\ file' \in [1 .. MaxActions -> Killed!Reports] /\ file'[n] = report
        /\ temp' \in [1 .. MaxActions -> Killed!Reports]
        /\ \A m \in 1 .. MaxActions : /\ file'[m] = file[m] \/ (m = n /\ file'[m] = report)
                                      /\ temp'[m] \in {temp[m], Killed!NoReport}
    BY <1>3, <1>n, <1>t, <2>1, <2>2
  <2>4. Durable(point, state.pendingAction.reportSeq, report)' /\ point' \in Finalizing
    BY <1>d, <2>1, <2>3 DEF Durable, n, Finalizing
  <2>5. CommonInv'
    BY <1>2, <1>d, <1>t, <2>1, <2>3, <2>4, FilesKeep
  <2>6. OrderInv => OrderInv'
    BY <1>2, <1>d, <2>1, <2>3, <2>4, FilesKeepOrder DEF n
  <2>7. QED
    BY <2>5, <2>6
<1>8. QED
  BY <1>1, <1>4, <1>5, <1>6, <1>7

(* The process is gone.  What it leaves is in doubt at most once more. *)
LEMMA GoneKeeps ==
  ASSUME CommonInv, Killed!Gone,
         \/ summary' \in {summary, Killed!NoSummary}
         \/ summary' = Killed!Recorded /\ point \in Checkpointing,
         checkpointFiles' = checkpointFiles,
         file' \in [1 .. MaxActions -> Killed!Reports],
         temp' \in [1 .. MaxActions -> Killed!Reports],
         \A m \in 1 .. MaxActions :
           /\ file'[m] \in {file[m], Killed!NoReport, Killed!TornReport}
           /\ temp'[m] \in {temp[m], Killed!NoReport, Killed!TornReport},
         crashes' \in 0 .. (MaxKills + 1), refused' \subseteq {"report", "state"},
         UNCHANGED <<reserved, posts, folded>>
  PROVE  CommonInv'
<1> DEFINE r0 == summary.pendingAction.reservation
           doubt == \E c \in Killed!Clients :
                      summary.pendingAction.clients[c].create = "prepared"
<1>1. /\ point' = "down" /\ state' = Killed!NewState /\ report' = Killed!NoReport
      /\ failures' = 0 /\ at' = "rust"
      /\ ambiguous' = IF doubt THEN ambiguous \cup {r0} ELSE ambiguous
      /\ uncounted' \in BOOLEAN
  BY DEF Killed!Gone, CommonInv, ObserverTypes
<1>r. summary' = Killed!Recorded /\ point \in Checkpointing =>
        /\ Sound(summary') /\ Alike(summary', state)
        /\ summary = Killed!NoSummary \/ Alike(summary', summary)
  BY RecordedState DEF CommonInv, Synced, Alike
<1>t. /\ ambiguous \subseteq 1 .. reserved /\ reserved \in 0 .. MaxActions /\ MaxActions \in Nat
      /\ CheckpointThreshold \in Nat
  BY ObserverConstants DEF CommonInv, ObserverTypes
<1>2. doubt => /\ Sound(summary) /\ Killed!Pending(summary) /\ ~summary.pendingAction.driverOutcome
               /\ r0 \in 1 .. reserved
  <2> SUFFICES ASSUME doubt PROVE /\ Sound(summary) /\ Killed!Pending(summary)
                                  /\ ~summary.pendingAction.driverOutcome /\ r0 \in 1 .. reserved
    OBVIOUS
  <2>1. summary.pendingAction # Killed!NoAction
    BY DEF Killed!NoAction, Killed!NewClient
  <2>2. Sound(summary) /\ Killed!Pending(summary)
    BY <2>1, FirstStates DEF CommonInv, Synced, Sound
  <2>3. \A c \in Killed!Clients :
          Killed!ValidClient(summary.pendingAction.clients[c], summary.pendingAction.driverOutcome)
    BY <2>2 DEF Sound, Killed!CountsAgree, Killed!ValidPending
  <2>4. ~summary.pendingAction.driverOutcome
    BY <2>3 DEF Killed!ValidClient
  <2>5. QED
    BY <2>2, <2>4 DEF Sound
<1> HIDE DEF doubt, r0
<1>3. ambiguous' \subseteq 1 .. reserved
  BY <1>1, <1>2, <1>t
<1>4. ObserverTypes'
  <2>1. "down" \in Killed!Points /\ "rust" \in Killed!Clients
    BY DEF Killed!Points, Killed!Clients
  <2>2. Killed!NoReport \in Killed!Reports
    BY <1>t DEF Killed!NoReport, Killed!Reports
  <2>3. QED
    BY <1>1, <1>3, <1>t, <2>1, <2>2 DEF CommonInv, ObserverTypes
<1>5. Synced'
  BY <1>1, <1>r, FirstStates DEF CommonInv, Synced, Sound, Detached, Checkpointing
<1>6. Shape(point, state, at)' /\ Durable(point, state.pendingAction.reportSeq, report)'
  BY <1>1 DEF Shape, Durable, Driving, Finalizing
<1>7. Doubted(state)' /\ Doubted(summary)'
  <2>1. Doubted(Killed!NewState)' /\ Doubted(Killed!NoSummary)'
    BY FirstStates DEF Doubted
  <2>2. CASE summary' = Killed!NoSummary
    BY <1>1, <2>1, <2>2 DEF Doubted
  <2>3. CASE summary' = summary
    <3>1. Doubted(summary)
      BY DEF CommonInv, Trusted
    <3>2. CASE doubt /\ r0 = summary.pendingAction.reservation
      BY <1>1, <2>1, <2>3, <3>2 DEF Doubted, doubt
    <3>3. CASE ~doubt
      BY <1>1, <2>1, <2>3, <3>1, <3>3 DEF Doubted
    <3>4. QED
      BY <3>2, <3>3 DEF r0
  <2>4. CASE summary' = Killed!Recorded /\ point \in Checkpointing
    <3>1. Doubted(state) /\ Doubted(summary)
      BY DEF CommonInv, Trusted
    <3>2. CASE ~doubt
      BY <1>1, <1>r, <2>1, <2>4, <3>1, <3>2 DEF Doubted, Alike, Killed!Pending
    <3>3. CASE doubt
      <4>1. summary'.pendingAction = summary.pendingAction
        BY <1>2, <1>r, <2>4, <3>3, SummaryMissing DEF Alike
      <4>2. QED
        BY <1>1, <2>1, <3>3, <4>1 DEF Doubted, doubt
    <3>4. QED
      BY <3>2, <3>3
  <2>5. QED
    BY <2>2, <2>3, <2>4
<1>8. ASSUME NEW r, Told(r) PROVE Told(r)'
  <2>1. Past(r, state)' /\ Past(r, summary)'
    <3>1. Past(r, summary) /\ Past(r, Killed!NoSummary) /\ Past(r, Killed!NewState)
      BY <1>8, FirstStates DEF Told, Past
    <3>2. summary' = Killed!Recorded /\ point \in Checkpointing => Past(r, summary')
      BY <1>8, <1>r DEF Told, Past, Alike, Killed!Pending
    <3>3. QED
      BY <1>1, <3>1, <3>2 DEF Past
  <2>2. r.reservation \in ambiguous' => r.verdict = "retryable"
    <3>1. ASSUME doubt PROVE r.reservation # r0
      BY <1>2, <1>8, <3>1 DEF Told, Past, r0
    <3>2. QED
      BY <1>1, <1>8, <3>1 DEF Told
  <2>3. QED
    BY <1>8, <2>1, <2>2 DEF Told
<1>9. Told(Killed!NoReport)' /\ Told(Killed!TornReport)'
  <2>1. /\ Killed!NoReport.reservation = 0 /\ Killed!TornReport.reservation = 0 /\ reserved >= 0
        /\ 0 \notin ambiguous'
    BY <1>3, <1>t DEF Killed!NoReport, Killed!TornReport
  <2>2. \A r : r.reservation = 0 => Past(r, state)' /\ Past(r, summary)'
    <3>1. Killed!Pending(summary) /\ summary # Killed!NoSummary => summary.pendingAction.reservation # 0
      BY DEF CommonInv, Synced, Sound
    <3>2. summary' = Killed!Recorded /\ point \in Checkpointing /\ Killed!Pending(summary') =>
            summary'.pendingAction.reservation # 0
      BY <1>r DEF Sound
    <3>3. QED
      BY <1>1, <3>1, <3>2, FirstStates DEF Past
  <2>3. QED
    BY <2>1, <2>2 DEF Told
<1>10. Trusted'
  <2>1. \A m \in 1 .. MaxActions : Told(file[m])' /\ Told(temp[m])'
    <3>1. TAKE m \in 1 .. MaxActions
    <3>2. \A r : r \in {file[m], temp[m], Killed!NoReport, Killed!TornReport} =>
            /\ r.reservation <= reserved'
            /\ r.reservation \in ambiguous' => r.verdict = "retryable"
            /\ Past(r, state)' /\ Past(r, summary)'
      BY <1>8, <1>9 DEF Told, CommonInv, Trusted, Reported
    <3>3. QED
      BY <3>2 DEF Told, Past
  <2>2. Told(report)'
    BY <1>1, <1>9 DEF Told, Past
  <2>3. \A i \in DOMAIN folded' : Told(folded[i].report)'
    <3>1. TAKE i \in DOMAIN folded'
    <3>2. Told(folded[i].report)
      BY DEF CommonInv, Trusted, Reported
    <3>3. PICK r : r = folded[i].report
      OBVIOUS
    <3>4. Told(r)'
      BY <1>8, <3>2, <3>3
    <3>5. folded'[i].report = r
      BY <3>3
    <3>6. QED
      BY <3>4, <3>5 DEF Told, Past
  <2>4. QED
    BY <1>1, <1>7, <2>1, <2>2, <2>3 DEF Trusted, Reported
<1>11. QED
  BY <1>4, <1>5, <1>6, <1>10 DEF CommonInv

LEMMA GoneKeepsOrder ==
  ASSUME CommonInv, OrderInv, Killed!Gone,
         summary' = summary \/ (summary' = Killed!Recorded /\ point = "count"),
         "report" \notin refused', "state" \in refused' => uncounted,
         UNCHANGED <<file, temp, checkpointFiles, posts, folded>>
  PROVE  OrderInv'
<1>1. /\ point' = "down" /\ state' = Killed!NewState
      /\ uncounted' = (uncounted \/ checkpointFiles > summary.checkpoints)
  BY DEF Killed!Gone
<1>2. /\ summary' = summary \/ (Alike(summary', summary) /\ summary' # Killed!NoSummary)
      /\ summary' = Killed!NoSummary <=> summary = Killed!NoSummary
  <2>1. point = "count" => point \in Checkpointing /\ point \notin Detached
    BY DEF Checkpointing, Detached
  <2>2. QED
    BY <2>1, RecordedState DEF CommonInv, Synced, OrderInv, Numbered, Alike
<1>3. Numbered'
  BY <1>1, <1>2 DEF OrderInv, Numbered, Alike, Detached
<1>4. OwnFiles'
  BY <1>2 DEF OrderInv, OwnFiles, PendingOnly, Alike, Killed!Pending
<1>5. Sent'
  BY <1>1, <1>2 DEF OrderInv, Sent, Unsent, Alike
<1>6. Windowed'
  <2>t. /\ checkpointFiles \in Nat /\ summary.checkpoints \in Nat /\ state.checkpoints \in Nat
        /\ uncounted \in BOOLEAN
    <3>1. state \in Killed!States /\ summary \in Killed!States
      BY FirstStates DEF CommonInv, Synced, Sound
    <3>2. state.checkpoints \in Nat /\ summary.checkpoints \in Nat
      BY <3>1, ObserverConstants DEF Killed!States
    <3>3. QED
      BY <3>2, ObserverConstants DEF CommonInv, ObserverTypes
  <2>1. Window(Killed!NewState)
    BY FirstStates DEF Window
  <2>2. CASE summary' = summary
    <3>1. /\ summary # Killed!NoSummary => Window(summary)
          /\ uncounted \/ summary.retention.checkpoints <= summary.checkpoints
          /\ checkpointFiles <= summary.checkpoints => checkpointFiles <= summary.checkpoints + 0
      BY <2>t DEF OrderInv, Windowed
    <3>2. uncounted' \/ (summary.retention.checkpoints <= summary.checkpoints
                          /\ checkpointFiles <= summary.checkpoints + 0)
      <4>1. uncounted' \/ (~uncounted /\ ~(checkpointFiles > summary.checkpoints))
        BY <1>1, Zenon
      <4>2. ~(checkpointFiles > summary.checkpoints) => checkpointFiles <= summary.checkpoints
        BY <2>t
      <4>3. QED
        BY <3>1, <4>1, <4>2
    <3>3. Window(state)' /\ (summary' # Killed!NoSummary => Window(summary)')
      BY <1>1, <2>1, <2>2, <3>1 DEF Window
    <3>4. QED
      BY <1>1, <2>2, <3>2, <3>3 DEF Windowed, Counted, Detached
  <2>3. CASE summary' = Killed!Recorded /\ point = "count"
    <3>1. /\ Window(summary') /\ summary'.retention.checkpoints = checkpointFiles
          /\ checkpointFiles <= state.checkpoints + 1 => checkpointFiles <= summary'.checkpoints
      BY <2>3, RecordedState DEF OrderInv, Windowed, Window, Alike
    <3>2. uncounted \/ checkpointFiles <= state.checkpoints + 1
      BY <2>3 DEF OrderInv, Windowed, Counted, Detached
    <3>3. summary'.checkpoints \in Nat
      BY <2>3, RecordedState DEF Sound, Killed!States
    <3>4. QED
      BY <1>1, <2>t, <2>1, <3>1, <3>2, <3>3 DEF Windowed, Window, Counted, Detached
  <2>4. QED
    BY <2>2, <2>3
<1>7. QED
  BY <1>3, <1>4, <1>5, <1>6 DEF OrderInv

(* What it refuses, if anything, is a state whose checkpoints do not count.    *)
LEMMA RejectExcused ==
  ASSUME CommonInv, OrderInv, Killed!RejectState
  PROVE  uncounted
<1>1. CASE point = "reject"
  BY <1>1 DEF OrderInv, Windowed
<1>2. CASE point = "attach" /\ ~Killed!Valid(Killed!Loaded)
  <2> DEFINE s == Killed!Loaded
  <2>1. s = IF summary = Killed!NoSummary THEN Killed!NewState ELSE summary
    BY DEF Killed!Loaded
  <2>2. Killed!CountsAgree(s)
    BY <2>1, FirstStates DEF CommonInv, Synced, Sound
  <2>3. Window(s)
    BY <2>1 , FirstStates DEF OrderInv, Windowed, Window
  <2>4. uncounted \/ s.retention.checkpoints <= s.checkpoints
    BY <2>1, FirstStates DEF OrderInv, Windowed
  <2> HIDE DEF s
  <2>5. QED
    BY <1>2, <2>2, <2>3, <2>4 DEF Killed!Valid, Killed!RetentionFits, Window, s
<1>3. QED
  BY <1>1, <1>2 DEF Killed!RejectState

(* The observer leaves, raises or is killed. *)
LEMMA GoneSteps ==
  ASSUME CommonInv,
         \/ Killed!Leave \/ Killed!CheckpointRaises \/ Killed!Crash \/ Killed!RefuseCandidate
         \/ Killed!RejectState
  PROVE  CommonInv' /\ (OrderInv => OrderInv')
<1>t. /\ file \in [1 .. MaxActions -> Killed!Reports]
      /\ temp \in [1 .. MaxActions -> Killed!Reports]
      /\ crashes \in 0 .. (MaxKills + 1) /\ MaxKills \in Nat
      /\ refused \subseteq {"report", "state"}
      /\ OrderInv => "report" \notin refused /\ ("state" \in refused => uncounted)
  BY ObserverConstants DEF CommonInv, ObserverTypes, OrderInv, Numbered, Windowed
<1>1. CASE Killed!Leave \/ Killed!CheckpointRaises
  <2>1. /\ Killed!Gone
        /\ UNCHANGED <<file, temp, crashes, reserved, posts, folded, refused, checkpointFiles>>
        /\ summary' = summary \/ (summary' = Killed!Recorded /\ point = "count")
    BY <1>1 DEF Killed!Leave, Killed!CheckpointRaises, Killed!FailedCheckpoint
  <2>2. point = "count" => point \in Checkpointing
    BY DEF Checkpointing
  <2>3. QED
    BY <1>t, <2>1, <2>2, GoneKeeps, GoneKeepsOrder
<1>2. CASE Killed!Crash
  <2>1. /\ Killed!Gone
        /\ UNCHANGED <<summary, file, temp, reserved, posts, folded, refused, checkpointFiles>>
        /\ crashes < MaxKills + 1 /\ crashes' = crashes + 1
    BY <1>2 DEF Killed!Crash
  <2>2. crashes' \in 0 .. (MaxKills + 1)
    BY <1>t, <2>1
  <2>3. QED
    BY <1>t, <2>1, <2>2, GoneKeeps, GoneKeepsOrder
<1>3. CASE Killed!RefuseCandidate
  <2>1. /\ Killed!Gone
        /\ UNCHANGED <<summary, file, temp, crashes, reserved, posts, folded, checkpointFiles>>
        /\ refused' = refused \cup {"report"}
    BY <1>3 DEF Killed!RefuseCandidate, Killed!Refuse
  <2>2. CommonInv'
    BY <1>t, <2>1, GoneKeeps
  <2>3. ~OrderInv
    <3>1. point = "finalize" /\ Killed!Candidate # Killed!NoReport /\ ~Killed!Acceptable
      BY <1>3 DEF Killed!RefuseCandidate
    <3>2. /\ state.pendingAction.reportSeq \in 1 .. MaxActions
          /\ OrderInv => /\ summary = state
                         /\ state.pendingAction.reportSeq = Len(folded) + 1
      BY <3>1, FinalAction DEF Finalizing
    <3>3. Len(folded) \in Nat
      BY DEF CommonInv, ObserverTypes
    <3>4. QED
      BY <3>1, <3>2, <3>3 DEF OrderInv, OwnFiles, PendingOnly, Killed!Candidate,
         Killed!Acceptable, Killed!pending
  <2>4. QED
    BY <2>2, <2>3
<1>4. CASE Killed!RejectState
  <2>1. /\ Killed!Gone
        /\ UNCHANGED <<summary, file, temp, crashes, reserved, posts, folded, checkpointFiles>>
        /\ refused' = refused \cup {"state"}
    BY <1>4 DEF Killed!RejectState, Killed!Refuse
  <2>2. CommonInv'
    BY <1>t, <2>1, GoneKeeps
  <2>3. OrderInv => OrderInv'
    BY <1>4, <1>t, <2>1, RejectExcused, GoneKeepsOrder
  <2>4. QED
    BY <2>2, <2>3
<1>5. QED
  BY <1>1, <1>2, <1>3, <1>4

(* The summary is loaded. *)
LEMMA LoadStep ==
  ASSUME CommonInv, Killed!LoadState
  PROVE  CommonInv' /\ (OrderInv => OrderInv')
<1> DEFINE loaded == IF summary = Killed!NoSummary THEN Killed!NewState ELSE summary
           s == Killed!Reconciled(loaded)
<1>1. /\ point = "attach" /\ point' = "due" /\ state' = s
      /\ summary' = IF s = loaded THEN summary ELSE s
      /\ UNCHANGED <<file, temp, report, failures, at, crashes, reserved, posts, ambiguous,
                     folded, refused, checkpointFiles, uncounted>>
  BY DEF Killed!LoadState, Killed!Loaded, Killed!history
<1>2. /\ Sound(loaded) /\ Doubted(loaded) /\ loaded \in Killed!States
      /\ \A r : Told(r) => Past(r, loaded)
  BY FirstStates DEF CommonInv, Synced, Trusted, Doubted, Told, Past, Sound
<1>l. summary # Killed!NoSummary => loaded = summary
  OBVIOUS
<1>n. summary = Killed!NoSummary => loaded = Killed!NewState
  OBVIOUS
<1>3. /\ s \in Killed!States /\ s.pendingAction = loaded.pendingAction
      /\ s.nextActionSeq = loaded.nextActionSeq /\ s.nextCycle = loaded.nextCycle
      /\ s.cycles = loaded.cycles /\ s.nextScheduleSlot = loaded.nextScheduleSlot
      /\ s.connectivitySkips = loaded.connectivitySkips
      /\ s.nextActionSet = ~Killed!Pending(loaded) /\ s.gate = loaded.gate
      /\ s.checkpoints = loaded.checkpoints /\ s.retention = loaded.retention
  <2>1. (~Killed!Pending(loaded)) \in BOOLEAN
    BY DEF Killed!Pending
  <2> HIDE DEF loaded
  <2>2. QED
    BY <1>2, <2>1 DEF Killed!Reconciled, Killed!States
<1>4. summary' = s
  <2>1. CASE summary = Killed!NoSummary
    <3>1. Killed!NewState.nextActionSet = FALSE
      BY DEF Killed!NewState
    <3>2. s.nextActionSet = TRUE
      BY <1>3, <1>n, <2>1, FirstStates
    <3>3. s # loaded
      BY <1>n, <2>1, <3>1, <3>2
    <3>4. QED
      BY <1>1, <3>3
  <2>2. CASE summary # Killed!NoSummary
    BY <1>1, <2>2
  <2>3. QED
    BY <2>1, <2>2
<1> HIDE DEF loaded, s
<1>5. Sound(s)
  <2>1. Killed!Pending(s) = Killed!Pending(loaded)
    BY <1>3 DEF Killed!Pending
  <2>2. Killed!CountsAgree(s)
    BY <1>2, <1>3, <2>1 DEF Sound, Killed!CountsAgree, Killed!ValidPending
  <2>3. QED
    BY <1>2, <1>3, <2>1, <2>2 DEF Sound
<1>6. ObserverTypes'
  BY <1>1 DEF CommonInv, ObserverTypes, Killed!Points
<1>7. Synced'
  BY <1>1, <1>4, <1>5 DEF Synced, Sound, Alike, Detached, Checkpointing
<1>8. Shape(point, state, at)' /\ Durable(point, state.pendingAction.reportSeq, report)'
  BY <1>1 DEF Shape, Durable, Driving, Finalizing
<1>9. Trusted'
  <2>1. Doubted(s) /\ \A r : Past(r, loaded) => Past(r, s)
    BY <1>2, <1>3 DEF Doubted, Past, Killed!Pending
  <2>2. \A r : Told(r) => Past(r, s)
    BY <1>2, <2>1
  <2>3. Reported'
    BY <1>1, <1>4, <2>2 DEF CommonInv, Trusted, Reported, Told, Past
  <2>4. QED
    BY <1>1, <1>4, <2>1, <2>3 DEF Trusted, Doubted
<1>10. ASSUME OrderInv PROVE OrderInv'
  <2>1. s # Killed!NoSummary
    BY <1>5, SummaryMissing
  <2>2. /\ s.nextActionSeq = Len(folded) + 1 /\ s.gate = Killed!GateOf(folded)
        /\ s.nextCycle = summary.nextCycle
        /\ s.pendingAction = summary.pendingAction
        /\ Killed!Pending(s) = Killed!Pending(summary)
    BY <1>3, <1>10, <1>l, <1>n, FirstStates, NoReports DEF OrderInv, Numbered,
       Killed!Pending
  <2>3. Numbered'
    BY <1>1, <1>4, <1>10, <2>1, <2>2 DEF OrderInv, Numbered
  <2>4. OwnFiles'
    BY <1>1, <1>4, <1>10, <2>2 DEF OrderInv, OwnFiles, PendingOnly
  <2>5. Sent'
    BY <1>1, <1>4, <1>10, <2>2 DEF OrderInv, Sent, Unsent
  <2>6. Windowed'
    <3>1. Window(s)
      BY <1>3, <1>10, <1>l, <1>n, FirstStates DEF OrderInv, Windowed, Window
    <3>2. uncounted \/ (s.retention.checkpoints <= s.checkpoints /\ Counted(s, 0))
      BY <1>1, <1>3, <1>10, <1>l, <1>n, FirstStates DEF OrderInv, Windowed, Counted,
         Detached
    <3>3. QED
      BY <1>1, <1>4, <1>10, <3>1, <3>2 DEF OrderInv, Windowed, Window, Counted,
         Detached
  <2>7. QED
    BY <2>3, <2>4, <2>5, <2>6 DEF OrderInv
<1>11. QED
  BY <1>6, <1>7, <1>8, <1>9, <1>10 DEF CommonInv

LEMMA ScheduledMember ==
  ASSUME state.nextScheduleSlot \in Nat, state.nextScheduleSlot > 0
  PROVE  Killed!ScheduledMethod \in Killed!Methods
<1> DEFINE k == (state.nextScheduleSlot - 1) % 2
           ms == IF state.gate.status = "pending" /\ Killed!Unmet # {} THEN Killed!Unmet
                 ELSE Killed!Methods
<1>1. ms \in SUBSET Killed!Methods /\ ms # {}
  BY DEF Killed!Unmet, Killed!Methods
<1>2. Killed!Rotation = IF ms = Killed!Methods THEN <<"server", "kad">> ELSE <<CHOOSE m \in ms : TRUE>>
  BY DEF Killed!Rotation
<1> HIDE DEF ms
<1>3. CASE ms = Killed!Methods
  <2>1. Killed!Rotation = <<"server", "kad">>
    BY <1>2, <1>3
  <2>2. k \in 0 .. 1
    OBVIOUS
  <2>3. Killed!ScheduledMethod = <<"server", "kad">>[1 + k]
    BY <2>1 DEF Killed!ScheduledMethod
  <2>4. QED
    BY <2>2, <2>3 DEF Killed!Methods
<1>4. CASE ms # Killed!Methods
  <2>1. Killed!Rotation = <<CHOOSE m \in ms : TRUE>>
    BY <1>2, <1>4
  <2>2. (state.nextScheduleSlot - 1) % 1 = 0
    OBVIOUS
  <2>3. Killed!ScheduledMethod = CHOOSE m \in ms : TRUE
    BY <2>1, <2>2 DEF Killed!ScheduledMethod
  <2>4. QED
    BY <1>1, <2>3
<1>5. QED
  BY <1>3, <1>4

(* A new action is reserved. *)
LEMMA ReserveStep ==
  ASSUME CommonInv, Killed!Reserve
  PROVE  CommonInv' /\ (OrderInv => OrderInv')
<1> DEFINE p == [Killed!NoAction EXCEPT
                   !.cycle = state.nextCycle, !.reportSeq = state.nextActionSeq,
                   !.method = Killed!ScheduledMethod, !.reservation = reserved + 1]
           s == [state EXCEPT !.nextActionSet = FALSE, !.nextCycle = @ + 1,
                              !.nextScheduleSlot = @ + 1, !.pendingAction = p]
<1>1. /\ point = "act" /\ ~Killed!Pending(state) /\ state.nextCycle <= MaxActions
      /\ reserved < MaxActions /\ state' = s /\ summary' = s
      /\ reserved' = reserved + 1 /\ point' = "creates"
      /\ UNCHANGED <<file, temp, report, failures, at, crashes, posts, ambiguous, folded,
                     refused, checkpointFiles, uncounted>>
  BY DEF Killed!Reserve, Killed!Persist
<1>t. /\ reserved \in 0 .. MaxActions /\ MaxActions \in Nat /\ ambiguous \subseteq 1 .. reserved
  BY ObserverConstants DEF CommonInv, ObserverTypes
<1>2. /\ state \in Killed!States /\ Killed!CountsAgree(state) /\ state.nextCycle \in Nat
      /\ state.nextScheduleSlot \in Nat /\ state.cycles \in Nat /\ state.connectivitySkips \in Nat
  <2>1. state \in Killed!States /\ Killed!CountsAgree(state)
    BY DEF CommonInv, Synced, Sound
  <2>2. QED
    BY <2>1 DEF Killed!States
<1>3. /\ state.nextCycle = state.cycles + 1 /\ state.nextActionSeq = state.nextCycle
      /\ state.nextScheduleSlot = state.nextCycle + state.connectivitySkips
  <2>1. state.nextCycle = state.cycles + 1
    BY <1>1, <1>2 DEF Killed!CountsAgree
  <2>2. QED
    BY <1>1, <1>2, <2>1 DEF Killed!CountsAgree
<1>4. Killed!ScheduledMethod \in Killed!Methods
  BY <1>2, <1>3, ScheduledMember
<1>5. /\ p \in Killed!Actions /\ p.cycle = state.nextCycle /\ p.reportSeq = state.nextActionSeq
      /\ p.method \in Killed!Methods /\ p.reservation = reserved + 1
      /\ ~p.driverOutcome /\ ~p.evidence
      /\ \A c \in Killed!Clients : p.clients[c] = Killed!NewClient
  <2>1. state.nextCycle \in 0 .. MaxActions /\ state.nextActionSeq \in 0 .. MaxActions
        /\ reserved + 1 \in 0 .. MaxActions
    BY <1>1, <1>2, <1>3, <1>t
  <2>2. Killed!NoAction \in Killed!Actions
    BY FirstStates
  <2>3. /\ ~Killed!NoAction.driverOutcome /\ ~Killed!NoAction.evidence
        /\ \A c \in Killed!Clients : Killed!NoAction.clients[c] = Killed!NewClient
    BY DEF Killed!NoAction
  <2>4. QED
    BY <1>4, <2>1, <2>2, <2>3 DEF Killed!Actions
<1> HIDE DEF p
<1>6. /\ s \in Killed!States /\ s.pendingAction = p /\ s.nextActionSeq = state.nextActionSeq
      /\ s.nextCycle = state.nextCycle + 1 /\ s.nextScheduleSlot = state.nextScheduleSlot + 1
      /\ s.cycles = state.cycles /\ s.connectivitySkips = state.connectivitySkips
      /\ ~s.nextActionSet /\ s.gate = state.gate
      /\ s.checkpoints = state.checkpoints /\ s.retention = state.retention
  <2>1. state.nextCycle + 1 \in Nat /\ state.nextScheduleSlot + 1 \in Nat
    BY <1>2
  <2>2. QED
    BY <1>2, <1>5, <2>1 DEF Killed!States
<1> HIDE DEF s
<1>7. Killed!Pending(s)
  BY <1>2, <1>3, <1>5, <1>6 DEF Killed!Pending
<1>8. Killed!CountsAgree(s)
  <2>1. \A c \in Killed!Clients : Killed!ValidClient(p.clients[c], FALSE)
    BY <1>5 DEF Killed!ValidClient, Killed!NewClient
  <2>2. Killed!ValidPending(s)
    BY <1>3, <1>5, <1>6, <2>1 DEF Killed!ValidPending, Killed!ValidClient
  <2>3. QED
    BY <1>2, <1>3, <1>5, <1>6, <1>7, <2>2 DEF Killed!CountsAgree
<1>q. PICK t : t = s
  OBVIOUS
<1>u. /\ t \in Killed!States /\ t.pendingAction = p /\ t.nextActionSeq = state.nextActionSeq
      /\ t.nextCycle = state.nextCycle + 1 /\ t.gate = state.gate
      /\ Killed!Pending(t) /\ Killed!CountsAgree(t)
      /\ state' = t /\ summary' = t
      /\ t.checkpoints = state.checkpoints /\ t.retention = state.retention
  BY <1>1, <1>6, <1>7, <1>8, <1>q
<1>9. Sound(t)'
  <2>1. t.pendingAction.method \in Killed!Methods /\ t.pendingAction.reservation \in 1 .. reserved'
    BY <1>1, <1>5, <1>t, <1>u
  <2>2. QED
    BY <1>u, <2>1 DEF Sound
<1>10. CommonInv'
  <2>1. ObserverTypes'
    BY <1>1, <1>t DEF CommonInv, ObserverTypes, Killed!Points
  <2>2. Synced'
    BY <1>1, <1>9, <1>u DEF Synced, Detached, Checkpointing, Sound
  <2>3. Shape(point, state, at)' /\ Durable(point, state.pendingAction.reportSeq, report)'
    BY <1>1, <1>5, <1>u DEF Shape, Durable, Driving, Finalizing
  <2>4. Trusted'
    <3>1. Doubted(state)' /\ Doubted(summary)'
      BY <1>1, <1>5, <1>u, <1>t DEF Doubted
    <3>2. \A r \in Killed!Reports : Told(r) =>
            r.reservation <= reserved' /\ Past(r, state)' /\ Past(r, summary)'
      <4>1. \A r \in Killed!Reports : r.reservation \in Nat
        BY <1>t DEF Killed!Reports
      <4>2. \A r \in Killed!Reports : Told(r) => r.reservation # reserved + 1
                                                /\ r.reservation <= reserved'
        BY <1>1, <1>t, <4>1 DEF Told
      <4>3. QED
        BY <1>5, <1>u, <4>2 DEF Past
    <3>3. \A r \in Killed!Reports : Told(r) =>
            /\ r.reservation <= reserved' /\ Past(r, state') /\ Past(r, summary')
            /\ r.reservation \in ambiguous' => r.verdict = "retryable"
      BY <1>1, <3>2 DEF Told, Past
    <3>4. /\ \A n \in 1 .. MaxActions : file[n] \in Killed!Reports /\ temp[n] \in Killed!Reports
          /\ report \in Killed!Reports
          /\ \A i \in DOMAIN folded : folded[i].report \in Killed!Reports
      <4>1. folded \in Seq(FoldedReports)
        BY DEF CommonInv, ObserverTypes
      <4>2. \A i \in DOMAIN folded : folded[i] \in FoldedReports
        BY <4>1
      <4>3. \A i \in DOMAIN folded : folded[i].report \in Killed!Reports
        BY <4>2 DEF FoldedReports
      <4>4. QED
        BY <4>3 DEF CommonInv, ObserverTypes
    <3>5. /\ \A n \in 1 .. MaxActions : Told(file[n]) /\ Told(temp[n])
          /\ Told(report) /\ \A i \in DOMAIN folded : Told(folded[i].report)
      BY DEF CommonInv, Trusted, Reported
    <3>6. Reported'
      BY <1>1, <3>3, <3>4, <3>5 DEF Reported, Told, Past
    <3>7. QED
      BY <1>1, <3>1, <3>6 DEF Trusted
  <2>5. QED
    BY <2>1, <2>2, <2>3, <2>4 DEF CommonInv
<1>11. ASSUME OrderInv PROVE OrderInv'
  <2>1. summary = state /\ summary # Killed!NoSummary /\ t # Killed!NoSummary
    <3>1. point \notin Detached \cup Checkpointing
      BY <1>1 DEF Detached, Checkpointing
    <3>2. t # Killed!NoSummary
      BY <1>u, FirstStates
    <3>3. QED
      BY <1>11, <3>1, <3>2 DEF CommonInv, Synced, OrderInv, Numbered
  <2>2. Numbered'
    BY <1>1, <1>u, <1>11, <2>1 DEF OrderInv, Numbered
  <2>3. OwnFiles'
    BY <1>1, <1>11, <2>1 DEF OrderInv, OwnFiles, PendingOnly
  <2>4. Sent'
    BY <1>1, <1>2, <1>5, <1>u, <1>11, <2>1 DEF OrderInv, Sent
  <2>5. Windowed'
    BY <1>1, <1>u, <1>11, <2>1 DEF OrderInv, Windowed, Window, Counted, Detached
  <2>6. QED
    BY <2>2, <2>3, <2>4, <2>5 DEF OrderInv
<1>12. QED
  BY <1>10, <1>11

(* A report is committed to the state. *)
LEMMA CommitStep ==
  ASSUME CommonInv, Killed!CommitReport
  PROVE  CommonInv' /\ (OrderInv => OrderInv')
<1> DEFINE n == state.pendingAction.reportSeq
           g == Killed!Fold(state.gate, state.pendingAction.method, report.verdict)
           k == Killed!Cardinality(Killed!Kept)
           s == [state EXCEPT !.nextActionSeq = @ + 1, !.pendingAction = Killed!NoAction, !.gate = g,
                              !.retention.actions = k]
           entry == [seq |-> n, cycle |-> state.pendingAction.cycle,
                     method |-> state.pendingAction.method, report |-> report]
<1>1. /\ point = "commit" /\ point' = (IF Killed!Valid(s) THEN "after" ELSE "reject")
      /\ state' = s /\ summary' = s
      /\ folded' = Append(folded, entry) /\ report' = Killed!NoReport
      /\ UNCHANGED <<file, temp, failures, at, crashes, reserved, posts, ambiguous, refused,
                     checkpointFiles, uncounted>>
  BY DEF Killed!CommitReport, Killed!Committed, Killed!Persist, Killed!pending
<1>2. /\ point \notin Aside /\ Killed!Pending(state) /\ state.pendingAction.driverOutcome
      /\ n \in 1 .. MaxActions /\ state.nextActionSeq = n /\ state.pendingAction.cycle = n
      /\ state.pendingAction.method \in Killed!Methods
      /\ OrderInv => summary = state /\ n = Len(folded) + 1
  BY <1>1, FinalAction DEF Finalizing
<1>3. state \in Killed!States /\ Killed!CountsAgree(state)
  BY DEF CommonInv, Synced, Sound
<1>t. /\ report \in Killed!Reports /\ folded \in Seq(FoldedReports) /\ MaxActions \in Nat
      /\ reserved \in 0 .. MaxActions /\ ambiguous \subseteq 1 .. reserved
  BY ObserverConstants DEF CommonInv, ObserverTypes
<1>4. g \in [status : {"pending", "green", "failed"}, successful : [Killed!Methods -> Nat],
             confirmedDivergences : Nat]
  <2> DEFINE old == state.gate
             method == state.pendingAction.method
             success == report.verdict = "success"
             diverges == report.verdict = "confirmed-divergence"
             done == IF success THEN [old.successful EXCEPT ![method] = @ + 1] ELSE old.successful
  <2>1. /\ old.status \in {"pending", "green", "failed"}
        /\ old.successful \in [Killed!Methods -> Nat] /\ old.confirmedDivergences \in Nat
    BY <1>3 DEF Killed!States
  <2>2. done \in [Killed!Methods -> Nat]
    <3>1. old.successful[method] + 1 \in Nat
      BY <1>2, <2>1
    <3>2. QED
      BY <2>1, <3>1
  <2>3. old.confirmedDivergences + (IF diverges THEN 1 ELSE 0) \in Nat
    BY <2>1
  <2>4. g = [status |-> IF diverges THEN "failed"
                        ELSE IF /\ success /\ old.status = "pending"
                                /\ \A m \in Killed!Methods : done[m] >= Target
                             THEN "green" ELSE old.status,
             successful |-> done,
             confirmedDivergences |-> old.confirmedDivergences + (IF diverges THEN 1 ELSE 0)]
    BY DEF Killed!Fold
  <2> HIDE DEF g, done, success, diverges, old
  <2>5. QED
    BY <2>1, <2>2, <2>3, <2>4
<1>k. k \in Nat /\ (OrderInv => k <= n)
  <2>1. /\ file \in [1 .. MaxActions -> Killed!Reports]
        /\ Killed!Kept = {m \in 1 .. MaxActions : file[m] # Killed!NoReport}
    BY DEF CommonInv, ObserverTypes, Killed!Kept
  <2>2. ASSUME NEW m \in 1 .. MaxActions, Killed!Kept \subseteq 1 .. m PROVE k \in Nat /\ k <= m
    <3>1. m \in Nat /\ IsFiniteSet(1 .. m) /\ Cardinality(1 .. m) = m
      BY FS_Interval, <1>t
    <3>2. /\ IsFiniteSet(Killed!Kept) /\ Cardinality(Killed!Kept) <= m
          /\ Cardinality(Killed!Kept) \in Nat
      BY <2>2, <3>1, FS_Subset, FS_CardinalityType
    <3>3. QED
      BY <3>2, ObserverCardinality
  <2>3. k \in Nat
    <3>1. MaxActions \in 1 .. MaxActions
      BY <1>2, <1>t
    <3>2. QED
      BY <2>1, <2>2, <3>1
  <2>4. ASSUME OrderInv PROVE k <= n
    <3>1. Killed!Kept \subseteq 1 .. n
      BY <1>2, <1>t, <2>1, <2>4 DEF OrderInv, OwnFiles, PendingOnly
    <3>2. QED
      BY <1>2, <2>2, <3>1
  <2>5. QED
    BY <2>3, <2>4
<1> HIDE DEF g, k
<1>5. /\ s \in Killed!States /\ s.pendingAction = Killed!NoAction /\ s.nextActionSeq = n + 1
      /\ s.nextCycle = state.nextCycle /\ s.nextScheduleSlot = state.nextScheduleSlot
      /\ s.cycles = state.cycles /\ s.connectivitySkips = state.connectivitySkips /\ s.gate = g
      /\ s.checkpoints = state.checkpoints /\ s.retention.actions = k
      /\ s.retention.checkpoints = state.retention.checkpoints
  <2>1. state.nextActionSeq + 1 \in Nat
    BY <1>2
  <2>2. Killed!NoAction \in Killed!Actions
    BY FirstStates
  <2>3. QED
    BY <1>2, <1>3, <1>4, <1>k, <2>1, <2>2 DEF Killed!States
<1>6. PICK t : t = s
  OBVIOUS
<1> HIDE DEF s
<1>7. ~Killed!Pending(t)
  BY <1>5, <1>6 DEF Killed!Pending, Killed!NoAction
<1>8. Sound(t)
  <2>1. Killed!CountsAgree(t)
    BY <1>2, <1>3, <1>5, <1>6, <1>7 DEF Killed!CountsAgree, Killed!ValidPending
  <2>2. QED
    BY <1>5, <1>6, <1>7, <2>1 DEF Sound
<1>u. /\ state' = t /\ summary' = t /\ t.pendingAction = Killed!NoAction
      /\ t.nextActionSeq = n + 1 /\ t.nextCycle = state.nextCycle /\ t.gate = g
      /\ t.checkpoints = state.checkpoints /\ t.retention.actions = k
      /\ t.retention.checkpoints = state.retention.checkpoints
  BY <1>1, <1>5, <1>6
<1>e. /\ entry \in FoldedReports /\ entry.report = report /\ entry.seq = n /\ entry.cycle = n
  BY <1>2, <1>t DEF FoldedReports
<1>s. folded' = Append(folded, entry)
  BY <1>1
<1>p. /\ point' \in {"after", "reject"}
      /\ point' = "reject" /\ k <= n => ~(state.retention.checkpoints <= state.checkpoints)
  <2>1. Killed!CountsAgree(t) /\ (k <= n => k < n + 1)
    BY <1>2, <1>8, <1>k DEF Sound
  <2>2. QED
    BY <1>1, <1>6, <1>u, <2>1 DEF Killed!Valid, Killed!RetentionFits
<1> HIDE DEF n, entry
<1>f. /\ folded' \in Seq(FoldedReports) /\ Len(folded') = Len(folded) + 1 /\ Len(folded) \in Nat
      /\ DOMAIN folded = 1 .. Len(folded) /\ DOMAIN folded' = 1 .. Len(folded')
      /\ \A i \in DOMAIN folded : folded'[i] = folded[i]
      /\ folded'[Len(folded) + 1] = entry
  BY <1>e, <1>s, <1>t
<1>g. state.gate = Killed!GateOf(folded) => g = Killed!GateOf(folded')
  BY <1>2, <1>3, <1>t, <1>s, <1>e, FoldIsGateOf DEF g, entry
<1>i. \A i \in DOMAIN folded' : i \in DOMAIN folded \/ i = Len(folded) + 1
  BY <1>f
<1>10. CommonInv'
  <2>1. ObserverTypes'
    <3>1. Killed!NoReport \in Killed!Reports
      BY <1>t DEF Killed!NoReport, Killed!Reports
    <3>2. QED
      BY <1>1, <1>f, <1>p, <3>1 DEF CommonInv, ObserverTypes, Killed!Points
  <2>2. Synced'
    BY <1>1, <1>8, <1>p, <1>u DEF Synced, Detached, Checkpointing, Sound
  <2>3. Shape(point, state, at)' /\ Durable(point, state.pendingAction.reportSeq, report)'
    BY <1>p DEF Shape, Durable, Driving, Finalizing
  <2>4. Trusted'
    <3>1. Doubted(state)' /\ Doubted(summary)'
      BY <1>1, <1>7, <1>u DEF Doubted
    <3>2. \A r : Past(r, state') /\ Past(r, summary')
      BY <1>7, <1>u DEF Past
    <3>3. /\ \A m \in 1 .. MaxActions : Told(file[m]) /\ Told(temp[m])
          /\ Told(report) /\ \A i \in DOMAIN folded : Told(folded[i].report)
      BY DEF CommonInv, Trusted, Reported
    <3>4. \A i \in DOMAIN folded' : Told(folded'[i].report)
      BY <1>e, <1>f, <1>i, <3>3
    <3>5. Killed!NoReport.reservation <= reserved /\ Killed!NoReport.reservation \notin ambiguous
      BY <1>t DEF Killed!NoReport
    <3>6. Reported'
      BY <1>1, <3>2, <3>3, <3>4, <3>5 DEF Reported, Told, Past
    <3>7. QED
      BY <1>p, <3>1, <3>6 DEF Trusted
  <2>5. QED
    BY <2>1, <2>2, <2>3, <2>4 DEF CommonInv
<1>11. ASSUME OrderInv PROVE OrderInv'
  <2>1. /\ summary = state /\ n = Len(folded) + 1 /\ t # Killed!NoSummary
        /\ summary # Killed!NoSummary
    BY <1>2, <1>8, <1>11, SummaryMissing DEF OrderInv, Numbered, n, Aside
  <2>2. Numbered'
    <3>1. \A i \in DOMAIN folded' : folded'[i].seq = i /\ folded'[i].cycle = i
      BY <1>e, <1>f, <1>i, <1>11, <2>1 DEF OrderInv, Numbered
    <3>2. file[n] = report
      BY <1>1 DEF CommonInv, Durable, n
    <3>3. ASSUME NEW m \in 1 .. MaxActions, m <= Len(folded')
          PROVE  file[m] \in {Killed!NoReport, folded'[m].report}
      <4>1. CASE m = Len(folded) + 1
        BY <1>e, <1>f, <2>1, <3>2, <4>1
      <4>2. CASE m # Len(folded) + 1
        <5>1. m \in DOMAIN folded /\ m <= Len(folded)
          BY <1>f, <3>3, <4>2
        <5>2. QED
          BY <1>f, <1>11, <5>1 DEF OrderInv, Numbered
      <4>3. QED
        BY <4>1, <4>2
    <3>4. "report" \notin refused' /\ file' = file /\ summary' # Killed!NoSummary
          /\ summary'.nextActionSeq = Len(folded') + 1
          /\ summary'.gate = Killed!GateOf(folded')
      BY <1>1, <1>f, <1>g, <1>u, <1>11, <2>1 DEF OrderInv, Numbered
    <3>5. QED
      BY <3>1, <3>3, <3>4 DEF Numbered
  <2>3. OwnFiles'
    <3>1. ASSUME NEW m \in 1 .. MaxActions, m > Len(folded')
          PROVE  file[m] = Killed!NoReport /\ temp[m] = Killed!NoReport
      <4>1. m > Len(folded) /\ m # Len(folded) + 1
        BY <1>f, <3>1
      <4>2. QED
        BY <1>11, <4>1 DEF OrderInv, OwnFiles, PendingOnly
    <3>2. QED
      BY <1>1, <3>1 DEF OwnFiles, PendingOnly
  <2>4. Sent'
    <3>1. Killed!NoAction.cycle = 0
      BY DEF Killed!NoAction
    <3>2. QED
      BY <1>1, <1>p, <1>u, <1>11, <2>1, <3>1 DEF OrderInv, Sent
  <2>5. Windowed'
    <3>1. Window(t) /\ k <= n
      BY <1>2, <1>k, <1>u, <1>11 DEF Window, n
    <3>2. /\ uncounted \/ (state.retention.checkpoints <= state.checkpoints
                           /\ Counted(state, 0))
          /\ "state" \in refused => uncounted
      BY <1>1, <1>2, <1>11 DEF OrderInv, Windowed, Counted, Aside
    <3>3. point' = "reject" => uncounted
      BY <1>p, <3>1, <3>2
    <3>4. QED
      BY <1>1, <1>p, <1>u, <3>1, <3>2, <3>3 DEF Windowed, Window, Counted, Detached
  <2>6. QED
    BY <2>2, <2>3, <2>4, <2>5 DEF OrderInv
<1>12. QED
  BY <1>10, <1>11

(* The four steps that only an observer whose files are torn or lost takes. *)
LEMMA TornSteps ==
  ASSUME CommonInv,
         \/ Torn!CheckpointFails \/ Torn!CheckpointRaises \/ Torn!CrashInWrite
         \/ Torn!SummaryLost
  PROVE  CommonInv'
<1>t. /\ file \in [1 .. MaxActions -> Killed!Reports]
      /\ temp \in [1 .. MaxActions -> Killed!Reports]
      /\ crashes \in 0 .. (MaxKills + 1) /\ MaxKills \in Nat
      /\ refused \subseteq {"report", "state"} /\ checkpointFiles \in 0 .. RetainedCheckpoints
      /\ failures \in 0 .. CheckpointThreshold /\ CheckpointThreshold \in Nat
      /\ at \in Killed!Clients /\ posts \in [1 .. MaxActions -> [Killed!Clients -> Nat]]
  BY ObserverConstants DEF CommonInv, ObserverTypes
<1>g. Torn!Gone => Killed!Gone
  BY DEF Torn!Gone, Torn!NewState, Torn!NoAction, Torn!NewClient, Torn!Clients,
     Torn!Methods, Torn!NoReport, Killed!Gone, Killed!NewState, Killed!NoAction,
     Killed!NewClient, Killed!Clients, Killed!Methods, Killed!NoReport
<1>n. Torn!NoSummary = Killed!NoSummary /\ Torn!TornReport = Killed!TornReport
  BY DEF Torn!NoSummary, Torn!NewState, Torn!NoAction, Torn!NewClient, Torn!Clients,
     Torn!Methods, Torn!TornReport, Killed!NoSummary, Killed!NewState, Killed!NoAction,
     Killed!NewClient, Killed!Clients, Killed!Methods, Killed!TornReport
<1>r. Torn!Recorded = Killed!Recorded
  BY DEF Torn!Recorded, Torn!Min, Killed!Recorded, Killed!Min
<1>c. point \in {"checkpoint", "count"} => point \in Checkpointing
  BY DEF Checkpointing
<1>1. CASE Torn!CheckpointFails
  <2>1. /\ point \in {"checkpoint", "count"} /\ point' = "due"
        /\ failures + 1 < CheckpointThreshold /\ failures' = failures + 1
        /\ summary' \in {summary, Killed!Recorded, Killed!NoSummary}
        /\ uncounted' = (uncounted \/ checkpointFiles > state.checkpoints)
        /\ UNCHANGED <<state, file, temp, report, at, crashes, reserved, posts, ambiguous,
                       folded, refused, checkpointFiles>>
    BY <1>1, <1>n, <1>r DEF Torn!CheckpointFails, Torn!FailedCheckpoint
  <2>2. failures' \in 0 .. CheckpointThreshold /\ uncounted' \in BOOLEAN
    BY <1>t, <2>1
  <2>3. point' \in Checkpointing
    BY <2>1 DEF Checkpointing
  <2>4. QED
    BY <1>c, <1>t, <2>1, <2>2, <2>3, CheckpointKeeps
<1>2. CASE Torn!CheckpointRaises
  <2>1. /\ point \in {"checkpoint", "count"} /\ Killed!Gone
        /\ summary' \in {summary, Killed!Recorded, Killed!NoSummary}
        /\ UNCHANGED <<file, temp, crashes, reserved, posts, folded, refused, checkpointFiles>>
    BY <1>2, <1>g, <1>n, <1>r DEF Torn!CheckpointRaises, Torn!FailedCheckpoint
  <2>2. QED
    BY <1>c, <1>t, <2>1, GoneKeeps
<1>3. CASE Torn!CrashInWrite
  <2>1. /\ Killed!Gone /\ crashes < MaxKills /\ crashes' = crashes + 1
        /\ temp' = [temp EXCEPT ![state.pendingAction.reportSeq] = Killed!TornReport]
        /\ UNCHANGED <<summary, file, reserved, posts, folded, refused, checkpointFiles>>
    BY <1>3, <1>g, <1>n DEF Torn!CrashInWrite, Torn!pending
  <2>2. crashes' \in 0 .. (MaxKills + 1)
    BY <1>t, <2>1
  <2>3. Killed!TornReport \in Killed!Reports
    BY ObserverConstants DEF Killed!TornReport, Killed!Reports
  <2>4. /\ temp' \in [1 .. MaxActions -> Killed!Reports]
        /\ \A m \in 1 .. MaxActions : temp'[m] \in {temp[m], Killed!TornReport}
    BY <1>t, <2>1, <2>3
  <2>5. QED
    BY <1>t, <2>1, <2>2, <2>4, GoneKeeps
<1>4. CASE Torn!SummaryLost
  <2>1. /\ Killed!Gone /\ crashes < MaxKills /\ crashes' = crashes + 1
        /\ summary' = Killed!NoSummary
        /\ UNCHANGED <<file, temp, reserved, posts, folded, refused, checkpointFiles>>
    BY <1>4, <1>g, <1>n DEF Torn!SummaryLost
  <2>2. crashes' \in 0 .. (MaxKills + 1)
    BY <1>t, <2>1
  <2>3. QED
    BY <1>t, <2>1, <2>2, GoneKeeps
<1>5. QED
  BY <1>1, <1>3, <1>4, <1>2

(* Every step of an observer that is killed keeps its invariant. *)
LEMMA KilledStep ==
  ASSUME CommonInv, Killed!Next
  PROVE  CommonInv' /\ (OrderInv => OrderInv')
<1>1. ~Killed!CrashInWrite /\ ~Killed!SummaryLost
  BY DEF Killed!CrashInWrite, Killed!SummaryLost
<1>2. CASE Killed!EndTurn
  BY <1>2, PointSteps, LoopSteps
<1>3. QED
  BY <1>1, <1>2, PointSteps, LoopSteps, RecoverStep, CompleteStep, ExpireStep,
     AnswerStep, ClientsStep, OutcomeSteps, TickStep, CheckpointSteps, BeginStep,
     PostStep, FindStep, StoreReportSteps, GoneSteps, LoadStep, ReserveStep, CommitStep
     DEF Killed!Next, Killed!Observer

LEMMA ObserverInit ==
  ASSUME Killed!Init
  PROVE  ObserverInv
<1>1. /\ state = Killed!NewState /\ summary = Killed!NoSummary
      /\ file = [n \in 1 .. MaxActions |-> Killed!NoReport] /\ temp = file
      /\ report = Killed!NoReport /\ failures = 0 /\ point = "down" /\ at = "rust" /\ crashes = 0
      /\ reserved = 0 /\ posts = [n \in 1 .. MaxActions |-> [c \in Killed!Clients |-> 0]]
      /\ ambiguous = {} /\ folded = <<>> /\ refused = {} /\ checkpointFiles = 0
      /\ uncounted = FALSE
  BY DEF Killed!Init
<1>2. ObserverTypes
  <2>1. Killed!NoReport \in Killed!Reports /\ "down" \in Killed!Points /\ "rust" \in Killed!Clients
    BY ObserverConstants DEF Killed!NoReport, Killed!Reports, Killed!Points,
       Killed!Clients
  <2>2. folded \in Seq(FoldedReports)
    BY <1>1
  <2>3. failures \in 0 .. CheckpointThreshold /\ crashes \in 0 .. (MaxKills + 1)
        /\ reserved \in 0 .. MaxActions
    BY <1>1, ObserverConstants
  <2>4. /\ file \in [1 .. MaxActions -> Killed!Reports] /\ temp \in [1 .. MaxActions -> Killed!Reports]
        /\ report \in Killed!Reports
    BY <1>1, <2>1
  <2>5. posts \in [1 .. MaxActions -> [Killed!Clients -> Nat]]
    BY <1>1
  <2>6. /\ ambiguous \subseteq 1 .. reserved /\ refused \subseteq {"report", "state"}
        /\ uncounted \in BOOLEAN /\ checkpointFiles \in 0 .. RetainedCheckpoints
    <3>1. ambiguous \subseteq 1 .. reserved /\ refused \subseteq {"report", "state"}
      BY <1>1
    <3>2. uncounted \in BOOLEAN
      BY <1>1
    <3>3. 0 \in 0 .. RetainedCheckpoints
      BY ObserverConstants
    <3>4. QED
      BY <1>1, <3>1, <3>2, <3>3
  <2>7. QED
    BY <1>1, <2>1, <2>2, <2>3, <2>4, <2>5, <2>6 DEF ObserverTypes
<1>3. Synced
  BY <1>1, FirstStates DEF Synced, Detached, Checkpointing
<1>4. Shape(point, state, at) /\ Durable(point, state.pendingAction.reportSeq, report)
  BY <1>1 DEF Shape, Durable, Driving, Finalizing
<1>5. Trusted
  <2>1. Told(Killed!NoReport)
    BY <1>1, FirstStates DEF Told, Past, Killed!NoReport
  <2>2. \A n \in 1 .. MaxActions : file[n] = Killed!NoReport /\ temp[n] = Killed!NoReport
    BY <1>1
  <2>3. DOMAIN folded = {}
    BY <1>1
  <2>4. QED
    BY <1>1, <2>1, <2>2, <2>3, FirstStates DEF Trusted, Doubted, Reported
<1>6. OrderInv
  <2>1. Len(folded) = 0 /\ DOMAIN folded = {}
    BY <1>1
  <2>2. \A n \in 1 .. MaxActions : file[n] = Killed!NoReport /\ temp[n] = Killed!NoReport
    BY <1>1
  <2>3. Numbered
    BY <1>1, <2>1, <2>2 DEF Numbered, Detached
  <2>4. OwnFiles
    BY <2>2 DEF OwnFiles, PendingOnly
  <2>5. Sent
    BY <1>1 DEF Sent
  <2>6. Windowed
    BY <1>1, FirstStates DEF Windowed, Window, Counted, Detached
  <2>7. QED
    BY <2>3, <2>4, <2>5, <2>6 DEF OrderInv
<1>7. QED
  BY <1>2, <1>3, <1>4, <1>5, <1>6 DEF ObserverInv, CommonInv

(* A step of the whole that moves the observer is one of its scope's. *)
LEMMA ObserverScope ==
  ASSUME [AttendantsNext]_allVars
  PROVE  /\ scope' = scope
         /\ \/ UNCHANGED observerVars
            \/ scope = "killed" /\ Killed!Next
            \/ scope = "torn" /\ Torn!Next
BY DEF AttendantsNext, allVars

LEMMA ObserverStep ==
  ASSUME ObserverInv, [AttendantsNext]_allVars
  PROVE  ObserverInv'
<1>1. CASE UNCHANGED observerVars
  <2>1. UNCHANGED <<scope, state, summary, file, temp, report, failures, point, at, crashes,
                    reserved, posts, ambiguous, folded, refused, checkpointFiles, uncounted>>
    BY <1>1, ObserverScope DEF observerVars
  <2>2. CommonInv'
    BY <2>1 DEF ObserverInv, CommonInv, ObserverTypes, Synced, Sound, Shape, Durable,
       Trusted, Doubted, Reported, Told, Past
  <2>3. OrderInv => OrderInv'
    BY <2>1 DEF OrderInv, Numbered, OwnFiles, PendingOnly, Sent, Unsent, Windowed,
       Window, Counted
  <2>4. QED
    BY <2>1, <2>2, <2>3 DEF ObserverInv
<1>2. CASE scope = "killed" /\ Killed!Next
  BY <1>2, KilledStep, ObserverScope DEF ObserverInv
<1>3. CASE scope = "torn" /\ Torn!Next
  <2>1. crashes \in 0 .. (MaxKills + 1) /\ MaxKills \in Nat
    BY ObserverConstants DEF ObserverInv, CommonInv, ObserverTypes
  <2>2. crashes \in Nat
    BY <2>1
  <2>3. CommonInv'
    BY <1>3, <2>1, <2>2, TornIsKilled, TornSteps, KilledStep DEF ObserverInv
  <2>4. QED
    BY <1>3, <2>3, ObserverScope DEF ObserverInv
<1>4. QED
  BY <1>1, <1>2, <1>3, ObserverScope

(* The cycles, reports and pending action of the summary on disk pass the      *)
(* observer's own validation, an action interrupted in doubt does not count    *)
(* for the gate, and, as long as no file is torn or lost, the gate is the one  *)
(* that the reports on disk make, each counted once (so it is green only with  *)
(* a full target of successes for both methods and no divergence), no client   *)
(* is asked twice to create a cycle's search, and the next observer refuses    *)
(* nothing that an interrupted one left, the summary included, unless an       *)
(* attempt at a checkpoint, killed or failed, left one on disk that the state  *)
(* does not count (capture_checkpoint, capture_action_cycle,                   *)
(* finalize_pending_action, _fold_parity_gate).                                *)
THEOREM ObserverKeepsTruth == AttendantsSpec => []ObserverSound
<1>1. AttendantsInit => ObserverInv
  BY PartsInit, ObserverInit
<1>2. ObserverInv /\ [AttendantsNext]_allVars => ObserverInv'
  BY ObserverStep
<1>3. ObserverInv => ObserverSound
  <2> SUFFICES ASSUME ObserverInv PROVE ObserverSound
    OBVIOUS
  <2>1. CommonInv
    BY DEF ObserverInv
  <2>2. Killed!CountsValid
    BY <2>1 DEF CommonInv, Synced, Sound, Killed!CountsValid
  <2>3. Killed!InterruptedNotCounted
    BY <2>1 DEF CommonInv, Trusted, Reported, Told, Killed!InterruptedNotCounted
  <2>4. Killed!TypeOK
    <3>1. state \in Killed!States /\ summary \in Killed!States
      BY <2>1, FirstStates DEF CommonInv, Synced, Sound
    <3>2. ambiguous \subseteq 1 .. MaxActions
      BY <2>1, ObserverConstants DEF CommonInv, ObserverTypes
    <3>3. QED
      BY <2>1, <3>1, <3>2 DEF CommonInv, ObserverTypes, FoldedReports, Killed!TypeOK
  <2>5. ASSUME OrderInv
        PROVE  /\ Killed!GateFromReports /\ Killed!AtMostOnePost
               /\ Killed!SummaryValid /\ Killed!RecoversOwnFiles
    <3>1. /\ file \in [1 .. MaxActions -> Killed!Reports] /\ folded \in Seq(FoldedReports)
          /\ Len(folded) \in Nat /\ DOMAIN folded = 1 .. Len(folded)
      BY <2>1 DEF CommonInv, ObserverTypes
    <3>2. ASSUME NEW n \in Killed!Kept
          PROVE  \/ n \in DOMAIN folded /\ file[n] = folded[n].report
                 \/ n = Len(folded) + 1 /\ summary.pendingAction.reportSeq = n
      <4>1. n \in 1 .. MaxActions /\ file[n] # Killed!NoReport
        BY <3>1, <3>2 DEF Killed!Kept
      <4>2. CASE n <= Len(folded)
        BY <2>5, <3>1, <4>1, <4>2 DEF OrderInv, Numbered
      <4>3. CASE n > Len(folded)
        <5>1. n = Len(folded) + 1 /\ Killed!Pending(summary)
          BY <2>5, <4>1, <4>3 DEF OrderInv, OwnFiles, PendingOnly
        <5>2. summary # Killed!NoSummary /\ Killed!CountsAgree(summary)
          BY <2>1, <5>1, FirstStates DEF CommonInv, Synced, Sound
        <5>3. summary.pendingAction.reportSeq = summary.nextActionSeq
          BY <5>1, <5>2 DEF Killed!CountsAgree, Killed!ValidPending
        <5>4. QED
          BY <2>5, <5>1, <5>2, <5>3 DEF OrderInv, Numbered
      <4>4. QED
        BY <3>1, <4>1, <4>2, <4>3
    <3>3. Killed!GateFromReports
      BY <2>5, <3>2 DEF OrderInv, Numbered, Killed!GateFromReports
    <3>4. Killed!RecoversOwnFiles /\ Killed!AtMostOnePost
      BY <2>5 DEF OrderInv, Numbered, Sent, Windowed, Killed!RecoversOwnFiles,
         Killed!AtMostOnePost
    <3>5. Killed!SummaryValid
      BY <2>1, <2>5 DEF OrderInv, Windowed, Window, CommonInv, Synced, Sound,
         Killed!SummaryValid, Killed!Valid, Killed!RetentionFits
    <3>6. QED
      BY <3>3, <3>4, <3>5
  <2>6. QED
    BY <2>2, <2>3, <2>4, <2>5 DEF ObserverInv, ObserverSound
<1>4. QED
  BY <1>1, <1>2, <1>3, PTL DEF AttendantsSpec
===============================================================================
