-------------------------- MODULE DiagnosticEvidence --------------------------
(* The diagnostic index of one client of a soak campaign and the raw segments  *)
(* it pins as evidence.  A round (advance_diagnostic_indexes while the writer  *)
(* runs, finalize_diagnostic_indexes once it stopped) loads the checkpoint,    *)
(* indexes the newly closed segments, recovers the pin directory, copies the   *)
(* segments worth keeping into it, and replaces the checkpoint.  Every         *)
(* file-system change is a step of its own, and the round may raise or its     *)
(* process may die between any two of them.                                    *)
(*                                                                             *)
(* A segment is its number: its file name is fixed by the run and the number.  *)
(* Why a segment is interesting is recorded in its metadata when it is         *)
(* indexed, so a segment's priority never changes.                             *)
EXTENDS Integers, FiniteSets

CONSTANTS MaxSegment,   \* bound: highest segment number the writer reaches
          Retained,     \* retained_segments of the diagnostic_pins stream
          Kinds         \* priorities of interesting segments; 0: not interesting

ASSUME BoundsAssumption == MaxSegment \in Nat /\ Retained \in Nat \ {0}
ASSUME KindsAssumption == Kinds \subseteq {0, 250, 300, 400} /\ Kinds # {}

Segment == 0 .. MaxSegment
None == -1

VARIABLES active, low, writerUp, kind,       \* the client's writer
          ckpt, files, swaps, tmp,           \* durable: checkpoint, pin directory
          pc, health, next, pins, queue, cand, victim, pending, deleted

writer == <<active, low, writerUp, kind>>
disk   == <<ckpt, files, swaps, tmp>>
round  == <<pins, queue, cand, victim, pending, deleted>>
vars   == <<writer, disk, round, pc, health, next>>

-------------------------------------------------------------------------------
(* Ranking and choice of the segments to pin. *)

Priority(s) == IF kind[s] = 0 THEN 100 ELSE kind[s]

Outranks(s, t) == \/ Priority(s) > Priority(t)
                  \/ Priority(s) = Priority(t) /\ s > t

First(S) == CHOOSE s \in S : \A t \in S : s <= t
LowestIsOldest(S) == First(S)
Lowest(S) == CHOOSE s \in S : \A t \in S \ {s} : Outranks(t, s)

(* The Retained highest-ranked members of S. *)
TopRanked(S) == {s \in S : Cardinality({t \in S : Outranks(t, s)}) < Retained}

(* Interesting segments, the one before and the one after each of them.  The   *)
(* predecessor may be the last segment of the checkpoint, the successor's      *)
(* signal may already be pinned.                                               *)
PinCandidates(processed, pinned, priorLast) ==
  LET signals == {s \in processed : kind[s] # 0}
      known   == processed \cup ({priorLast} \cap Segment)
      signalPins == {p \in pinned : Priority(p) >= 200} \cup signals
  IN  signals \cup {s \in known : s + 1 \in signals}
              \cup {s \in processed : s - 1 \in signalPins}

(* Checkpoint loaded when no file exists. *)
NewIndex == [exists |-> FALSE, active |-> None, first |-> None, last |-> None,
             count |-> 0, indexed |-> {}, finalized |-> FALSE, pins |-> {}]

OnDisk == low .. active

(* What a round still has to index, for a live and for a stopped writer. *)
NewClosed == {s \in OnDisk : s < health /\ s > ckpt.last}
NewFinal  == {s \in OnDisk : s > ckpt.last}

ClosedSuffixUnchecked ==
  ~ckpt.finalized /\ health >= ckpt.active /\ ckpt.last < health

ClosedSuffixComplete ==
  /\ ~ckpt.finalized
  /\ health >= ckpt.active
  /\ IF ckpt.last = None
     THEN \/ health = 0
          \/ NewClosed # {} /\ NewClosed = First(NewClosed) .. health - 1
     ELSE ckpt.last < health /\ NewClosed = ckpt.last + 1 .. health - 1

FinalSuffixComplete ==
  LET observed == IF ckpt.active # None THEN ckpt.active ELSE health
      from == IF ckpt.last = None THEN First(NewFinal) ELSE ckpt.last + 1
  IN  /\ ckpt.exists \/ health # None
      /\ NewFinal # {}
      /\ active >= observed
      /\ NewFinal = from .. active

(* _advance_segments: the checkpoint after aggregating the segments in S. *)
Advance(S, newActive, done) ==
  [exists    |-> TRUE,
   active    |-> newActive,
   first     |-> IF ckpt.first = None /\ S # {} THEN First(S) ELSE ckpt.first,
   last      |-> IF S = {} THEN ckpt.last ELSE CHOOSE s \in S : \A t \in S : t <= s,
   count     |-> ckpt.count + Cardinality(S),
   indexed   |-> ckpt.indexed \cup S,
   finalized |-> done,
   pins      |-> ckpt.pins]

-------------------------------------------------------------------------------
(* The writer: rotates to a new segment, its own retention removes the oldest  *)
(* closed one, it stops for good.                                              *)

WriterRotate ==
  /\ writerUp /\ active < MaxSegment
  /\ active' = active + 1
  /\ UNCHANGED <<low, writerUp, kind, disk, round, pc, health, next>>

WriterPrune ==
  /\ writerUp /\ low < active
  /\ low' = low + 1
  /\ UNCHANGED <<active, writerUp, kind, disk, round, pc, health, next>>

WriterStop ==
  /\ writerUp
  /\ writerUp' = FALSE
  /\ UNCHANGED <<active, low, kind, disk, round, pc, health, next>>

-------------------------------------------------------------------------------
(* An exception or the death of the process: local state is lost, the disk     *)
(* stays as it is.                                                             *)
Abort ==
  /\ pc' = "idle"
  /\ pins' = {} /\ queue' = {} /\ pending' = {} /\ deleted' = {}
  /\ cand' = None /\ victim' = None
  /\ next' = NewIndex

Crash ==
  /\ pc # "idle"
  /\ Abort
  /\ UNCHANGED <<writer, disk, health>>

(* The watcher reads the writer's health: what it says of the active segment   *)
(* may be old by the time the segments are listed.                             *)
ReadHealth ==
  /\ pc = "idle" /\ writerUp
  /\ health' = active
  /\ pc' = "scan"
  /\ UNCHANGED <<writer, disk, round, next>>

(* Stop runs the finalization only after the writers and the watcher ended. *)
BeginFinalize ==
  /\ pc = "idle" /\ ~writerUp
  /\ pc' = "finalize"
  /\ UNCHANGED <<writer, disk, round, health, next>>

(* The round's new index, pins of the checkpoint still to be recovered. *)
Start(checkpoint) ==
  /\ next' = checkpoint
  /\ pins' = checkpoint.pins
  /\ queue' = checkpoint.indexed \ ckpt.indexed
  /\ pc' = "recover"
  /\ UNCHANGED <<writer, disk, health, cand, victim, pending, deleted>>

ScanClosedSegments ==
  /\ pc = "scan" /\ ClosedSuffixComplete
  /\ Start(Advance(NewClosed, health, FALSE))

FinalizeStoppedRun ==
  /\ pc = "finalize"
  /\ IF ckpt.finalized THEN Start(ckpt)
     ELSE FinalSuffixComplete /\ Start(Advance(NewFinal, None, TRUE))

ScanRaises ==
  /\ \/ pc = "scan" /\ ~ClosedSuffixComplete
     \/ pc = "finalize" /\ ~ckpt.finalized /\ ~FinalSuffixComplete
  /\ Abort
  /\ UNCHANGED <<writer, disk, health>>

RecoverDropsSwap ==
  /\ pc = "recover" /\ swaps # {}
  /\ swaps' = {}
  /\ UNCHANGED <<writer, ckpt, files, tmp, round, pc, health, next>>

(* _recover_diagnostic_evidence_pin_swaps: a swap backup of a manifest pin is  *)
(* put back, any other is deleted; then every entry outside the manifest goes. *)
RecoverSwap ==
  /\ pc = "recover" /\ swaps # {}
  /\ LET s == First(swaps) IN
     IF s \in next.pins /\ s \in files
     THEN Abort /\ UNCHANGED <<writer, disk, health>>
     ELSE /\ swaps' = swaps \ {s}
          /\ files' = files \cup ({s} \cap next.pins)
          /\ UNCHANGED <<writer, ckpt, tmp, round, pc, health, next>>

RecoverSweep ==
  /\ pc = "recover" /\ swaps = {}
  /\ \/ /\ tmp # None
        /\ tmp' = None
        /\ UNCHANGED files
     \/ /\ \E f \in files \ next.pins : files' = files \ {f}
        /\ UNCHANGED tmp
  /\ UNCHANGED <<writer, ckpt, swaps, round, pc, health, next>>

(* _validated_evidence_pins, then the choice of the segments to pin. *)
SelectCandidates ==
  /\ pc = "recover" /\ swaps = {} /\ tmp = None /\ files \subseteq next.pins
  /\ IF files # pins \/ Cardinality(pins) > Retained
     THEN Abort /\ UNCHANGED <<writer, disk, health>>
     ELSE LET new == PinCandidates(queue, pins, ckpt.last) \ pins
          IN  /\ queue' = new \cap TopRanked(pins \cup new)
              /\ pc' = "pick"
              /\ UNCHANGED <<writer, disk, health, next, pins, cand, victim,
                             pending, deleted>>

-------------------------------------------------------------------------------
(* One candidate after another, oldest segment first. *)

SkipsMissing(c) ==
  \/ c \notin OnDisk
  \/ Cardinality(pins) >= Retained /\ ~Outranks(c, Lowest(pins))

Skips(c) ==
  \/ c \notin OnDisk /\ Priority(c) < 200
  \/ Cardinality(pins) >= Retained /\ ~Outranks(c, Lowest(pins))

SkipCandidate ==
  /\ pc = "pick" /\ queue # {}
  /\ Skips(First(queue))
  /\ queue' = queue \ {First(queue)}
  /\ UNCHANGED <<writer, disk, health, next, pins, cand, victim, pending,
                 deleted, pc>>

PickKeepingVictimFile ==
  /\ pc = "pick" /\ queue # {}
  /\ ~Skips(First(queue))
  /\ cand' = First(queue)
  /\ victim' = IF Cardinality(pins) < Retained THEN None ELSE Lowest(pins)
  /\ swaps' = swaps \cup ({victim'} \cap Segment)
  /\ queue' = queue \ {First(queue)}
  /\ pc' = "copy"
  /\ UNCHANGED <<writer, ckpt, files, tmp, health, next, pins, pending, deleted>>

PickOffByOne ==
  /\ pc = "pick" /\ queue # {}
  /\ ~Skips(First(queue))
  /\ LET V == IF Cardinality(pins) <= Retained THEN {} ELSE {Lowest(pins)}
     IN  /\ cand' = First(queue)
         /\ victim' = IF V = {} THEN None ELSE Lowest(pins)
         /\ files' = files \ V
         /\ swaps' = swaps \cup V
  /\ queue' = queue \ {First(queue)}
  /\ pc' = "copy"
  /\ UNCHANGED <<writer, ckpt, tmp, health, next, pins, pending, deleted>>

(* A full pin set gives up its lowest-ranked pin: the file is moved aside. *)
PickCandidate ==
  /\ pc = "pick" /\ queue # {}
  /\ ~Skips(First(queue))
  /\ IF Cardinality(pins) >= Retained /\ Lowest(pins) \in swaps
     THEN Abort /\ UNCHANGED <<writer, disk, health>>
     ELSE LET V == IF Cardinality(pins) < Retained THEN {} ELSE {Lowest(pins)}
          IN  /\ cand' = First(queue)
              /\ victim' = IF V = {} THEN None ELSE Lowest(pins)
              /\ files' = files \ V
              /\ swaps' = swaps \cup V
              /\ queue' = queue \ {First(queue)}
              /\ pc' = "copy"
              /\ UNCHANGED <<writer, ckpt, tmp, health, next, pins, pending,
                             deleted>>

(* persist_bounded_file_artifact: copy to a temporary, then publish it. *)
CopyToTemporary ==
  /\ pc = "copy" /\ tmp = None
  /\ cand \in OnDisk /\ cand \notin files
  /\ tmp' = cand
  /\ pc' = "publish"
  /\ UNCHANGED <<writer, ckpt, files, swaps, health, next, round>>

(* Publishing first unlinks the oldest files of a directory at its limit. *)
PublishCopy ==
  /\ pc = "publish"
  /\ \E D \in SUBSET files :
       /\ Cardinality(D) = IF Cardinality(files) < Retained THEN 0
                           ELSE Cardinality(files) - Retained + 1
       /\ deleted' = D
       /\ files' = (files \ D) \cup {cand}
  /\ tmp' = None
  /\ pc' = "verify"
  /\ UNCHANGED <<writer, ckpt, swaps, health, next, pins, queue, cand, victim,
                 pending>>

AcceptDropsBackup ==
  /\ pc = "verify" /\ deleted = {}
  /\ pins' = (pins \ {victim}) \cup {cand}
  /\ swaps' = swaps \ {victim}
  /\ cand' = None /\ victim' = None
  /\ pc' = "pick"
  /\ UNCHANGED <<writer, ckpt, files, tmp, health, next, queue, pending, deleted>>

AcceptPin ==
  /\ pc = "verify" /\ deleted = {}
  /\ pins' = (pins \ {victim}) \cup {cand}
  /\ pending' = pending \cup ({victim} \cap Segment)
  /\ cand' = None /\ victim' = None
  /\ pc' = "pick"
  /\ UNCHANGED <<writer, disk, health, next, queue, deleted>>

(* Any exception of the copy: a missing or changed source, no space, a         *)
(* post-publication check, a deleted artifact.  The handler of the copy        *)
(* removes its temporary, the caller unlinks the candidate.                    *)
CopyRaises ==
  /\ pc \in {"copy", "publish", "verify"}
  /\ tmp' = IF pc = "publish" THEN None ELSE tmp
  /\ files' = files \ {cand}
  /\ pc' = "restore"
  /\ UNCHANGED <<writer, ckpt, swaps, health, next, round>>

RestoreUnchecked ==
  /\ pc = "restore"
  /\ files' = files \cup {victim}
  /\ swaps' = swaps \ {victim}
  /\ Abort
  /\ UNCHANGED <<writer, ckpt, tmp, health>>

RestoreVictim ==
  /\ pc = "restore"
  /\ files' = files \cup ({victim} \cap Segment)
  /\ swaps' = swaps \ {victim}
  /\ Abort
  /\ UNCHANGED <<writer, ckpt, tmp, health>>

-------------------------------------------------------------------------------
(* persist_bounded_json_checkpoint, then the deletion of the swap backups. *)

ReplaceCheckpoint ==
  /\ pc = "pick" /\ queue = {}
  /\ ckpt' = [next EXCEPT !.pins = pins]
  /\ pc' = "replaced"
  /\ UNCHANGED <<writer, files, swaps, tmp, health, next, round>>

(* The published file does not read back as written: it is unlinked. *)
CheckpointVerificationFails ==
  /\ pc = "replaced"
  /\ ckpt' = NewIndex
  /\ Abort
  /\ UNCHANGED <<writer, files, swaps, tmp, health>>

CheckpointVerified ==
  /\ pc = "replaced"
  /\ pc' = "cleanup"
  /\ UNCHANGED <<writer, disk, health, next, round>>

CleanSwap ==
  /\ pc = "cleanup" /\ pending # {}
  /\ LET v == First(pending) IN
     IF v \in swaps
     THEN /\ swaps' = swaps \ {v}
          /\ pending' = pending \ {v}
          /\ UNCHANGED <<writer, ckpt, files, tmp, health, next, pc, pins,
                         queue, cand, victim, deleted>>
     ELSE Abort /\ UNCHANGED <<writer, disk, health>>

RoundDone ==
  /\ pc = "cleanup" /\ pending = {}
  /\ Abort
  /\ UNCHANGED <<writer, disk, health>>

-------------------------------------------------------------------------------
Init ==
  /\ active = 0 /\ low = 0 /\ writerUp = TRUE
  /\ kind \in [Segment -> Kinds]
  /\ ckpt = NewIndex /\ files = {} /\ swaps = {} /\ tmp = None
  /\ pc = "idle" /\ health = None /\ next = NewIndex
  /\ pins = {} /\ queue = {} /\ pending = {} /\ deleted = {}
  /\ cand = None /\ victim = None

Next ==
  \/ WriterRotate \/ WriterPrune \/ WriterStop
  \/ Crash
  \/ ReadHealth \/ BeginFinalize
  \/ ScanClosedSegments \/ FinalizeStoppedRun \/ ScanRaises
  \/ RecoverSwap \/ RecoverSweep \/ SelectCandidates
  \/ SkipCandidate \/ PickCandidate
  \/ CopyToTemporary \/ PublishCopy \/ AcceptPin
  \/ CopyRaises \/ RestoreVictim
  \/ ReplaceCheckpoint \/ CheckpointVerificationFails \/ CheckpointVerified
  \/ CleanSwap \/ RoundDone

Spec == Init /\ [][Next]_vars
-------------------------------------------------------------------------------
(* Properties. *)

Index == [exists : BOOLEAN, active : Segment \cup {None},
          first : Segment \cup {None}, last : Segment \cup {None}, count : Nat,
          indexed : SUBSET Segment, finalized : BOOLEAN, pins : SUBSET Segment]

(* Every variable has its type: segment numbers, sets of segments, indexes. *)
TypeOK ==
  /\ active \in Segment /\ low \in Segment /\ low <= active
  /\ writerUp \in BOOLEAN /\ kind \in [Segment -> Kinds]
  /\ ckpt \in Index /\ next \in Index
  /\ files \in SUBSET Segment /\ swaps \in SUBSET Segment
  /\ pins \in SUBSET Segment /\ queue \in SUBSET Segment
  /\ pending \in SUBSET Segment /\ deleted \in SUBSET Segment
  /\ tmp \in Segment \cup {None} /\ health \in Segment \cup {None}
  /\ cand \in Segment \cup {None} /\ victim \in Segment \cup {None}
  /\ pc \in {"idle", "scan", "finalize", "recover", "pick", "copy", "publish",
             "verify", "restore", "replaced", "cleanup"}

(* At every point where the round can die, each pin the durable checkpoint     *)
(* names is still in the pin directory, under its own name or as a swap        *)
(* backup: no order of victim rename, copy, checkpoint replacement and backup  *)
(* deletion loses evidence the checkpoint promises.                            *)
PinsRecoverable == ckpt.pins \subseteq files \cup swaps

(* No segment has both a file and a swap backup, so recovery never meets the   *)
(* "swap is ambiguous" error, which no later round could get past.             *)
SwapsUnambiguous == files \cap swaps = {}

(* When recovery has run to its end the directory is exactly the manifest, so  *)
(* the validation that follows never raises.                                   *)
RecoveryRestoresManifest ==
  pc = "recover" /\ swaps = {} /\ files \subseteq next.pins =>
    files = ckpt.pins /\ Cardinality(files) <= Retained

(* From the validation of the directory to the end of the round the pin files  *)
(* stay within the stream's budget, so publishing a copy never unlinks an      *)
(* older pin.                                                                  *)
PinBudget ==
  /\ pc \notin {"idle", "scan", "finalize", "recover"} =>
       Cardinality(files) <= Retained
  /\ Cardinality(ckpt.pins) <= Retained
  /\ deleted = {}

(* Only pins of the durable checkpoint are moved aside: a round never evicts a *)
(* segment it pinned itself, so the directory holds at most twice the budget.  *)
VictimsDurable ==
  pc \in {"pick", "copy", "publish", "verify", "restore"} =>
    swaps \subseteq ckpt.pins

(* Every interesting segment the checkpoint covers is pinned, or the budget is *)
(* full of pins that outrank it: skips, evictions, crashes and repeated rounds *)
(* included.                                                                   *)
SignalsKept ==
  \A s \in ckpt.indexed :
    kind[s] # 0 /\ s \notin ckpt.pins =>
      /\ Cardinality(ckpt.pins) = Retained
      /\ \A p \in ckpt.pins : Outranks(p, s)

(* The index covers a gap-free range of segments, each aggregated exactly      *)
(* once, although the writer rotates and prunes while the scan runs on an      *)
(* older health record and a failed round is repeated.                         *)
IndexLossless ==
  ckpt.exists /\ ckpt.last # None =>
    /\ ckpt.indexed = ckpt.first .. ckpt.last
    /\ ckpt.count = ckpt.last - ckpt.first + 1

(* A finalized index reaches the last segment the stopped writer wrote. *)
FinalizedReachesEnd == ckpt.finalized => ~writerUp /\ ckpt.last = active

(* The pins a round chooses: it moves aside only pins of the durable           *)
(* checkpoint, so that the directory holds at most twice the budget, and every *)
(* interesting segment that a checkpoint covers is pinned or outranked by a    *)
(* full budget of pins, after skips, evictions, crashes and repeated rounds    *)
(* (reconcile_diagnostic_evidence_pins).                                       *)
SelectionSound == VictimsDurable /\ SignalsKept

(* The index covers a gap-free range of segments, each aggregated exactly      *)
(* once, although the writer rotates and prunes under the scan, and a          *)
(* finalized index reaches the last segment the stopped writer wrote           *)
(* (scan_closed_segments, finalize_stopped_run).                               *)
IndexSound == IndexLossless /\ FinalizedReachesEnd

(* From one checkpoint to the next a pin gives way only to a full budget of    *)
(* pins that all outrank it, and a repeated finalization rewrites the same     *)
(* checkpoint (reconcile_diagnostic_evidence_pins, finalize_stopped_run).      *)
RoundsMonotone ==
  [][ckpt'.exists =>
       /\ \A p \in ckpt.pins \ ckpt'.pins :
            /\ Cardinality(ckpt'.pins) = Retained
            /\ \A q \in ckpt'.pins : Outranks(q, p)
       /\ ckpt.finalized => ckpt' = ckpt]_ckpt
===============================================================================
