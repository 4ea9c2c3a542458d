----------------------- MODULE DiagnosticEvidence_proofs -----------------------
(* Proofs about DiagnosticEvidence for every number of segments and every pin  *)
(* budget: type correctness; that no crash or exception of a round loses a pin *)
(* the durable checkpoint names; that the index has no gap; that the pins are  *)
(* the best evidence of what was indexed; and that rounds only improve them.   *)
EXTENDS DiagnosticEvidence, FiniteSetTheorems, WellFoundedInduction, TLAPS

-------------------------------------------------------------------------------
(* Minima: a non-empty set of segments has an oldest one, and ranks are        *)
(* well-founded, so First and Lowest choose a member.                          *)

(* Every non-empty set of naturals has a least element. *)
LEMMA NatMin ==
  ASSUME NEW S \in SUBSET Nat, S # {}
  PROVE  \E s \in S : \A t \in S : s <= t
<1>1. \E s \in S : \A t \in S : <<t, s>> \notin OpToRel(<, Nat)
  BY NatLessThanWellFounded, WFMin
<1>2. \A t, s \in Nat : t < s => <<t, s>> \in OpToRel(<, Nat)
  BY Zenon DEF OpToRel
<1>3. PICK s \in S : \A t \in S : <<t, s>> \notin OpToRel(<, Nat)
  BY <1>1
<1>4. \A t \in S : ~(t < s)
  BY <1>2, <1>3
<1>5. QED
  BY <1>4

(* First(S) is the oldest segment of a non-empty set. *)
LEMMA FirstMember ==
  ASSUME NEW S \in SUBSET Nat, S # {}
  PROVE  First(S) \in S /\ \A t \in S : First(S) <= t
BY NatMin DEF First

(* A priority is a number, and the interesting segments have the high ones. *)
LEMMA PriorityType ==
  ASSUME NEW s \in Segment, kind \in [Segment -> Kinds]
  PROVE  /\ Priority(s) \in {100, 250, 300, 400}
         /\ kind[s] # 0 <=> Priority(s) >= 250
<1>1. kind[s] \in {0, 250, 300, 400}
  BY KindsAssumption
<1>2. QED
  BY <1>1 DEF Priority

(* Ranking is a strict total order on segments. *)
LEMMA RankOrder ==
  ASSUME kind \in [Segment -> Kinds]
  PROVE  /\ \A s \in Segment : ~Outranks(s, s)
         /\ \A s, t \in Segment : s # t => Outranks(s, t) \/ Outranks(t, s)
         /\ \A s, t, u \in Segment : Outranks(s, t) /\ Outranks(t, u) => Outranks(s, u)
<1>1. \A s \in Segment : Priority(s) \in Nat /\ s \in Nat
  BY PriorityType, BoundsAssumption DEF Segment
<1>2. QED
  BY <1>1 DEF Outranks

(* Lowest(S) is the member of a non-empty set that all others outrank: some    *)
(* priority is least, and among the segments with it some number is.           *)
LEMMA LowestMember ==
  ASSUME NEW S \in SUBSET Segment, S # {}, kind \in [Segment -> Kinds]
  PROVE  Lowest(S) \in S /\ \A t \in S \ {Lowest(S)} : Outranks(t, Lowest(S))
<1>1. \A s \in Segment : Priority(s) \in Nat
  BY PriorityType
<1>2. \A s \in Segment : s \in Nat
  BY BoundsAssumption DEF Segment
<1>3. {Priority(s) : s \in S} \in SUBSET Nat /\ {Priority(s) : s \in S} # {}
  BY <1>1
<1>4. PICK p \in {Priority(s) : s \in S} : \A q \in {Priority(s) : s \in S} : p <= q
  BY <1>3, NatMin
<1>5. {s \in S : Priority(s) = p} \in SUBSET Nat /\ {s \in S : Priority(s) = p} # {}
  BY <1>2, <1>4
<1>6. PICK m \in {s \in S : Priority(s) = p} :
        \A t \in {s \in S : Priority(s) = p} : m <= t
  BY <1>5, NatMin
<1>7. \A t \in S \ {m} : Outranks(t, m)
  BY <1>1, <1>2, <1>4, <1>6 DEF Outranks
<1>8. QED
  BY <1>6, <1>7 DEF Lowest

(* Sets of segments are finite. *)
LEMMA SegmentsFinite ==
  ASSUME NEW S \in SUBSET Segment
  PROVE  IsFiniteSet(S) /\ Cardinality(S) \in Nat
<1>1. IsFiniteSet(Segment)
  BY FS_Interval, BoundsAssumption DEF Segment
<1>2. QED
  BY <1>1, FS_Subset, FS_CardinalityType

(* Replacing a pin, or adding one below the limit, stays within the budget. *)
LEMMA SwapCardinality ==
  ASSUME NEW P \in SUBSET Segment, NEW v, NEW c, Cardinality(P) <= Retained,
         v \notin P => Cardinality(P) < Retained
  PROVE  /\ Cardinality(P \ {v}) < Retained
         /\ Cardinality((P \ {v}) \cup {c}) <= Retained
<1>1. IsFiniteSet(P) /\ Cardinality(P) \in Nat
  BY SegmentsFinite
<1>2. IsFiniteSet(P \ {v})
      /\ Cardinality(P \ {v}) = IF v \in P THEN Cardinality(P) - 1 ELSE Cardinality(P)
  BY <1>1, FS_RemoveElement
<1>3. Cardinality(P \ {v}) \in Nat /\ Cardinality(P \ {v}) < Retained
  BY <1>1, <1>2, FS_CardinalityType, BoundsAssumption
<1>4. Cardinality((P \ {v}) \cup {c}) =
        IF c \in P \ {v} THEN Cardinality(P \ {v}) ELSE Cardinality(P \ {v}) + 1
  BY <1>2, FS_AddElement
<1>5. QED
  BY <1>3, <1>4, BoundsAssumption

(* A non-empty set of segments has a newest one. *)
LEMMA SegmentMax ==
  ASSUME NEW S \in SUBSET Segment, S # {}
  PROVE  \E s \in S : \A t \in S : t <= s
<1>1. \A s \in Segment : s \in Nat /\ MaxSegment - s \in Nat
  BY BoundsAssumption DEF Segment
<1>2. {MaxSegment - s : s \in S} \in SUBSET Nat /\ {MaxSegment - s : s \in S} # {}
  BY <1>1
<1>3. PICK d \in {MaxSegment - s : s \in S} : \A e \in {MaxSegment - s : s \in S} : d <= e
  BY <1>2, NatMin
<1>4. PICK m \in S : d = MaxSegment - m
  BY <1>3
<1>5. \A t \in S : MaxSegment - m <= MaxSegment - t
  BY <1>3, <1>4
<1>6. QED
  BY <1>1, <1>4, <1>5, BoundsAssumption

(* A non-empty set of segments has a member that outranks all others. *)
LEMMA HighestMember ==
  ASSUME NEW S \in SUBSET Segment, S # {}, kind \in [Segment -> Kinds]
  PROVE  \E m \in S : \A t \in S \ {m} : Outranks(m, t)
<1>1. \A s \in Segment : Priority(s) \in Nat /\ 400 - Priority(s) \in Nat /\ s \in Nat
  BY PriorityType, BoundsAssumption DEF Segment
<1>2. /\ {400 - Priority(s) : s \in S} \in SUBSET Nat
      /\ {400 - Priority(s) : s \in S} # {}
  BY <1>1
<1>3. PICK d \in {400 - Priority(s) : s \in S} :
        \A e \in {400 - Priority(s) : s \in S} : d <= e
  BY <1>2, NatMin
<1>4. PICK h \in S : d = 400 - Priority(h)
  BY <1>3
<1>5. \A t \in S : 400 - Priority(h) <= 400 - Priority(t)
  BY <1>3, <1>4
<1>6. \A t \in S : Priority(t) <= Priority(h)
  BY <1>1, <1>5
<1>7. /\ {s \in S : Priority(s) = Priority(h)} \in SUBSET Segment
      /\ {s \in S : Priority(s) = Priority(h)} # {}
  OBVIOUS
<1>8. PICK m \in {s \in S : Priority(s) = Priority(h)} :
        \A t \in {s \in S : Priority(s) = Priority(h)} : t <= m
  BY <1>7, SegmentMax
<1>9. \A t \in S \ {m} : Outranks(m, t)
  BY <1>1, <1>6, <1>8 DEF Outranks
<1>10. QED
  BY <1>8, <1>9

(* Segment numbers are natural numbers. *)
LEMMA SegmentSubsetNat == Segment \subseteq Nat
BY BoundsAssumption DEF Segment

(* Indexing a set of segments yields an index. *)
LEMMA AdvanceType ==
  ASSUME ckpt \in Index, NEW S \in SUBSET Segment,
         NEW h \in Segment \cup {None}, NEW d \in BOOLEAN
  PROVE  Advance(S, h, d) \in Index
<1>1. Cardinality(S) \in Nat
  BY SegmentsFinite
<1>2. S # {} => First(S) \in Segment
  BY FirstMember, SegmentSubsetNat
<1>3. S # {} => (CHOOSE s \in S : \A t \in S : t <= s) \in Segment
  BY SegmentMax
<1> DEFINE f == IF ckpt.first = None /\ S # {} THEN First(S) ELSE ckpt.first
           l == IF S = {} THEN ckpt.last ELSE CHOOSE s \in S : \A t \in S : t <= s
<1>4. Advance(S, h, d) =
        [exists |-> TRUE, active |-> h, first |-> f, last |-> l,
         count |-> ckpt.count + Cardinality(S), indexed |-> ckpt.indexed \cup S,
         finalized |-> d, pins |-> ckpt.pins]
  BY DEF Advance
<1>5. f \in Segment \cup {None} /\ l \in Segment \cup {None}
  BY <1>2, <1>3 DEF Index
<1>6. ckpt.count + Cardinality(S) \in Nat /\ ckpt.indexed \cup S \in SUBSET Segment
      /\ ckpt.pins \in SUBSET Segment
  BY <1>1 DEF Index
<1> HIDE DEF f, l
<1>7. QED
  BY <1>4, <1>5, <1>6 DEF Index

-------------------------------------------------------------------------------
(* Type correctness. *)

(* The local state after an exception or a crash is well typed. *)
LEMMA AbortType ==
  ASSUME Abort
  PROVE  /\ pc' = "idle" /\ next' \in Index
         /\ pins' \in SUBSET Segment /\ queue' \in SUBSET Segment
         /\ pending' \in SUBSET Segment /\ deleted' \in SUBSET Segment
         /\ cand' \in Segment \cup {None} /\ victim' \in Segment \cup {None}
BY DEF Abort, NewIndex, Index

(* Segments on the writer's disk are segments. *)
LEMMA OnDiskSegments == TypeOK => OnDisk \subseteq Segment
BY BoundsAssumption DEF TypeOK, OnDisk, Segment

(* The type invariant, with what makes it inductive: the candidate is a        *)
(* segment whenever it is being copied.                                        *)
TypeInv ==
  /\ TypeOK
  /\ pc \in {"copy", "publish", "verify", "restore"} => cand \in Segment

(* Every step keeps every variable in its type. *)
LEMMA TypeStep == TypeInv /\ [Next]_vars => TypeInv'
<1> SUFFICES ASSUME TypeInv, [Next]_vars PROVE TypeInv'
  OBVIOUS
<1> USE DEF TypeInv, TypeOK
<1> USE SegmentSubsetNat
<1>1. CASE WriterRotate
  BY <1>1, BoundsAssumption DEF WriterRotate, disk, round, Segment
<1>2. CASE WriterPrune
  BY <1>2, BoundsAssumption DEF WriterPrune, disk, round, Segment
<1>3. CASE WriterStop
  BY <1>3 DEF WriterStop, disk, round
<1>4. CASE Crash
  BY <1>4, AbortType DEF Crash, writer, disk
<1>5. CASE ReadHealth
  BY <1>5 DEF ReadHealth, writer, disk, round
<1>6. CASE BeginFinalize
  BY <1>6 DEF BeginFinalize, writer, disk, round
<1>7. ASSUME NEW c \in Index, Start(c) PROVE TypeInv'
  BY <1>7 DEF Start, writer, disk, Index
<1>8. CASE ScanClosedSegments
  <2>1. NewClosed \in SUBSET Segment
    BY OnDiskSegments DEF NewClosed
  <2>2. health \in Segment \cup {None}
    OBVIOUS
  <2>3. Advance(NewClosed, health, FALSE) \in Index
    BY <2>1, <2>2, AdvanceType
  <2>4. QED
    BY <1>7, <1>8, <2>3 DEF ScanClosedSegments
<1>9. CASE FinalizeStoppedRun
  <2>1. NewFinal \in SUBSET Segment
    BY OnDiskSegments DEF NewFinal
  <2>2. Advance(NewFinal, None, TRUE) \in Index
    BY <2>1, AdvanceType
  <2>3. QED
    BY <1>7, <1>9, <2>2 DEF FinalizeStoppedRun
<1>10. CASE ScanRaises
  BY <1>10, AbortType DEF ScanRaises, writer, disk
<1>11. CASE RecoverSwap
  BY <1>11, AbortType DEF RecoverSwap, writer, disk, round, Index
<1>12. CASE RecoverSweep
  BY <1>12 DEF RecoverSweep, writer, round
<1>13. CASE SelectCandidates
  <2>1. \A S, P \in SUBSET Segment, l \in Segment \cup {None} :
          PinCandidates(S, P, l) \in SUBSET Segment
    BY DEF PinCandidates
  <2>2. PinCandidates(queue, pins, ckpt.last) \in SUBSET Segment
    BY <2>1 DEF Index
  <2>3. QED
    BY <1>13, <2>2, AbortType DEF SelectCandidates, writer, disk
<1>14. CASE SkipCandidate
  BY <1>14 DEF SkipCandidate, writer, disk
<1>15. CASE PickCandidate
  <2>1. First(queue) \in Segment
    BY <1>15, FirstMember DEF PickCandidate
  <2>2. Cardinality(pins) >= Retained => Lowest(pins) \in Segment
    <3>1. Cardinality(pins) >= Retained => pins # {}
      BY FS_EmptySet, BoundsAssumption
    <3>2. QED
      BY <3>1, LowestMember
  <2>3. Cardinality(pins) \in Nat
    BY SegmentsFinite
  <2>4. ~(Cardinality(pins) < Retained) => Cardinality(pins) >= Retained
    BY <2>3, BoundsAssumption
  <2>5. QED
    BY <1>15, <2>1, <2>2, <2>4, AbortType DEF PickCandidate, writer, disk
<1>16. CASE CopyToTemporary
  BY <1>16, OnDiskSegments DEF CopyToTemporary, writer, round
<1>17. CASE PublishCopy
  BY <1>17 DEF PublishCopy, writer
<1>18. CASE AcceptPin
  BY <1>18 DEF AcceptPin, writer, disk
<1>19. CASE CopyRaises
  BY <1>19 DEF CopyRaises, writer, round
<1>20. CASE RestoreVictim
  BY <1>20, AbortType DEF RestoreVictim, writer
<1>21. CASE ReplaceCheckpoint
  BY <1>21 DEF ReplaceCheckpoint, writer, round, Index
<1>22. CASE CheckpointVerificationFails
  BY <1>22, AbortType DEF CheckpointVerificationFails, writer, NewIndex, Index
<1>23. CASE CheckpointVerified
  BY <1>23 DEF CheckpointVerified, writer, disk, round
<1>24. CASE CleanSwap
  BY <1>24, AbortType DEF CleanSwap, writer, disk
<1>25. CASE RoundDone
  BY <1>25, AbortType DEF RoundDone, writer, disk
<1>26. CASE UNCHANGED vars
  BY <1>26 DEF vars, writer, disk, round
<1>27. QED
  BY <1>1, <1>2, <1>3, <1>4, <1>5, <1>6, <1>8, <1>9, <1>10, <1>11, <1>12,
     <1>13, <1>14, <1>15, <1>16, <1>17, <1>18, <1>19, <1>20, <1>21, <1>22,
     <1>23, <1>24, <1>25, <1>26 DEF Next

(* Type correctness of the index and the pin directory. *)
THEOREM TypeCorrect == Spec => []TypeOK
<1>1. Init => TypeInv
  BY BoundsAssumption DEF Init, TypeInv, TypeOK, NewIndex, Index, Segment, None
<1>2. TypeInv => TypeOK
  BY DEF TypeInv
<1>3. QED
  BY <1>1, <1>2, TypeStep, PTL DEF Spec

-------------------------------------------------------------------------------
(* The evidence survives every crash and every exception.                      *)
(*                                                                             *)
(* PinsRecoverable and SwapsUnambiguous are not inductive: that restoring a    *)
(* victim, publishing a copy and deleting the backups keep them rests on how   *)
(* the round's local lists describe the directory at each program point.       *)

Quiet   == {"idle", "scan", "finalize", "recover"}
Copying == {"copy", "publish", "verify", "restore"}

(* Before the candidates are chosen nothing is displaced, and the manifest of  *)
(* the round is the checkpoint's.                                              *)
QuietInv ==
  /\ pc \in Quiet => pending = {} /\ cand = None /\ victim = None
  /\ pc = "recover" => next.pins = ckpt.pins /\ pins = ckpt.pins

(* While candidates are handled, the backups are exactly the victims so far,   *)
(* and no segment still in the queue is pinned, displaced or in the manifest.  *)
ListsInv ==
  pc \in Copying \cup {"pick"} =>
    /\ Cardinality(pins) <= Retained
    /\ swaps = pending \cup ({victim} \cap Segment)
    /\ pending \cap pins = {}
    /\ queue \cap (pins \cup swaps \cup ckpt.pins) = {}

(* The pin files are the round's pins, less the victim being replaced, and     *)
(* the published candidate.                                                    *)
FilesInv ==
  /\ pc = "pick" => files = pins /\ victim = None
  /\ pc \in Copying =>
       /\ cand \notin pins \cup swaps \cup ckpt.pins \cup queue
       /\ victim = None => Cardinality(pins) < Retained
       /\ victim # None => victim \in pins
       /\ files = (pins \ {victim}) \cup (IF pc = "verify" THEN {cand} ELSE {})
  /\ pc \in {"replaced", "cleanup"} => files = ckpt.pins /\ pending = swaps

PinInv ==
  /\ PinsRecoverable /\ SwapsUnambiguous
  /\ deleted = {} /\ Cardinality(ckpt.pins) <= Retained
  /\ QuietInv /\ ListsInv /\ FilesInv

(* A round that ends, in whatever way, leaves only facts about the disk. *)
LEMMA AbortPins ==
  ASSUME Abort, PinsRecoverable', SwapsUnambiguous', Cardinality(ckpt'.pins) <= Retained
  PROVE  PinInv'
BY DEF Abort, PinInv, QuietInv, ListsInv, FilesInv, Quiet, Copying

(* Every step keeps the pin invariant. *)
LEMMA PinStep == TypeInv /\ PinInv /\ [Next]_vars => PinInv'
<1> SUFFICES ASSUME TypeInv, PinInv, [Next]_vars PROVE PinInv'
  OBVIOUS
<1>t. TypeOK
  BY DEF TypeInv
<1>n. None \notin Segment
  BY BoundsAssumption DEF Segment, None
<1>p. PinsRecoverable /\ SwapsUnambiguous /\ Cardinality(ckpt.pins) <= Retained
  BY DEF PinInv
<1>u. ASSUME UNCHANGED disk, Abort PROVE PinInv'
  BY <1>p, <1>u, AbortPins DEF disk, PinsRecoverable, SwapsUnambiguous
<1>1. CASE WriterRotate \/ WriterPrune \/ WriterStop
  BY <1>1 DEF WriterRotate, WriterPrune, WriterStop, disk, round, PinInv,
       PinsRecoverable, SwapsUnambiguous, QuietInv, ListsInv, FilesInv
<1>2. CASE Crash \/ ScanRaises \/ RoundDone
  BY <1>2, <1>u DEF Crash, ScanRaises, RoundDone, disk
<1>3. CASE ReadHealth \/ BeginFinalize
  BY <1>3 DEF ReadHealth, BeginFinalize, disk, round, PinInv, PinsRecoverable,
       SwapsUnambiguous, QuietInv, ListsInv, FilesInv, Quiet, Copying
<1>4. ASSUME NEW c, Start(c), c.pins = ckpt.pins, pc \in Quiet PROVE PinInv'
  BY <1>4 DEF Start, disk, PinInv, PinsRecoverable,
       SwapsUnambiguous, QuietInv, ListsInv, FilesInv, Quiet, Copying
<1>5. CASE ScanClosedSegments \/ FinalizeStoppedRun
  <2>1. \A S, h, d : Advance(S, h, d).pins = ckpt.pins
    BY DEF Advance
  <2>2. QED
    BY <1>4, <1>5, <2>1 DEF ScanClosedSegments, FinalizeStoppedRun, Quiet
<1>6. CASE RecoverSwap
  <2>1. CASE First(swaps) \in next.pins /\ First(swaps) \in files
    BY <1>6, <1>u, <2>1 DEF RecoverSwap, disk
  <2>2. CASE ~(First(swaps) \in next.pins /\ First(swaps) \in files)
    BY <1>6, <2>2 DEF RecoverSwap, round, PinInv, PinsRecoverable,
       SwapsUnambiguous, QuietInv, ListsInv, FilesInv, Quiet, Copying
  <2>3. QED
    BY <2>1, <2>2
<1>7. CASE RecoverSweep
  BY <1>7 DEF RecoverSweep, round, PinInv, PinsRecoverable,
       SwapsUnambiguous, QuietInv, ListsInv, FilesInv, Quiet, Copying
<1>8. CASE SelectCandidates
  <2>1. CASE files # pins \/ Cardinality(pins) > Retained
    BY <1>8, <1>u, <2>1 DEF SelectCandidates, disk
  <2>2. CASE ~(files # pins \/ Cardinality(pins) > Retained)
    <3>1. queue' \cap pins = {} /\ pc' = "pick"
      BY <1>8, <2>2 DEF SelectCandidates
    <3>2. UNCHANGED <<ckpt, files, swaps, pins, cand, victim, pending, deleted>>
      BY <1>8, <2>2 DEF SelectCandidates, disk
    <3>3. swaps = {} /\ pc = "recover"
      BY <1>8 DEF SelectCandidates
    <3>4. QED
      BY <1>n, <2>2, <3>1, <3>2, <3>3 DEF PinInv, PinsRecoverable,
         SwapsUnambiguous, QuietInv, ListsInv, FilesInv, Quiet, Copying
  <2>3. QED
    BY <2>1, <2>2
<1>9. CASE SkipCandidate
  BY <1>9 DEF SkipCandidate, disk, PinInv, PinsRecoverable,
       SwapsUnambiguous, QuietInv, ListsInv, FilesInv, Quiet, Copying
<1>10. CASE PickCandidate
  <2>1. CASE Cardinality(pins) >= Retained /\ Lowest(pins) \in swaps
    BY <1>10, <1>u, <2>1 DEF PickCandidate, disk
  <2>2. CASE ~(Cardinality(pins) >= Retained /\ Lowest(pins) \in swaps)
    <3>1. First(queue) \in queue
      BY <1>t, <1>10, FirstMember, SegmentSubsetNat DEF PickCandidate, TypeOK
    <3>2. Cardinality(pins) \in Nat /\ Retained \in Nat \ {0}
      BY <1>t, SegmentsFinite, BoundsAssumption DEF TypeOK
    <3>3. CASE Cardinality(pins) < Retained
      <4>1. UNCHANGED <<ckpt, files, swaps, pins, pending, deleted>>
            /\ victim' = None /\ pc' = "copy" /\ pc = "pick"
            /\ cand' = First(queue) /\ queue' = queue \ {First(queue)}
        BY <1>10, <2>2, <3>3 DEF PickCandidate
      <4>2. QED
        BY <1>n, <1>t, <3>1, <3>3, <4>1 DEF TypeOK, PinInv, PinsRecoverable,
           SwapsUnambiguous, QuietInv, ListsInv, FilesInv, Quiet, Copying
    <3>4. CASE ~(Cardinality(pins) < Retained)
      <4>1. pins # {}
        BY <3>2, <3>4, FS_EmptySet
      <4>2. Lowest(pins) \in pins /\ Lowest(pins) \in Segment
        BY <1>t, <4>1, LowestMember DEF TypeOK
      <4>3. /\ UNCHANGED <<ckpt, pins, pending, deleted>>
            /\ files' = files \ {Lowest(pins)} /\ swaps' = swaps \cup {Lowest(pins)}
            /\ victim' = Lowest(pins) /\ pc' = "copy" /\ pc = "pick"
            /\ cand' = First(queue) /\ queue' = queue \ {First(queue)}
        BY <1>10, <2>2, <3>4 DEF PickCandidate
      <4>4. QED
        BY <1>n, <3>1, <4>2, <4>3 DEF PinInv, PinsRecoverable, SwapsUnambiguous,
           QuietInv, ListsInv, FilesInv, Quiet, Copying
    <3>5. QED
      BY <3>3, <3>4
  <2>3. QED
    BY <2>1, <2>2
<1>11. CASE CopyToTemporary
  BY <1>11 DEF CopyToTemporary, round, PinInv, PinsRecoverable,
       SwapsUnambiguous, QuietInv, ListsInv, FilesInv, Quiet, Copying
<1>12. CASE PublishCopy
  <2>1. Cardinality(files) < Retained
    <3>1. pins \in SUBSET Segment /\ Cardinality(pins) <= Retained
          /\ (victim \notin pins => Cardinality(pins) < Retained)
      BY <1>12, <1>t DEF PublishCopy, TypeOK, PinInv, ListsInv, FilesInv, Copying
    <3>2. files = pins \ {victim}
      BY <1>12 DEF PublishCopy, PinInv, FilesInv, Copying
    <3>3. QED
      BY <3>1, <3>2, SwapCardinality
  <2>2. PICK D \in SUBSET files : Cardinality(D) = 0 /\ deleted' = D
                                  /\ files' = (files \ D) \cup {cand}
    BY <1>12, <2>1 DEF PublishCopy
  <2>3. D = {}
    BY <1>t, <2>2, SegmentsFinite, FS_EmptySet DEF TypeOK
  <2>4. QED
    BY <1>12, <2>2, <2>3 DEF PublishCopy, PinInv, PinsRecoverable,
       SwapsUnambiguous, QuietInv, ListsInv, FilesInv, Quiet, Copying
<1>13. CASE AcceptPin
  <2>1. Cardinality(pins') <= Retained
    <3>1. pins \in SUBSET Segment /\ Cardinality(pins) <= Retained
          /\ (victim \notin pins => Cardinality(pins) < Retained)
      BY <1>13, <1>t DEF AcceptPin, TypeOK, PinInv, ListsInv, FilesInv, Copying
    <3>2. QED
      BY <1>13, <3>1, SwapCardinality DEF AcceptPin
  <2>2. QED
    BY <1>13, <1>n, <1>t, <2>1 DEF AcceptPin, disk, PinInv, PinsRecoverable,
       SwapsUnambiguous, QuietInv, ListsInv, FilesInv, Quiet, Copying, TypeOK
<1>14. CASE CopyRaises
  BY <1>14 DEF CopyRaises, round, PinInv, PinsRecoverable,
       SwapsUnambiguous, QuietInv, ListsInv, FilesInv, Quiet, Copying
<1>15. CASE RestoreVictim
  <2>1. PinsRecoverable' /\ SwapsUnambiguous'
    BY <1>15, <1>n, <1>t DEF RestoreVictim, TypeOK, PinInv, PinsRecoverable,
       SwapsUnambiguous, ListsInv, FilesInv, Copying
  <2>2. QED
    BY <1>15, <1>p, <2>1, AbortPins DEF RestoreVictim
<1>16. CASE ReplaceCheckpoint
  <2>1. ckpt'.pins = pins
    BY <1>16, <1>t DEF ReplaceCheckpoint, TypeOK, Index
  <2>2. QED
    BY <1>16, <1>n, <2>1 DEF ReplaceCheckpoint, round, PinInv, PinsRecoverable,
       SwapsUnambiguous, QuietInv, ListsInv, FilesInv, Quiet, Copying
<1>17. CASE CheckpointVerificationFails
  <2>1. ckpt'.pins = {}
    BY <1>17 DEF CheckpointVerificationFails, NewIndex
  <2>2. Cardinality(ckpt'.pins) <= Retained
    BY <2>1, FS_EmptySet, BoundsAssumption
  <2>3. QED
    BY <1>17, <1>p, <2>1, <2>2, AbortPins DEF CheckpointVerificationFails,
       PinsRecoverable, SwapsUnambiguous
<1>18. CASE CheckpointVerified
  BY <1>18 DEF CheckpointVerified, disk, round, PinInv, PinsRecoverable,
       SwapsUnambiguous, QuietInv, ListsInv, FilesInv, Quiet, Copying
<1>19. CASE CleanSwap
  <2>1. CASE First(pending) \in swaps
    BY <1>19, <2>1 DEF CleanSwap, PinInv, PinsRecoverable,
       SwapsUnambiguous, QuietInv, ListsInv, FilesInv, Quiet, Copying
  <2>2. CASE First(pending) \notin swaps
    BY <1>19, <1>u, <2>2 DEF CleanSwap, disk
  <2>3. QED
    BY <2>1, <2>2
<1>20. CASE UNCHANGED vars
  BY <1>20 DEF vars, disk, round, PinInv, PinsRecoverable,
       SwapsUnambiguous, QuietInv, ListsInv, FilesInv
<1>21. QED
  BY <1>1, <1>2, <1>3, <1>5, <1>6, <1>7, <1>8, <1>9, <1>10, <1>11, <1>12,
     <1>13, <1>14, <1>15, <1>16, <1>17, <1>18, <1>19, <1>20 DEF Next

(* The two invariants together, from the initial state on. *)
LEMMA PinInvariant == Spec => [](TypeInv /\ PinInv)
<1>1. Init => TypeInv
  BY BoundsAssumption DEF Init, TypeInv, TypeOK, NewIndex, Index, Segment, None
<1>2. Init => PinInv
  BY FS_EmptySet, BoundsAssumption DEF Init, NewIndex, PinInv, PinsRecoverable,
     SwapsUnambiguous, QuietInv, ListsInv, FilesInv, Quiet, Copying
<1>3. QED
  BY <1>1, <1>2, TypeStep, PinStep, PTL DEF Spec

(* Whatever step the round dies at, every pin the durable checkpoint names is  *)
(* still in the directory, as its file or as its swap backup.                  *)
THEOREM EvidenceRecoverable == Spec => []PinsRecoverable
<1>1. PinInv => PinsRecoverable
  BY DEF PinInv
<1>2. QED
  BY <1>1, PinInvariant, PTL

(* The recovery of a later round never finds both a file and its backup. *)
THEOREM RecoveryUnambiguous == Spec => []SwapsUnambiguous
<1>1. PinInv => SwapsUnambiguous
  BY DEF PinInv
<1>2. QED
  BY <1>1, PinInvariant, PTL

(* Recovery ends with exactly the manifest's files, so the validation after it *)
(* never raises.                                                               *)
THEOREM RecoveryComplete == Spec => []RecoveryRestoresManifest
<1>1. PinInv => RecoveryRestoresManifest
  <2> SUFFICES ASSUME PinInv, pc = "recover", swaps = {}, files \subseteq next.pins
               PROVE  files = ckpt.pins /\ Cardinality(files) <= Retained
    BY DEF RecoveryRestoresManifest
  <2>1. files = ckpt.pins
    BY DEF PinInv, PinsRecoverable, QuietInv
  <2>2. QED
    BY <2>1 DEF PinInv
<1>2. QED
  BY <1>1, PinInvariant, PTL

(* The pin files and the manifest stay within the stream's budget, and no      *)
(* published copy ever pushes another pin out.                                 *)
THEOREM BudgetKept == Spec => []PinBudget
<1>1. TypeInv /\ PinInv => PinBudget
  <2> SUFFICES ASSUME TypeInv, PinInv, pc \notin Quiet
               PROVE  Cardinality(files) <= Retained
    BY DEF PinInv, PinBudget, Quiet
  <2>1. /\ IsFiniteSet(pins) /\ Cardinality(pins) \in Nat
        /\ IsFiniteSet(files) /\ Cardinality(files) \in Nat
    BY SegmentsFinite DEF TypeInv, TypeOK
  <2>2. CASE pc \in {"replaced", "cleanup"}
    BY <2>2 DEF PinInv, FilesInv
  <2>3. CASE pc = "pick"
    BY <2>3 DEF PinInv, FilesInv, ListsInv
  <2>4. CASE pc \in Copying
    <3>1. pins \in SUBSET Segment /\ Cardinality(pins) <= Retained
          /\ (victim \notin pins => Cardinality(pins) < Retained)
      BY <2>4 DEF TypeInv, TypeOK, PinInv, ListsInv, FilesInv
    <3>2. /\ Cardinality(pins \ {victim}) < Retained
          /\ Cardinality((pins \ {victim}) \cup {cand}) <= Retained
      BY <3>1, SwapCardinality
    <3>3. files = pins \ {victim} \/ files = (pins \ {victim}) \cup {cand}
      BY <2>4 DEF PinInv, FilesInv
    <3>4. QED
      BY <2>1, <3>2, <3>3, BoundsAssumption
  <2>5. QED
    BY <2>2, <2>3, <2>4 DEF Quiet, Copying, TypeInv, TypeOK
<1>2. QED
  BY <1>1, PinInvariant, PTL

-------------------------------------------------------------------------------
(* The index.  IndexSound is inductive only together with the same facts about *)
(* the round's own new index, and with what an index that is still empty says. *)

Lossless(i) ==
  IF i.last = None THEN i.first = None /\ i.indexed = {} /\ i.count = 0
  ELSE /\ i.first \in Segment /\ i.first <= i.last
       /\ i.indexed = i.first .. i.last /\ i.count = i.last - i.first + 1

Complete(i) == i.finalized => ~writerUp /\ i.last = active

IndexInv ==
  /\ Lossless(ckpt) /\ Lossless(next) /\ Complete(ckpt) /\ Complete(next)
  /\ pc = "finalize" => ~writerUp

Newest(S) == CHOOSE s \in S : \A t \in S : t <= s

(* Segment numbers and None are integers. *)
LEMMA SegmentInts == \A s \in Segment \cup {None} : s \in Int
BY SegmentSubsetNat DEF None

(* The ends and the size of an interval of segment numbers. *)
LEMMA IntervalEnds ==
  ASSUME NEW a \in Int, NEW b \in Int, a <= b
  PROVE  /\ First(a .. b) = a
         /\ Newest(a .. b) = b
         /\ Cardinality(a .. b) = b - a + 1
<1>1. a \in a .. b /\ \A t \in a .. b : a <= t
  OBVIOUS
<1>2. \A s \in a .. b : (\A t \in a .. b : s <= t) => s = a
  BY <1>1
<1>3. First(a .. b) = a
  BY <1>1, <1>2 DEF First
<1>4. b \in a .. b /\ \A t \in a .. b : t <= b
  OBVIOUS
<1>5. \A s \in a .. b : (\A t \in a .. b : t <= s) => s = b
  BY <1>4
<1>6. Newest(a .. b) = b
  BY <1>4, <1>5 DEF Newest
<1>7. Cardinality(a .. b) = b - a + 1
  BY FS_Interval
<1>8. QED
  BY <1>3, <1>6, <1>7

(* The fields of an advanced index. *)
LEMMA AdvanceFields ==
  ASSUME NEW S \in SUBSET Segment, NEW h \in Segment \cup {None},
         NEW d \in BOOLEAN
  PROVE  /\ Advance(S, h, d).first =
              IF ckpt.first = None /\ S # {} THEN First(S) ELSE ckpt.first
         /\ Advance(S, h, d).last =
              IF S = {} THEN ckpt.last ELSE Newest(S)
         /\ Advance(S, h, d).count = ckpt.count + Cardinality(S)
         /\ Advance(S, h, d).indexed = ckpt.indexed \cup S
         /\ Advance(S, h, d).finalized = d
         /\ Advance(S, h, d).pins = ckpt.pins
BY DEF Advance, Newest

(* _advance_segments keeps an index lossless when the new segments follow the  *)
(* last indexed one without a gap, or are the first to be indexed.             *)
LEMMA AdvanceLossless ==
  ASSUME ckpt \in Index, Lossless(ckpt), NEW a \in Segment, NEW b \in Segment,
         a <= b, ckpt.last # None => a = ckpt.last + 1,
         NEW h \in Segment \cup {None}, NEW d \in BOOLEAN
  PROVE  Lossless(Advance(a .. b, h, d)) /\ Advance(a .. b, h, d).last = b
<1> DEFINE i == Advance(a .. b, h, d)
<1>1. /\ a \in Nat /\ b \in Nat /\ a .. b # {} /\ None \notin Segment
      /\ a .. b \in SUBSET Segment
  BY SegmentSubsetNat, BoundsAssumption DEF Segment, None
<1>2. /\ First(a .. b) = a /\ Cardinality(a .. b) = b - a + 1
      /\ Newest(a .. b) = b
  BY <1>1, IntervalEnds
<1>3. /\ i.last = b /\ i.count = ckpt.count + (b - a + 1)
      /\ i.indexed = ckpt.indexed \cup (a .. b)
      /\ i.first = IF ckpt.first = None THEN a ELSE ckpt.first
  BY <1>1, <1>2, AdvanceFields
<1> HIDE DEF i
<1>4. CASE ckpt.last = None
  <2>1. i.first = a /\ i.indexed = a .. b /\ i.count = b - a + 1
    BY <1>1, <1>3, <1>4 DEF Lossless
  <2>2. QED
    BY <1>1, <1>3, <2>1 DEF Lossless, i
<1>5. CASE ckpt.last # None
  <2> DEFINE f == ckpt.first
             l == ckpt.last
  <2>1. /\ f \in Nat /\ l \in Nat /\ f <= l /\ a = l + 1 /\ f \in Segment
        /\ ckpt.indexed = f .. l /\ ckpt.count = l - f + 1
    BY <1>5, SegmentSubsetNat DEF Lossless, Index
  <2> HIDE DEF f, l
  <2>2. (f .. l) \cup (a .. b) = f .. b
    BY <1>1, <2>1
  <2>3. i.first = f /\ i.indexed = f .. b /\ i.count = b - f + 1 /\ f <= b
    BY <1>1, <1>3, <2>1, <2>2 DEF f, None
  <2>4. QED
    BY <1>1, <1>3, <2>1, <2>3 DEF Lossless, i
<1>6. QED
  BY <1>4, <1>5

(* With nothing new the index keeps what it has. *)
LEMMA AdvanceNothing ==
  ASSUME ckpt \in Index, Lossless(ckpt), NEW S \in SUBSET Segment, S = {},
         NEW h \in Segment \cup {None}, NEW d \in BOOLEAN
  PROVE  Lossless(Advance(S, h, d))
<1>1. Cardinality(S) = 0 /\ ckpt.count \in Nat
  BY FS_EmptySet DEF Index
<1>2. /\ Advance(S, h, d).first = ckpt.first /\ Advance(S, h, d).last = ckpt.last
      /\ Advance(S, h, d).count = ckpt.count
      /\ Advance(S, h, d).indexed = ckpt.indexed
  BY <1>1 DEF Advance
<1>3. QED
  BY <1>2 DEF Lossless

(* scan_closed_segments accepts only a gap-free suffix. *)
LEMMA ScanLossless ==
  ASSUME TypeOK, Lossless(ckpt), ClosedSuffixComplete
  PROVE  Lossless(Advance(NewClosed, health, FALSE))
<1>1. ckpt \in Index /\ NewClosed \subseteq Segment /\ NewClosed \in SUBSET Nat
  BY OnDiskSegments, SegmentSubsetNat DEF TypeOK, NewClosed
<1>2. ckpt.last \in Segment \cup {None} /\ health \in Segment \cup {None}
  BY <1>1 DEF TypeOK, Index
<1>3. CASE NewClosed = {}
  BY <1>1, <1>2, <1>3, AdvanceNothing
<1>4. CASE NewClosed # {}
  <2> DEFINE a == IF ckpt.last = None THEN First(NewClosed) ELSE ckpt.last + 1
  <2>1. PICK s \in NewClosed : s \in Nat /\ s < health
    BY <1>1, <1>4, SegmentSubsetNat DEF NewClosed
  <2>0. First(NewClosed) \in Nat
    BY <1>1, <1>4, FirstMember
  <2>2. /\ First(NewClosed) \in Nat /\ health - 1 \in Int /\ health # 0
        /\ ckpt.last \in Int
    <3>1. health \in Int /\ ckpt.last \in Int
      BY <1>2, SegmentInts
    <3>2. QED
      BY <2>0, <2>1, <3>1
  <2>3. a \in Int /\ NewClosed = a .. health - 1
    BY <1>4, <2>2 DEF ClosedSuffixComplete
  <2> HIDE DEF a
  <2>4. a <= health - 1
    BY <2>1, <2>2, <2>3
  <2>5. a \in NewClosed /\ health - 1 \in NewClosed
    BY <2>2, <2>3, <2>4
  <2>6. a \in Segment /\ health - 1 \in Segment
    BY <1>1, <2>5
  <2>7. ckpt.last # None => a = ckpt.last + 1
    BY DEF a
  <2>8. QED
    BY <1>1, <1>2, <2>3, <2>4, <2>6, <2>7, AdvanceLossless
<1>5. QED
  BY <1>3, <1>4

(* finalize_stopped_run accepts only a gap-free suffix that ends with the      *)
(* writer's last segment.                                                      *)
LEMMA FinalLossless ==
  ASSUME TypeOK, Lossless(ckpt), FinalSuffixComplete
  PROVE  /\ Lossless(Advance(NewFinal, None, TRUE))
         /\ Advance(NewFinal, None, TRUE).last = active
<1>1. /\ ckpt \in Index /\ NewFinal \subseteq Segment /\ active \in Segment
      /\ NewFinal \in SUBSET Nat
  BY OnDiskSegments, SegmentSubsetNat DEF TypeOK, NewFinal
<1>2. ckpt.last \in Segment \cup {None} /\ NewFinal # {}
  BY <1>1 DEF Index, FinalSuffixComplete
<1> DEFINE a == IF ckpt.last = None THEN First(NewFinal) ELSE ckpt.last + 1
<1>0. First(NewFinal) \in NewFinal
  BY <1>1, <1>2, FirstMember
<1>3. First(NewFinal) \in Int /\ ckpt.last \in Int /\ active \in Int
  BY <1>0, <1>1, <1>2, SegmentInts
<1>4. a \in Int /\ NewFinal = a .. active
  BY <1>3 DEF FinalSuffixComplete
<1>5. ckpt.last # None => a = ckpt.last + 1
  OBVIOUS
<1> HIDE DEF a
<1>6. a <= active
  BY <1>2, <1>3, <1>4
<1>7. a \in Segment
  BY <1>1, <1>3, <1>4, <1>6
<1>8. QED
  BY <1>1, <1>4, <1>5, <1>6, <1>7, AdvanceLossless

(* Every step keeps the index invariant. *)
LEMMA IndexStep == TypeInv /\ IndexInv /\ [Next]_vars => IndexInv'
<1> SUFFICES ASSUME TypeInv, IndexInv, [Next]_vars PROVE IndexInv'
  OBVIOUS
<1>t. TypeOK
  BY DEF TypeInv
<1>e. Lossless(NewIndex) /\ NewIndex.finalized = FALSE
  BY DEF Lossless, NewIndex
<1>a. ASSUME Abort, UNCHANGED <<writer, ckpt>> PROVE IndexInv'
  BY <1>a, <1>e DEF Abort, writer, IndexInv, Complete, Lossless
<1>1. CASE WriterRotate \/ WriterPrune \/ WriterStop
  BY <1>1 DEF WriterRotate, WriterPrune, WriterStop, disk, IndexInv, Complete,
     Lossless
<1>2. CASE Crash \/ ScanRaises \/ RestoreVictim \/ RoundDone
  BY <1>2, <1>a DEF Crash, ScanRaises, RestoreVictim, RoundDone, disk
<1>3. CASE ReadHealth \/ BeginFinalize
  BY <1>3 DEF ReadHealth, BeginFinalize, writer, disk, IndexInv, Complete,
     Lossless
<1>4. ASSUME NEW c, Start(c), Lossless(c), Complete(c) PROVE IndexInv'
  BY <1>4 DEF Start, writer, disk, IndexInv, Complete, Lossless
<1>5. CASE ScanClosedSegments
  <2>1. Lossless(Advance(NewClosed, health, FALSE))
    BY <1>5, <1>t, ScanLossless DEF ScanClosedSegments, IndexInv
  <2>2. Complete(Advance(NewClosed, health, FALSE))
    <3>1. NewClosed \in SUBSET Segment /\ health \in Segment \cup {None}
      BY <1>t, OnDiskSegments DEF NewClosed, TypeOK
    <3>2. Advance(NewClosed, health, FALSE).finalized = FALSE
      BY <3>1, AdvanceFields
    <3>3. QED
      BY <3>2 DEF Complete
  <2>3. QED
    BY <1>4, <1>5, <2>1, <2>2 DEF ScanClosedSegments
<1>6. CASE FinalizeStoppedRun
  <2>1. CASE ckpt.finalized
    BY <1>4, <1>6, <2>1 DEF FinalizeStoppedRun, IndexInv
  <2>2. CASE ~ckpt.finalized
    <3>1. /\ Lossless(Advance(NewFinal, None, TRUE))
          /\ Advance(NewFinal, None, TRUE).last = active
      BY <1>6, <1>t, <2>2, FinalLossless DEF FinalizeStoppedRun, IndexInv
    <3>2. Complete(Advance(NewFinal, None, TRUE))
      BY <1>6, <3>1 DEF FinalizeStoppedRun, IndexInv, Complete
    <3>3. QED
      BY <1>4, <1>6, <2>2, <3>1, <3>2 DEF FinalizeStoppedRun
  <2>3. QED
    BY <2>1, <2>2
<1>7. CASE \/ RecoverSwap \/ RecoverSweep \/ SelectCandidates \/ SkipCandidate
           \/ PickCandidate \/ CopyToTemporary \/ PublishCopy \/ AcceptPin
           \/ CopyRaises \/ CheckpointVerified \/ CleanSwap
  <2>1. \/ Abort /\ UNCHANGED <<writer, ckpt>>
        \/ UNCHANGED <<writer, ckpt, next>> /\ pc' # "finalize"
    BY <1>7 DEF RecoverSwap, RecoverSweep, SelectCandidates, SkipCandidate,
       PickCandidate, CopyToTemporary, PublishCopy, AcceptPin, CopyRaises,
       CheckpointVerified, CleanSwap, disk
  <2>2. CASE UNCHANGED <<writer, ckpt, next>> /\ pc' # "finalize"
    BY <2>2 DEF writer, IndexInv, Complete, Lossless
  <2>3. QED
    BY <1>a, <2>1, <2>2
<1>8. CASE ReplaceCheckpoint
  <2>1. /\ ckpt'.last = next.last /\ ckpt'.first = next.first
        /\ ckpt'.indexed = next.indexed /\ ckpt'.count = next.count
        /\ ckpt'.finalized = next.finalized
    BY <1>8, <1>t DEF ReplaceCheckpoint, TypeOK, Index
  <2>2. UNCHANGED <<writer, next>> /\ pc' = "replaced"
    BY <1>8 DEF ReplaceCheckpoint
  <2>3. QED
    BY <2>1, <2>2 DEF writer, IndexInv, Complete, Lossless
<1>9. CASE CheckpointVerificationFails
  BY <1>9, <1>e DEF CheckpointVerificationFails, Abort, writer, IndexInv,
     Complete, Lossless
<1>10. CASE UNCHANGED vars
  BY <1>10 DEF vars, writer, disk, IndexInv, Complete, Lossless
<1>11. QED
  BY <1>1, <1>2, <1>3, <1>5, <1>6, <1>7, <1>8, <1>9, <1>10 DEF Next

(* The types, the pins and the index, from the initial state on. *)
LEMMA IndexInvariant == Spec => [](TypeInv /\ PinInv /\ IndexInv)
<1>1. Init => IndexInv
  BY DEF Init, NewIndex, IndexInv, Lossless, Complete
<1>2. QED
  BY <1>1, IndexStep, PinInvariant, PTL DEF Spec

(* IndexSound: although the writer rotates and prunes under the scan and       *)
(* rounds fail and are repeated, every index that is saved aggregates a        *)
(* gap-free range of segments exactly once, and a finalized one reaches the    *)
(* last segment the stopped writer wrote.                                      *)
THEOREM IndexGapFree == Spec => []IndexSound
<1>1. IndexInv => IndexSound
  BY DEF IndexInv, Lossless, Complete, IndexSound, IndexLossless,
     FinalizedReachesEnd
<1>2. QED
  BY <1>1, IndexInvariant, PTL

-------------------------------------------------------------------------------
(* The choice of the pins.  A segment is outdone by a full set of pins that    *)
(* all outrank it; the round owes the pins and the interesting segments of the *)
(* checkpoint, and chooses from those pins and the new candidates.             *)

Outdone(P, s) == Cardinality(P) = Retained /\ \A p \in P : Outranks(p, s)

Handling == Copying \cup {"pick"}

Fresh == next.indexed \ ckpt.indexed

Choice == ckpt.pins \cup PinCandidates(Fresh, ckpt.pins, ckpt.last)

Owed == ckpt.pins \cup {s \in ckpt.indexed : kind[s] # 0}

InHand == IF pc \in Copying THEN {cand} ELSE {}

(* What the round still wants to pin, and what it pinned, is in the top of the *)
(* choice; what it owes, and every interesting segment of the top, is pinned,  *)
(* still to be handled, or outdone.                                            *)
ChoiceInv ==
  pc \in Handling =>
    /\ queue \cup InHand \cup (pins \ ckpt.pins) \subseteq TopRanked(Choice)
    /\ swaps \subseteq ckpt.pins
    /\ \A s \in Owed : s \in pins \/ Outdone(pins, s)
    /\ \A s \in TopRanked(Choice) : kind[s] # 0 =>
         s \in pins \cup queue \cup InHand \/ Outdone(pins, s)

VictimInv ==
  pc \in Copying /\ victim # None =>
    /\ Cardinality(pins) = Retained /\ Outranks(cand, victim)
    /\ \A t \in pins \ {victim} : Outranks(t, victim)

RoundInv ==
  /\ pc \in Handling \cup {"recover"} => ckpt.indexed \subseteq next.indexed
  /\ pc = "recover" => queue = Fresh

SelectInv == SignalsKept /\ RoundInv /\ ChoiceInv /\ VictimInv

(* Being outdone passes down the ranking. *)
LEMMA OutdoneBelow ==
  ASSUME kind \in [Segment -> Kinds], NEW P \in SUBSET Segment,
         NEW s \in Segment, NEW t \in Segment, Outdone(P, t), Outranks(t, s)
  PROVE  Outdone(P, s)
BY RankOrder DEF Outdone

(* A swap of the lowest pin for a segment that outranks it outdoes the victim, *)
(* and whatever was outdone before.                                            *)
LEMMA OutdoneSwap ==
  ASSUME kind \in [Segment -> Kinds], NEW P \in SUBSET Segment,
         NEW v \in P, NEW c \in Segment \ P, Cardinality(P) = Retained,
         Outranks(c, v), \A t \in P \ {v} : Outranks(t, v)
  PROVE  /\ Outdone((P \ {v}) \cup {c}, v)
         /\ \A s \in Segment : Outdone(P, s) => Outdone((P \ {v}) \cup {c}, s)
<1>1. IsFiniteSet(P) /\ Cardinality(P) \in Nat
  BY SegmentsFinite
<1>2. IsFiniteSet(P \ {v}) /\ Cardinality(P \ {v}) = Cardinality(P) - 1
  BY <1>1, FS_RemoveElement
<1>3. Cardinality((P \ {v}) \cup {c}) = Cardinality(P \ {v}) + 1
  BY <1>2, FS_AddElement
<1>4. Cardinality((P \ {v}) \cup {c}) = Retained
  BY <1>1, <1>2, <1>3
<1>5. Outdone((P \ {v}) \cup {c}, v)
  BY <1>4 DEF Outdone
<1>6. ASSUME NEW s \in Segment, Outdone(P, s) PROVE Outdone((P \ {v}) \cup {c}, s)
  <2>1. Outranks(v, s)
    BY <1>6 DEF Outdone
  <2>2. Outranks(c, s)
    BY <2>1, RankOrder
  <2>3. QED
    BY <1>4, <1>6, <2>2 DEF Outdone
<1>7. QED
  BY <1>5, <1>6

(* A candidate that a full set of pins refuses is outdone by it. *)
LEMMA OutdoneSkip ==
  ASSUME kind \in [Segment -> Kinds], NEW P \in SUBSET Segment,
         NEW c \in Segment \ P, Cardinality(P) = Retained, ~Outranks(c, Lowest(P))
  PROVE  Outdone(P, c)
<1>1. P # {}
  BY FS_EmptySet, BoundsAssumption
<1>2. Lowest(P) \in P /\ \A t \in P \ {Lowest(P)} : Outranks(t, Lowest(P))
  BY <1>1, LowestMember
<1>3. Outranks(Lowest(P), c)
  BY <1>2, RankOrder
<1>4. \A p \in P : Outranks(p, c)
  BY <1>2, <1>3, RankOrder
<1>5. QED
  BY <1>4 DEF Outdone

(* A member of the top of U is not outranked by Retained members of U: the     *)
(* lowest of a full set of pins from U, with a candidate from U above it, is   *)
(* not in the top.                                                             *)
LEMMA VictimBelowTop ==
  ASSUME kind \in [Segment -> Kinds], NEW U \in SUBSET Segment,
         NEW P \in SUBSET U, NEW v \in P, NEW c \in U \ P,
         Cardinality(P) = Retained, Outranks(c, v),
         \A t \in P \ {v} : Outranks(t, v)
  PROVE  v \notin TopRanked(U)
<1> DEFINE B == {t \in U : Outranks(t, v)}
           Q == (P \ {v}) \cup {c}
<1>1. Q \subseteq B
  OBVIOUS
<1>2. P \in SUBSET Segment /\ B \in SUBSET Segment /\ Q \in SUBSET Segment
  OBVIOUS
<1>3. IsFiniteSet(P) /\ IsFiniteSet(B)
  BY <1>2, SegmentsFinite
<1>4. IsFiniteSet(P \ {v}) /\ Cardinality(P \ {v}) = Cardinality(P) - 1
  BY <1>3, FS_RemoveElement
<1>5. Cardinality(Q) = Cardinality(P \ {v}) + 1
  BY <1>4, FS_AddElement
<1> HIDE DEF Q
<1>6. Cardinality(Q) <= Cardinality(B)
  BY <1>1, <1>3, FS_Subset
<1>7. Cardinality(Q) = Retained /\ Cardinality(B) \in Nat
  BY <1>2, <1>4, <1>5, SegmentsFinite, BoundsAssumption
<1>8. ~(Cardinality(B) < Retained)
  BY <1>6, <1>7, BoundsAssumption
<1>9. QED
  BY <1>8 DEF TopRanked

(* When every interesting segment of the top is pinned or outdone, and so is   *)
(* every owed one, no interesting new segment is left: take the highest-ranked *)
(* one that would be; the Retained segments of the choice above it are all     *)
(* pinned, or one of them is outdone.                                          *)
LEMMA ChoiceExhausted ==
  ASSUME kind \in [Segment -> Kinds], NEW P \in SUBSET Segment,
         Cardinality(P) <= Retained, NEW U \in SUBSET Segment,
         NEW N \in SUBSET U,
         \A s \in N : kind[s] # 0,
         \A s \in U \ N : kind[s] # 0 => s \in P \/ Outdone(P, s),
         \A s \in N \cap TopRanked(U) : s \in P \/ Outdone(P, s)
  PROVE  \A s \in N : s \in P \/ Outdone(P, s)
<1> DEFINE Bad == {s \in N : ~(s \in P \/ Outdone(P, s))}
<1> SUFFICES ASSUME Bad # {} PROVE FALSE
  OBVIOUS
<1>1. Bad \in SUBSET Segment
  OBVIOUS
<1>2. PICK s \in Bad : \A t \in Bad \ {s} : Outranks(s, t)
  BY <1>1, HighestMember
<1> DEFINE B == {t \in U : Outranks(t, s)}
<1>3. s \in N /\ s \in U /\ s \in Segment /\ kind[s] # 0 /\ s \notin TopRanked(U)
  BY <1>2
<1>4. B \in SUBSET Segment /\ ~(Cardinality(B) < Retained)
  BY <1>3 DEF TopRanked
<1>5. ASSUME NEW t \in B PROVE t \in P
  <2>1. t \in Segment /\ t \in U /\ Outranks(t, s)
    OBVIOUS
  <2>2. t \notin Bad
    BY <1>2, <1>3, <2>1, RankOrder
  <2>3. kind[t] # 0
    BY <1>3, <2>1, PriorityType DEF Outranks
  <2>4. t \in P \/ Outdone(P, t)
    BY <2>1, <2>2, <2>3
  <2>5. ~Outdone(P, t)
    BY <1>2, <1>3, <2>1, OutdoneBelow
  <2>6. QED
    BY <2>4, <2>5
<1>6. /\ IsFiniteSet(P) /\ Cardinality(P) \in Nat /\ Cardinality(B) \in Nat
  BY <1>4, SegmentsFinite
<1>7. B \subseteq P
  BY <1>5
<1> HIDE DEF B
<1>8. Cardinality(B) <= Cardinality(P) /\ (Cardinality(B) = Cardinality(P) => B = P)
  BY <1>6, <1>7, FS_Subset
<1>9. B = P /\ Cardinality(P) = Retained
  BY <1>4, <1>6, <1>8, BoundsAssumption
<1>10. Outdone(P, s)
  BY <1>9 DEF B, Outdone
<1>11. QED
  BY <1>2, <1>10

(* The sets the choice is about contain segments only. *)
LEMMA ChoiceType ==
  ASSUME TypeOK
  PROVE  /\ Fresh \in SUBSET Segment /\ Choice \in SUBSET Segment
         /\ TopRanked(Choice) \subseteq Choice
<1>1. /\ ckpt.indexed \in SUBSET Segment /\ next.indexed \in SUBSET Segment
      /\ ckpt.pins \in SUBSET Segment
  BY DEF TypeOK, Index
<1>2. Fresh \in SUBSET Segment
  BY <1>1 DEF Fresh
<1>3. PinCandidates(Fresh, ckpt.pins, ckpt.last) \in SUBSET Segment
  BY <1>2 DEF PinCandidates
<1>4. QED
  BY <1>1, <1>2, <1>3 DEF Choice, TopRanked

(* Ranks are fixed: kind records why a segment is interesting once and for     *)
(* all, so a step that keeps the checkpoint and the new index keeps the choice *)
(* and its top.                                                                *)
LEMMA SameRanks ==
  ASSUME kind' = kind
  PROVE  \A s, t : Outranks(s, t)' <=> Outranks(s, t)
BY DEF Outranks, Priority

LEMMA SameChoice ==
  ASSUME kind' = kind, ckpt' = ckpt, next' = next
  PROVE  /\ Fresh' = Fresh /\ Owed' = Owed /\ Choice' = Choice
         /\ TopRanked(Choice)' = TopRanked(Choice)
<1>1. Fresh' = Fresh /\ Owed' = Owed
  BY DEF Fresh, Owed
<1>2. Choice' = Choice
  BY <1>1 DEF Choice, PinCandidates, Priority
<1>3. \A s, t : Outranks(s, t)' <=> Outranks(s, t)
  BY SameRanks
<1>4. ASSUME NEW s
      PROVE  s \in TopRanked(Choice)' <=> s \in TopRanked(Choice)
  <2>1. {t \in Choice : Outranks(t, s)}' = {t \in Choice : Outranks(t, s)}
    BY <1>2, <1>3
  <2>2. Cardinality({t \in Choice : Outranks(t, s)})'
          = Cardinality({t \in Choice : Outranks(t, s)})
    BY <2>1
  <2>3. QED
    BY <1>2, <2>2 DEF TopRanked
<1>5. QED
  BY <1>1, <1>2, <1>4

LEMMA SameOutdone ==
  ASSUME kind' = kind, pins' = pins
  PROVE  \A s : Outdone(pins, s)' <=> Outdone(pins, s)
<1>1. \A s, t : Outranks(s, t)' <=> Outranks(s, t)
  BY SameRanks
<1>2. QED
  BY <1>1 DEF Outdone

(* The parts of the invariant after a step that keeps the checkpoint. *)
LEMMA SignalsStay ==
  ASSUME SignalsKept, kind' = kind, ckpt' = ckpt
  PROVE  SignalsKept'
BY SameRanks DEF SignalsKept

LEMMA OutsideRound ==
  ASSUME SignalsKept', pc' \notin Handling \cup {"recover"}
  PROVE  SelectInv'
BY DEF SelectInv, RoundInv, ChoiceInv, VictimInv, Handling

(* A step that touches none of the round's lists. *)
LEMMA ListsStay ==
  ASSUME SelectInv, kind' = kind,
         UNCHANGED <<ckpt, next, pins, queue, cand, victim, swaps>>,
         \/ pc' = pc
         \/ pc \in Copying /\ pc' \in Copying
  PROVE  SelectInv'
<1>1. /\ Fresh' = Fresh /\ Owed' = Owed /\ Choice' = Choice
      /\ TopRanked(Choice)' = TopRanked(Choice)
  BY SameChoice
<1>2. \A s : Outdone(pins, s)' <=> Outdone(pins, s)
  BY SameOutdone
<1>3. InHand' = InHand /\ (pc' \in Copying <=> pc \in Copying)
  BY DEF InHand
<1>4. ChoiceInv'
  BY <1>1, <1>2, <1>3 DEF SelectInv, ChoiceInv, Handling
<1>5. VictimInv'
  BY <1>3, SameRanks DEF SelectInv, VictimInv
<1>6. RoundInv'
  BY <1>1, <1>3 DEF SelectInv, RoundInv, Handling, Copying
<1>7. QED
  BY <1>4, <1>5, <1>6, SignalsStay DEF SelectInv

(* SelectCandidates: the queue is the part of the top that is not pinned yet. *)
LEMMA SelectStart ==
  ASSUME TypeOK, PinInv, SelectInv, SelectCandidates, pc' = "pick"
  PROVE  SelectInv'
<1> DEFINE new == PinCandidates(queue, pins, ckpt.last) \ pins
<1>1. /\ pc = "recover" /\ swaps = {} /\ swaps' = swaps /\ kind' = kind
      /\ UNCHANGED <<ckpt, next, pins>>
      /\ queue' = new \cap TopRanked(pins \cup new)
  BY DEF SelectCandidates, Abort, writer, disk
<1>2. pins = ckpt.pins /\ queue = Fresh
  BY <1>1 DEF PinInv, QuietInv, SelectInv, RoundInv
<1>3. pins \cup new = Choice
  BY <1>2 DEF Choice
<1>4. /\ Owed' = Owed /\ Choice' = Choice
      /\ TopRanked(Choice)' = TopRanked(Choice)
  BY <1>1, SameChoice
<1> HIDE DEF new
<1>5. InHand' = {}
  BY DEF InHand, Copying
<1>6. queue' \cup InHand' \cup (pins' \ ckpt'.pins) \subseteq TopRanked(Choice)'
  BY <1>1, <1>2, <1>3, <1>4, <1>5
<1>7. \A s \in Owed : s \in pins \/ Outdone(pins, s)
  BY <1>2 DEF Owed, SelectInv, SignalsKept, Outdone
<1>8. \A s : Outdone(pins, s)' <=> Outdone(pins, s)
  BY <1>1, SameOutdone
<1>9. \A s \in TopRanked(Choice) : s \in pins \cup queue'
  BY <1>1, <1>3 DEF TopRanked
<1>10. ChoiceInv'
  BY <1>1, <1>4, <1>6, <1>7, <1>8, <1>9 DEF ChoiceInv
<1>11. VictimInv' /\ RoundInv'
  BY <1>1 DEF VictimInv, RoundInv, Copying, SelectInv, Handling
<1>12. QED
  BY <1>1, <1>10, <1>11, SignalsStay DEF SelectInv

(* SkipCandidate: an interesting candidate is skipped only when it is outdone. *)
LEMMA SelectSkip ==
  ASSUME TypeOK, PinInv, SelectInv, SkipCandidate
  PROVE  SelectInv'
<1> DEFINE c == First(queue)
<1>1. /\ pc = "pick" /\ pc' = "pick" /\ kind' = kind /\ queue # {} /\ Skips(c)
      /\ UNCHANGED <<ckpt, next, pins, swaps>> /\ queue' = queue \ {c}
  BY DEF SkipCandidate, writer, disk
<1>2. c \in queue /\ c \in Segment /\ c \notin pins
  <2>1. queue \in SUBSET Segment
    BY DEF TypeOK
  <2>2. c \in queue
    BY <1>1, <2>1, FirstMember, SegmentSubsetNat
  <2>3. QED
    BY <1>1, <2>1, <2>2 DEF PinInv, ListsInv
<1> HIDE DEF c
<1>3. kind[c] # 0 => Outdone(pins, c)
  <2>1. SUFFICES ASSUME kind[c] # 0 PROVE Outdone(pins, c)
    OBVIOUS
  <2>2. kind \in [Segment -> Kinds] /\ pins \in SUBSET Segment
    BY DEF TypeOK
  <2>3. ~(Priority(c) < 200)
    BY <1>2, <2>1, <2>2, PriorityType
  <2>4. Cardinality(pins) >= Retained /\ ~Outranks(c, Lowest(pins))
    BY <1>1, <2>3 DEF Skips
  <2>5. Cardinality(pins) = Retained
    BY <1>1, <2>2, <2>4, SegmentsFinite, BoundsAssumption DEF PinInv, ListsInv
  <2>6. QED
    BY <1>2, <2>2, <2>4, <2>5, OutdoneSkip
<1>4. /\ Owed' = Owed /\ Choice' = Choice
      /\ TopRanked(Choice)' = TopRanked(Choice)
  BY <1>1, SameChoice
<1>5. InHand' = {} /\ InHand = {}
  BY <1>1 DEF InHand, Copying
<1>6. \A s : Outdone(pins, s)' <=> Outdone(pins, s)
  BY <1>1, SameOutdone
<1>7. ChoiceInv'
  BY <1>1, <1>3, <1>4, <1>5, <1>6 DEF SelectInv, ChoiceInv, Handling
<1>8. VictimInv' /\ RoundInv'
  BY <1>1 DEF VictimInv, RoundInv, Copying, SelectInv, Handling
<1>9. QED
  BY <1>1, <1>7, <1>8, SignalsStay DEF SelectInv

(* PickCandidate: a full set of pins gives up a pin of the checkpoint, since   *)
(* one the round pinned itself is in the top of the choice.                    *)
LEMMA SelectPick ==
  ASSUME TypeOK, PinInv, SelectInv, PickCandidate, pc' = "copy"
  PROVE  SelectInv'
<1> DEFINE c == First(queue)
           v == Lowest(pins)
           V == IF Cardinality(pins) < Retained THEN {} ELSE {v}
<1>1. /\ pc = "pick" /\ kind' = kind /\ queue # {} /\ ~Skips(c)
      /\ UNCHANGED <<ckpt, next, pins>> /\ queue' = queue \ {c} /\ cand' = c
      /\ victim' = (IF V = {} THEN None ELSE v)
      /\ swaps' = swaps \cup V
  BY DEF PickCandidate, Abort, writer
<1>2. c \in queue /\ c \in Segment /\ c \notin pins
  <2>1. queue \in SUBSET Segment
    BY DEF TypeOK
  <2>2. c \in queue
    BY <1>1, <2>1, FirstMember, SegmentSubsetNat
  <2>3. QED
    BY <1>1, <2>1, <2>2 DEF PinInv, ListsInv
<1> HIDE DEF c
<1>3. /\ Owed' = Owed /\ Choice' = Choice
      /\ TopRanked(Choice)' = TopRanked(Choice)
  BY <1>1, SameChoice
<1>4. InHand' = {c} /\ InHand = {}
  BY <1>1 DEF InHand, Copying
<1>5. \A s : Outdone(pins, s)' <=> Outdone(pins, s)
  BY <1>1, SameOutdone
<1>6. kind \in [Segment -> Kinds] /\ pins \in SUBSET Segment
  BY DEF TypeOK
<1>7. ASSUME ~(Cardinality(pins) < Retained)
      PROVE  /\ Cardinality(pins) = Retained /\ v \in pins /\ Outranks(c, v)
             /\ \A t \in pins \ {v} : Outranks(t, v)
             /\ v \in ckpt.pins
  <2>1. Cardinality(pins) = Retained
    BY <1>1, <1>6, <1>7, SegmentsFinite, BoundsAssumption DEF PinInv, ListsInv
  <2>2. pins # {}
    BY <2>1, FS_EmptySet, BoundsAssumption
  <2>3. v \in pins /\ \A t \in pins \ {v} : Outranks(t, v)
    BY <1>6, <2>2, LowestMember
  <2>4. Outranks(c, v)
    BY <1>1, <2>1, BoundsAssumption DEF Skips
  <2>5. pins \subseteq Choice /\ c \in Choice /\ Choice \in SUBSET Segment
    <3>1. TopRanked(Choice) \subseteq Choice /\ Choice \in SUBSET Segment
      BY ChoiceType
    <3>2. ckpt.pins \subseteq Choice
      BY DEF Choice
    <3>3. queue \cup (pins \ ckpt.pins) \subseteq TopRanked(Choice)
      BY <1>1 DEF SelectInv, ChoiceInv, Handling
    <3>4. QED
      BY <1>2, <3>1, <3>2, <3>3
  <2>6. v \notin TopRanked(Choice)
    BY <1>2, <1>6, <2>1, <2>3, <2>4, <2>5, VictimBelowTop
  <2>7. v \in ckpt.pins
    BY <1>1, <2>3, <2>6 DEF SelectInv, ChoiceInv, Handling
  <2>8. QED
    BY <2>1, <2>3, <2>4, <2>7
<1> HIDE DEF v
<1>8. swaps' \subseteq ckpt.pins
  BY <1>1, <1>7 DEF SelectInv, ChoiceInv, Handling
<1>9. ChoiceInv'
  BY <1>1, <1>2, <1>3, <1>4, <1>5, <1>8 DEF SelectInv, ChoiceInv, Handling
<1>10. VictimInv'
  BY <1>1, <1>7, SameRanks DEF VictimInv
<1>11. RoundInv'
  BY <1>1 DEF RoundInv, SelectInv, Handling
<1>12. QED
  BY <1>1, <1>9, <1>10, <1>11, SignalsStay DEF SelectInv

(* AcceptPin: the candidate takes a free place or that of a victim it outdoes. *)
LEMMA SelectAccept ==
  ASSUME TypeInv, PinInv, SelectInv, AcceptPin
  PROVE  SelectInv'
<1> DEFINE Q == (pins \ {victim}) \cup {cand}
<1>1. /\ pc = "verify" /\ pc' = "pick" /\ kind' = kind /\ pins' = Q
      /\ UNCHANGED <<ckpt, next, queue, swaps>>
  BY DEF AcceptPin, writer, disk
<1>2. /\ kind \in [Segment -> Kinds] /\ pins \in SUBSET Segment
      /\ cand \in Segment /\ cand \notin pins
  BY <1>1 DEF TypeInv, TypeOK, PinInv, FilesInv, Copying
<1>3. ASSUME NEW s \in Segment, s \in pins \/ Outdone(pins, s)
      PROVE  s \in Q \/ Outdone(Q, s)
  <2>1. CASE victim = None
    <3>1. Cardinality(pins) < Retained /\ Cardinality(pins) \in Nat
      BY <1>1, <1>2, <2>1, SegmentsFinite DEF PinInv, FilesInv, Copying
    <3>2. ~Outdone(pins, s) /\ None \notin Segment
      BY <3>1, BoundsAssumption DEF Outdone, Segment, None
    <3>3. QED
      BY <1>3, <2>1, <3>2
  <2>2. CASE victim # None
    <3>1. /\ Cardinality(pins) = Retained /\ Outranks(cand, victim)
          /\ \A t \in pins \ {victim} : Outranks(t, victim)
      BY <1>1, <2>2 DEF SelectInv, VictimInv, Copying
    <3>2. victim \in pins
      BY <1>1, <2>2 DEF PinInv, FilesInv, Copying
    <3>3. Outdone(Q, victim) /\ (Outdone(pins, s) => Outdone(Q, s))
      BY <1>2, <1>3, <3>1, <3>2, OutdoneSwap
    <3>4. QED
      BY <1>3, <3>3
  <2>3. QED
    BY <2>1, <2>2
<1>4. cand \in Q /\ Q \subseteq pins \cup {cand}
  OBVIOUS
<1> HIDE DEF Q
<1>5. \A s : Outdone(pins, s)' <=> Outdone(Q, s)
  BY <1>1, SameRanks DEF Outdone
<1>6. /\ Owed' = Owed /\ Choice' = Choice
      /\ TopRanked(Choice)' = TopRanked(Choice)
  BY <1>1, SameChoice
<1>7. InHand' = {} /\ InHand = {cand}
  BY <1>1 DEF InHand, Copying
<1>8. Owed \subseteq Segment /\ TopRanked(Choice) \subseteq Segment
  BY ChoiceType DEF TypeInv, TypeOK, Index, Owed
<1>9. /\ queue \cup {cand} \cup (pins \ ckpt.pins) \subseteq TopRanked(Choice)
      /\ swaps \subseteq ckpt.pins
      /\ \A s \in Owed : s \in pins \/ Outdone(pins, s)
      /\ \A s \in TopRanked(Choice) : kind[s] # 0 =>
           s \in pins \cup queue \cup {cand} \/ Outdone(pins, s)
  BY <1>1, <1>7 DEF SelectInv, ChoiceInv, Handling, Copying
<1>10. \A s \in Owed : s \in Q \/ Outdone(Q, s)
  BY <1>3, <1>8, <1>9
<1>11. \A s \in TopRanked(Choice) : kind[s] # 0 =>
         s \in Q \cup queue \/ Outdone(Q, s)
  BY <1>3, <1>4, <1>8, <1>9
<1>12. ChoiceInv'
  BY <1>1, <1>4, <1>5, <1>6, <1>7, <1>9, <1>10, <1>11 DEF ChoiceInv
<1>13. VictimInv' /\ RoundInv'
  BY <1>1 DEF VictimInv, RoundInv, Copying, SelectInv, Handling
<1>14. QED
  BY <1>1, <1>12, <1>13, SignalsStay DEF SelectInv

(* When the queue is empty, every interesting segment of the new index is      *)
(* pinned or outdone.                                                          *)
LEMMA RoundOwesNothing ==
  ASSUME TypeOK, PinInv, IndexInv, SelectInv, pc = "pick", queue = {},
         NEW s \in next.indexed, kind[s] # 0
  PROVE  s \in pins \/ Outdone(pins, s)
<1>1. /\ kind \in [Segment -> Kinds] /\ pins \in SUBSET Segment
      /\ Cardinality(pins) <= Retained
  BY DEF TypeOK, PinInv, ListsInv
<1>2. InHand = {}
  BY DEF InHand, Copying
<1>3. /\ \A t \in Owed : t \in pins \/ Outdone(pins, t)
      /\ \A t \in TopRanked(Choice) : kind[t] # 0 => t \in pins \/ Outdone(pins, t)
  BY <1>2 DEF SelectInv, ChoiceInv, Handling
<1>4. CASE s \in ckpt.indexed
  BY <1>3, <1>4 DEF Owed
<1>5. CASE s \notin ckpt.indexed
  <2> DEFINE N == {t \in Fresh : kind[t] # 0}
  <2>1. Choice \in SUBSET Segment /\ N \in SUBSET Choice
    BY ChoiceType DEF Choice, PinCandidates
  <2>2. ASSUME NEW t \in Choice \ N, kind[t] # 0
        PROVE  t \in pins \/ Outdone(pins, t)
    <3>1. t \in ckpt.pins \/ t = ckpt.last
      BY <2>2 DEF Choice, PinCandidates
    <3>2. CASE t = ckpt.last
      <4>1. t \in Segment /\ t # None
        <5>1. t \in Segment
          BY <2>1
        <5>2. t \in Nat
          BY <5>1, SegmentSubsetNat
        <5>3. QED
          BY <5>1, <5>2 DEF None
      <4>2. ckpt.first \in Segment /\ ckpt.first <= ckpt.last
            /\ ckpt.indexed = ckpt.first .. ckpt.last
        BY <3>2, <4>1 DEF IndexInv, Lossless
      <4>3. t \in ckpt.indexed
        <5>1. ckpt.first \in Int /\ t \in Int /\ ckpt.first <= t
          BY <3>2, <4>1, <4>2, SegmentSubsetNat
        <5>2. t \in ckpt.first .. t
          BY <5>1
        <5>3. QED
          BY <3>2, <4>2, <5>2
      <4>4. QED
        BY <1>3, <2>2, <4>3 DEF Owed
    <3>3. QED
      BY <1>3, <3>1, <3>2 DEF Owed
  <2>3. \A t \in N \cap TopRanked(Choice) : t \in pins \/ Outdone(pins, t)
    BY <1>3
  <2>4. \A t \in N : kind[t] # 0
    OBVIOUS
  <2>5. s \in N
    BY <1>5 DEF Fresh
  <2> HIDE DEF N
  <2>6. QED
    BY <1>1, <2>1, <2>2, <2>3, <2>4, <2>5, ChoiceExhausted
<1>6. QED
  BY <1>4, <1>5

(* Every step keeps the invariant of the choice. *)
LEMMA SelectStep ==
  ASSUME TypeInv, PinInv, IndexInv, SelectInv, [Next]_vars
  PROVE  SelectInv'
<1>t. TypeOK
  BY DEF TypeInv
<1>s. SignalsKept
  BY DEF SelectInv
<1>a. ASSUME Abort, kind' = kind, ckpt' = ckpt PROVE SelectInv'
  BY <1>a, <1>s, SignalsStay, OutsideRound DEF Abort, Handling, Copying
<1>1. CASE WriterRotate \/ WriterPrune \/ WriterStop
  BY <1>1, ListsStay DEF WriterRotate, WriterPrune, WriterStop, disk, round
<1>2. CASE Crash \/ ScanRaises \/ RestoreVictim \/ RoundDone
  BY <1>2, <1>a DEF Crash, ScanRaises, RestoreVictim, RoundDone, writer, disk
<1>3. CASE ReadHealth \/ BeginFinalize \/ CheckpointVerified
  BY <1>3, <1>s, SignalsStay, OutsideRound DEF ReadHealth, BeginFinalize,
     CheckpointVerified, writer, disk, Handling, Copying
<1>4. ASSUME NEW c, Start(c), ckpt.indexed \subseteq c.indexed PROVE SelectInv'
  <2>1. /\ pc' = "recover" /\ queue' = Fresh' /\ ckpt'.indexed \subseteq next'.indexed
        /\ kind' = kind /\ ckpt' = ckpt
    BY <1>4 DEF Start, writer, disk, Fresh
  <2>2. QED
    BY <1>s, <2>1, SignalsStay DEF SelectInv, RoundInv, ChoiceInv, VictimInv,
       Handling, Copying
<1>5. CASE ScanClosedSegments \/ FinalizeStoppedRun
  <2>1. \A S, h, d : ckpt.indexed \subseteq Advance(S, h, d).indexed
    BY DEF Advance
  <2>2. QED
    BY <1>4, <1>5, <2>1 DEF ScanClosedSegments, FinalizeStoppedRun
<1>6. CASE RecoverSwap \/ RecoverSweep
  <2>1. \/ Abort /\ kind' = kind /\ ckpt' = ckpt
        \/ /\ kind' = kind /\ UNCHANGED <<ckpt, next, queue>>
           /\ pc = "recover" /\ pc' = pc
    BY <1>6 DEF RecoverSwap, RecoverSweep, writer, disk, round
  <2>2. ASSUME kind' = kind, UNCHANGED <<ckpt, next, queue>>, pc = "recover", pc' = pc
        PROVE  SelectInv'
    BY <1>s, <2>2, SignalsStay DEF SelectInv, RoundInv, ChoiceInv, VictimInv,
       Handling, Copying, Fresh
  <2>3. QED
    BY <1>a, <2>1, <2>2
<1>7. CASE SelectCandidates
  <2>1. (Abort /\ kind' = kind /\ ckpt' = ckpt) \/ pc' = "pick"
    BY <1>7 DEF SelectCandidates, writer, disk
  <2>2. QED
    BY <1>7, <1>a, <1>t, <2>1, SelectStart
<1>8. CASE SkipCandidate
  BY <1>8, <1>t, SelectSkip
<1>9. CASE PickCandidate
  <2>1. (Abort /\ kind' = kind /\ ckpt' = ckpt) \/ pc' = "copy"
    BY <1>9 DEF PickCandidate, writer, disk
  <2>2. QED
    BY <1>9, <1>a, <1>t, <2>1, SelectPick
<1>10. CASE CopyToTemporary \/ PublishCopy \/ CopyRaises
  <2>1. /\ kind' = kind /\ pc \in Copying /\ pc' \in Copying
        /\ UNCHANGED <<ckpt, next, pins, queue, cand, victim, swaps>>
    BY <1>10 DEF CopyToTemporary, PublishCopy, CopyRaises, writer, round, Copying
  <2>2. QED
    BY <2>1, ListsStay
<1>11. CASE AcceptPin
  BY <1>11, SelectAccept
<1>12. CASE ReplaceCheckpoint
  <2>1. /\ pc = "pick" /\ queue = {} /\ pc' = "replaced" /\ kind' = kind
        /\ ckpt'.pins = pins /\ ckpt'.indexed = next.indexed
    BY <1>12, <1>t DEF ReplaceCheckpoint, writer, TypeOK, Index
  <2>2. \A s \in next.indexed : kind[s] # 0 => s \in pins \/ Outdone(pins, s)
    BY <1>t, <2>1, RoundOwesNothing
  <2>3. SignalsKept'
    BY <2>1, <2>2, SameRanks DEF SignalsKept, Outdone
  <2>4. QED
    BY <2>1, <2>3, OutsideRound DEF Handling, Copying
<1>13. CASE CheckpointVerificationFails
  <2>1. ckpt'.indexed = {} /\ pc' = "idle"
    BY <1>13 DEF CheckpointVerificationFails, Abort, NewIndex
  <2>2. QED
    BY <2>1, OutsideRound DEF SignalsKept, Handling, Copying
<1>14. CASE CleanSwap
  <2>1. Abort \/ pc' = "cleanup"
    BY <1>14 DEF CleanSwap
  <2>2. kind' = kind /\ ckpt' = ckpt
    BY <1>14 DEF CleanSwap, writer, disk
  <2>3. QED
    BY <1>a, <1>s, <2>1, <2>2, SignalsStay, OutsideRound DEF Handling, Copying
<1>15. CASE UNCHANGED vars
  BY <1>15, ListsStay DEF vars, writer, disk, round
<1>16. QED
  BY <1>1, <1>2, <1>3, <1>5, <1>6, <1>7, <1>8, <1>9, <1>10, <1>11, <1>12, <1>13,
     <1>14, <1>15 DEF Next

(* All invariants of the round, from the initial state on. *)
LEMMA SelectInvariant == Spec => [](TypeInv /\ PinInv /\ IndexInv /\ SelectInv)
<1>1. Init => SelectInv
  BY DEF Init, NewIndex, SelectInv, SignalsKept, RoundInv, ChoiceInv, VictimInv,
     Handling, Copying
<1>2. TypeInv /\ PinInv /\ IndexInv /\ SelectInv /\ [Next]_vars => SelectInv'
  BY SelectStep
<1>3. QED
  BY <1>1, <1>2, IndexInvariant, PTL DEF Spec

(* SelectionSound: however rounds are cut short and repeated, a round moves    *)
(* aside only pins of the durable checkpoint, and every interesting segment a  *)
(* checkpoint covers is pinned in it, or its budget is full of pins that       *)
(* outrank that segment.                                                       *)
THEOREM BestEvidenceKept == Spec => []SelectionSound
<1>1. SelectInv => SelectionSound
  BY DEF SelectInv, ChoiceInv, SelectionSound, VictimsDurable, Handling, Copying
<1>2. QED
  BY <1>1, SelectInvariant, PTL

-------------------------------------------------------------------------------
(* A repeated finalization finds nothing to do. *)

FinalInv ==
  ckpt.finalized /\ pc \in Handling \cup {"recover"} =>
    next = ckpt /\ pins = ckpt.pins /\ queue = {} /\ pc \notin Copying

LEMMA FinalStep ==
  ASSUME TypeInv, PinInv, FinalInv, [Next]_vars
  PROVE  FinalInv'
<1>1. CASE \/ WriterRotate \/ WriterPrune \/ WriterStop \/ RecoverSweep
           \/ UNCHANGED vars
  BY <1>1 DEF WriterRotate, WriterPrune, WriterStop, RecoverSweep, disk, round,
     vars, FinalInv
<1>2. CASE \/ Crash \/ ScanRaises \/ RestoreVictim \/ RoundDone \/ ReadHealth
           \/ BeginFinalize \/ CheckpointVerified \/ ReplaceCheckpoint
           \/ CheckpointVerificationFails \/ CleanSwap
  <2>1. pc' \notin Handling \cup {"recover"}
    BY <1>2 DEF Crash, ScanRaises, RestoreVictim, RoundDone, ReadHealth,
       BeginFinalize, CheckpointVerified, ReplaceCheckpoint,
       CheckpointVerificationFails, CleanSwap, Abort, Handling, Copying
  <2>2. QED
    BY <2>1 DEF FinalInv
<1>3. CASE ScanClosedSegments
  BY <1>3 DEF ScanClosedSegments, ClosedSuffixComplete, Start, disk, FinalInv
<1>4. CASE FinalizeStoppedRun
  BY <1>4 DEF FinalizeStoppedRun, Start, disk, FinalInv, Copying
<1>5. CASE RecoverSwap
  BY <1>5 DEF RecoverSwap, Abort, disk, round, FinalInv, Handling, Copying
<1>6. CASE SelectCandidates
  <2>1. \A P, l : PinCandidates({}, P, l) = {}
    BY DEF PinCandidates
  <2>2. QED
    BY <1>6, <2>1 DEF SelectCandidates, Abort, disk, FinalInv, Handling, Copying
<1>7. CASE SkipCandidate \/ PickCandidate
  BY <1>7 DEF SkipCandidate, PickCandidate, Abort, disk, FinalInv, Handling,
     Copying
<1>8. CASE CopyToTemporary \/ PublishCopy \/ AcceptPin \/ CopyRaises
  BY <1>8 DEF CopyToTemporary, PublishCopy, AcceptPin, CopyRaises, disk,
     FinalInv, Handling, Copying
<1>9. QED
  BY <1>1, <1>2, <1>3, <1>4, <1>5, <1>6, <1>7, <1>8 DEF Next

(* RoundsMonotone: from one checkpoint to the next a pin gives way only to a   *)
(* full budget of pins that outrank it, and a repeated finalization replaces   *)
(* the checkpoint by itself.                                                   *)
THEOREM PinsOnlyImprove == Spec => RoundsMonotone
<1> DEFINE Improves ==
      ckpt'.exists =>
        /\ \A p \in ckpt.pins \ ckpt'.pins :
             /\ Cardinality(ckpt'.pins) = Retained
             /\ \A q \in ckpt'.pins : Outranks(q, p)
        /\ ckpt.finalized => ckpt' = ckpt
<1>1. Init => FinalInv
  BY DEF Init, NewIndex, FinalInv
<1>2. TypeInv /\ PinInv /\ FinalInv /\ [Next]_vars => FinalInv'
  BY FinalStep
<1>3. ASSUME TypeInv, PinInv, SelectInv, FinalInv, [Next]_vars PROVE [Improves]_ckpt
  <2>1. CASE ReplaceCheckpoint
    <3>1. ckpt \in Index /\ next \in Index /\ pins \in SUBSET Segment
      BY <1>3 DEF TypeInv, TypeOK
    <3>2. /\ pc = "pick" /\ ckpt' = [next EXCEPT !.pins = pins] /\ ckpt'.pins = pins
      BY <2>1, <3>1 DEF ReplaceCheckpoint, Index
    <3>3. \A p \in ckpt.pins : p \in pins \/ Outdone(pins, p)
      BY <1>3, <3>2 DEF SelectInv, ChoiceInv, Handling, Owed
    <3>4. ckpt.finalized => ckpt' = ckpt
      BY <1>3, <3>1, <3>2 DEF FinalInv, Handling, Index
    <3>5. QED
      BY <3>2, <3>3, <3>4 DEF Outdone
  <2>2. CASE CheckpointVerificationFails
    BY <2>2 DEF CheckpointVerificationFails, NewIndex
  <2>3. CASE ~ReplaceCheckpoint /\ ~CheckpointVerificationFails
    <3>1. ckpt' = ckpt
      BY <1>3, <2>3 DEF Next, vars, disk, WriterRotate, WriterPrune, WriterStop,
         Crash, ReadHealth, BeginFinalize, ScanClosedSegments,
         FinalizeStoppedRun, Start, ScanRaises, RecoverSwap, RecoverSweep,
         SelectCandidates, SkipCandidate, PickCandidate, CopyToTemporary,
         PublishCopy, AcceptPin, CopyRaises, RestoreVictim, CheckpointVerified,
         CleanSwap, RoundDone
    <3>2. QED
      BY <3>1
  <2>4. QED
    BY <2>1, <2>2, <2>3
<1>4. QED
  BY <1>1, <1>2, <1>3, SelectInvariant, PTL DEF Spec, RoundsMonotone
===============================================================================
