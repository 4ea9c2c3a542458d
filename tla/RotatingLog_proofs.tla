--------------------------- MODULE RotatingLog_proofs --------------------------
(* Proofs about RotatingLog, for every set of limits and every bound. *)
EXTENDS RotatingLog, TLAPS

(* The types follow step by step from the loop index staying below the number  *)
(* of retained generations and from calls writing no more than they have left. *)
InCall ==
  pc \in {"write", "record"} \/ (pc \in {"rotate", "shift"} /\ ret # "ready")

LoopInv ==
  /\ pc = "shift" => idx + 1 \in Generation /\ idx + 1 < retained
  /\ InCall => left > 0
  /\ pc = "prune" => ret = "ready"

Types == TypeOK /\ LoopInv

(* The disk part of the types, in the form the file operations preserve. *)
DiskOK ==
  /\ exist \subseteq Generation
  /\ seg \in [Generation -> [from : Nat, to : Nat]]
  /\ \A i \in Generation : seg[i].from <= seg[i].to
  /\ written \in Nat

(* Deleting a file keeps the disk well typed. *)
LEMMA UnlinkTyped ==
  ASSUME DiskOK, NEW i \in Generation, Unlink(i), written' = written
  PROVE  DiskOK'
BY DEF DiskOK, Unlink, Empty

(* Renaming a file to the next generation keeps the disk well typed. *)
LEMMA ReplaceTyped ==
  ASSUME DiskOK, NEW i \in Generation, i + 1 \in Generation, Replace(i),
         written' = written
  PROVE  DiskOK'
BY DEF DiskOK, Replace, Empty

(* Appending to the active file keeps the disk well typed. *)
LEMMA AppendTyped ==
  ASSUME DiskOK, NEW n \in Nat, Append(n)
  PROVE  DiskOK'
<1>0. 0 \in Generation
  BY LogAssumption DEF Generation
<1>1. DEFINE s == IF 0 \in exist THEN seg[0] ELSE [from |-> written, to |-> written]
<1>2. s \in [from : Nat, to : Nat] /\ s.from <= s.to
  BY <1>0 DEF DiskOK
<1>3. [from |-> s.from, to |-> s.to + n] \in [from : Nat, to : Nat]
      /\ s.from <= s.to + n
  BY <1>2
<1>4. seg' = [seg EXCEPT ![0] = [from |-> s.from, to |-> s.to + n]]
  BY DEF Append
<1>5. QED
  BY <1>0, <1>3, <1>4 DEF DiskOK, Append

(* The initial state is well typed. *)
LEMMA TypesInit == Init => Types
BY LogAssumption DEF Init, Types, TypeOK, LoopInv, InCall, Generation, Empty

(* Every step keeps the types. *)
LEMMA TypesStep == Types /\ [Next]_vars => Types'
<1> SUFFICES ASSUME Types, [Next]_vars PROVE Types'
  OBVIOUS
<1> USE DEF Types
<1>0. DiskOK /\ retained \in 1 .. MaxRetained /\ limit \in Nat \ {0}
  BY LogAssumption DEF TypeOK, DiskOK
<1>d. DiskOK' => exist' \subseteq Generation
                 /\ seg' \in [Generation -> [from : Nat, to : Nat]]
                 /\ (\A i \in Generation : seg'[i].from <= seg'[i].to)
                 /\ written' \in Nat
  BY DEF DiskOK
<1>1. CASE Open
  BY <1>1 DEF Open, disk, TypeOK, LoopInv, InCall
<1>2. CASE PruneInvalidGeneration
  <2>1. DiskOK'
    BY <1>0, <1>2, UnlinkTyped DEF PruneInvalidGeneration, DiskOK
  <2>2. QED
    BY <1>2, <1>d, <2>1 DEF PruneInvalidGeneration, TypeOK, LoopInv, InCall
<1>3. CASE StartNewRun
  <2>1. DiskOK'
    BY <1>0, <1>3, UnlinkTyped DEF StartNewRun, DiskOK
  <2>2. QED
    BY <1>3, <1>d, <2>1 DEF StartNewRun, TypeOK, LoopInv, InCall
<1>4. CASE BeginRotate
  <2>1. 0 \in Generation /\ retained - 1 \in Generation
    BY <1>0, LogAssumption DEF Generation
  <2>2. DiskOK'
    BY <1>0, <1>4, <2>1, UnlinkTyped DEF BeginRotate
  <2>3. CASE retained = 1
    BY <1>4, <1>d, <2>2, <2>3 DEF BeginRotate, TypeOK, LoopInv, InCall
  <2>4. CASE retained # 1
    <3>1. idx' = retained - 2 /\ idx' \in Nat
      BY <1>0, <1>4, <2>4 DEF BeginRotate
    <3>2. QED
      BY <1>0, <1>4, <1>d, <2>1, <2>2, <2>4, <3>1 DEF BeginRotate, TypeOK, LoopInv, InCall
  <2>5. QED
    BY <2>3, <2>4
<1>5. CASE Shift
  <2>1. idx \in Generation /\ idx + 1 \in Generation /\ idx - 1 \in Nat
    BY <1>5, LogAssumption DEF Shift, LoopInv, TypeOK, Generation
  <2>2. DiskOK'
    BY <1>0, <1>5, <2>1, ReplaceTyped DEF Shift
  <2>3. QED
    BY <1>0, <1>5, <1>d, <2>1, <2>2 DEF Shift, TypeOK, LoopInv, InCall
<1>6. CASE FinishRotate
  <2>1. 0 \in Generation /\ 0 + 1 \in Generation
    BY <1>6, LogAssumption DEF FinishRotate, LoopInv, TypeOK, Generation
  <2>2. DiskOK'
    BY <1>0, <1>6, <2>1, ReplaceTyped DEF FinishRotate
  <2>3. QED
    BY <1>6, <1>d, <2>2 DEF FinishRotate, TypeOK, LoopInv, InCall
<1>7. ASSUME NEW kind \in {"write", "record"}, Call(kind) PROVE Types'
  BY <1>7 DEF Call, Smaller, disk, TypeOK, LoopInv, InCall
<1>8. CASE RotateFirst
  BY <1>8 DEF RotateFirst, disk, TypeOK, LoopInv, InCall
<1>9. CASE AppendChunk
  <2>1. Chunk \in 1 .. left
    BY <1>0, <1>9 DEF AppendChunk, Chunk, Full, Smaller, TypeOK, LoopInv, InCall
  <2>2. DiskOK'
    BY <1>0, <1>9, <2>1, AppendTyped DEF AppendChunk
  <2>3. QED
    BY <1>9, <1>d, <2>1, <2>2 DEF AppendChunk, TypeOK, LoopInv, InCall
<1>10. CASE AppendRaises
  <2>1. DiskOK'
    BY <1>0, <1>10, AppendTyped DEF AppendRaises
  <2>2. QED
    BY <1>10, <1>d, <2>1 DEF AppendRaises, TypeOK, LoopInv, InCall
<1>11. CASE OperationRaises
  BY <1>11 DEF OperationRaises, disk, TypeOK, LoopInv, InCall
<1>12. CASE Close
  BY <1>12 DEF Close, disk, TypeOK, LoopInv, InCall
<1>13. CASE UNCHANGED vars
  BY <1>13 DEF vars, disk, TypeOK, LoopInv, InCall
<1>14. QED
  BY <1>1, <1>2, <1>3, <1>4, <1>5, <1>6, <1>7, <1>8, <1>9, <1>10, <1>11, <1>12,
     <1>13 DEF Next

(* Every reachable state of the log is well typed: in particular a rotation    *)
(* never runs its loop index below zero or past the last generation.           *)
THEOREM TypeCorrect == Spec => []TypeOK
<1>1. Types => TypeOK
  BY DEF Types
<1>2. QED
  BY <1>1, TypesInit, TypesStep, PTL DEF Spec

-------------------------------------------------------------------------------
(* Generations stay in the order of their age.  The order alone is not kept by *)
(* an append: the active file must hold the newest bytes; and that a rename    *)
(* overwrites nothing needs the slot above the loop index to be free.          *)

AgeInv ==
  /\ AgeOrder
  /\ \A i \in exist : seg[i].to <= written
  /\ 0 \in exist => seg[0].to = written

FreeSlot == pc = "shift" => idx + 1 \notin exist

(* Deleting a file keeps the order of the others. *)
LEMMA UnlinkAges ==
  ASSUME DiskOK, AgeInv, NEW i \in Generation, Unlink(i), written' = written
  PROVE  AgeInv' /\ i \notin exist'
BY DEF DiskOK, AgeInv, AgeOrder, Unlink

(* Moving a file to a free slot above it keeps the order and frees its own. *)
LEMMA ReplaceAges ==
  ASSUME DiskOK, AgeInv, NEW i \in Generation, i + 1 \in Generation,
         i + 1 \notin exist, Replace(i), written' = written
  PROVE  AgeInv' /\ i \notin exist'
<1>0. exist \subseteq Int /\ i \in Nat
  BY LogAssumption DEF DiskOK, Generation
<1>1. CASE i \notin exist
  BY <1>1 DEF Replace, AgeInv, AgeOrder
<1>2. CASE i \in exist
  <2>1. /\ exist' = (exist \ {i}) \cup {i + 1}
        /\ seg'[i + 1] = seg[i]
        /\ \A j \in exist \ {i} : seg'[j] = seg[j]
    BY <1>0, <1>2 DEF Replace, DiskOK
  <2>2. AgeOrder'
    <3> SUFFICES ASSUME NEW p \in exist', NEW q \in exist', p < q
                 PROVE  seg'[q].to <= seg'[p].from
      BY DEF AgeOrder
    <3>0. \A j, k \in exist : j < k => seg[k].to <= seg[j].from
      BY DEF AgeInv, AgeOrder
    <3>p. p \in Int /\ q \in Int
      BY <1>0, <2>1
    <3>1. CASE q = i + 1
      <4>0. p # i + 1
        BY <1>0, <3>p, <3>1
      <4>i. p \in exist \ {i}
        BY <2>1, <4>0
      <4>1. p \in exist \ {i} /\ p < i
        BY <1>0, <3>p, <3>1, <4>i
      <4>2. seg[i].to <= seg[p].from
        BY <1>2, <3>0, <4>1
      <4>3. QED
        BY <2>1, <3>1, <4>1, <4>2
    <3>2. CASE p = i + 1
      <4>0. q # i + 1
        BY <1>0, <3>p, <3>2
      <4>i. q \in exist \ {i}
        BY <2>1, <4>0
      <4>1. q \in exist \ {i} /\ i < q
        BY <1>0, <3>p, <3>2, <4>i
      <4>2. seg[q].to <= seg[i].from
        BY <1>2, <3>0, <4>1
      <4>3. QED
        BY <2>1, <3>2, <4>1, <4>2
    <3>3. CASE p # i + 1 /\ q # i + 1
      BY <2>1, <3>0, <3>3
    <3>4. QED
      BY <3>1, <3>2, <3>3
  <2>3. 0 \in exist' => 0 \in exist \ {i}
    BY <1>0, <2>1
  <2>4. QED
    BY <1>0, <1>2, <2>1, <2>2, <2>3 DEF AgeInv
<1>3. QED
  BY <1>1, <1>2

(* An append adds the newest bytes to the youngest file. *)
LEMMA AppendAges ==
  ASSUME DiskOK, AgeInv, NEW n \in Nat, Append(n)
  PROVE  AgeInv' /\ exist' = exist \cup {0}
<1>0. exist \subseteq Nat /\ 0 \in Generation
  BY LogAssumption DEF DiskOK, Generation
<1>1. /\ exist' = exist \cup {0} /\ written' = written + n
      /\ \A j \in exist \ {0} : seg'[j] = seg[j]
      /\ seg'[0].from = (IF 0 \in exist THEN seg[0].from ELSE written)
      /\ seg'[0].to = (IF 0 \in exist THEN seg[0].to ELSE written) + n
  BY <1>0 DEF Append, DiskOK
<1>2. AgeOrder'
  BY <1>0, <1>1 DEF AgeInv, AgeOrder, DiskOK
<1>3. QED
  BY <1>0, <1>1, <1>2 DEF AgeInv, DiskOK

(* The initial log has no files. *)
LEMMA AgesInit == Init => AgeInv /\ FreeSlot
BY DEF Init, AgeInv, AgeOrder, FreeSlot

(* Every step keeps the ages. *)
LEMMA AgesStep ==
  Types /\ AgeInv /\ FreeSlot /\ [Next]_vars => AgeInv' /\ FreeSlot'
<1> SUFFICES ASSUME Types, AgeInv, FreeSlot, [Next]_vars
             PROVE  AgeInv' /\ FreeSlot'
  OBVIOUS
<1>0. DiskOK /\ retained \in 1 .. MaxRetained /\ 0 \in Generation
  BY LogAssumption DEF Types, TypeOK, DiskOK, Generation
<1>s. ASSUME UNCHANGED disk, pc' # "shift" PROVE AgeInv' /\ FreeSlot'
  BY <1>s DEF disk, AgeInv, AgeOrder, FreeSlot
<1>1. CASE Open
  BY <1>1, <1>s DEF Open
<1>2. CASE PruneInvalidGeneration
  BY <1>0, <1>2, UnlinkAges DEF PruneInvalidGeneration, DiskOK, FreeSlot
<1>3. CASE StartNewRun
  <2>1. pc' # "shift"
    BY <1>3 DEF StartNewRun
  <2>2. CASE UNCHANGED <<exist, seg>>
    BY <1>3, <1>s, <2>1, <2>2 DEF StartNewRun, disk
  <2>3. CASE Unlink(0)
    BY <1>0, <1>3, <2>1, <2>3, UnlinkAges DEF StartNewRun, FreeSlot
  <2>4. QED
    BY <1>3, <2>2, <2>3 DEF StartNewRun
<1>4. CASE BeginRotate
  <2>1. retained - 1 \in Generation
    BY <1>0, LogAssumption DEF Generation
  <2>2. CASE retained = 1
    BY <1>0, <1>4, <2>2, UnlinkAges DEF BeginRotate, FreeSlot, Types, TypeOK
  <2>3. CASE retained # 1
    <3>1. AgeInv' /\ retained - 1 \notin exist'
      BY <1>0, <1>4, <2>1, <2>3, UnlinkAges DEF BeginRotate
    <3>2. idx' + 1 = retained - 1
      BY <1>0, <1>4, <2>3 DEF BeginRotate
    <3>3. QED
      BY <3>1, <3>2 DEF FreeSlot
  <2>4. QED
    BY <2>2, <2>3
<1>5. CASE Shift
  <2>1. idx \in Generation /\ idx + 1 \in Generation /\ idx' + 1 = idx
    BY <1>5, LogAssumption DEF Shift, Types, LoopInv, TypeOK, Generation
  <2>2. AgeInv' /\ idx \notin exist'
    BY <1>0, <1>5, <2>1, ReplaceAges DEF Shift, FreeSlot
  <2>3. QED
    BY <2>1, <2>2 DEF FreeSlot
<1>6. CASE FinishRotate
  <2>1. 0 + 1 \in Generation /\ 0 + 1 \notin exist
    BY <1>6, LogAssumption DEF FinishRotate, Types, LoopInv, FreeSlot
  <2>2. AgeInv'
    BY <1>0, <1>6, <2>1, ReplaceAges DEF FinishRotate
  <2>3. QED
    BY <1>6, <2>2 DEF FinishRotate, FreeSlot, Types, TypeOK
<1>7. ASSUME NEW kind \in {"write", "record"}, Call(kind)
      PROVE  AgeInv' /\ FreeSlot'
  BY <1>7, <1>s DEF Call
<1>8. CASE RotateFirst
  BY <1>8, <1>s DEF RotateFirst
<1>9. CASE AppendChunk
  <2>1. Chunk \in Nat
    BY <1>9, LogAssumption
    DEF AppendChunk, Chunk, Full, Smaller, Types, TypeOK, LoopInv, InCall
  <2>2. QED
    BY <1>0, <1>9, <2>1, AppendAges DEF AppendChunk, FreeSlot
<1>10. CASE AppendRaises
  BY <1>0, <1>10, AppendAges DEF AppendRaises, FreeSlot
<1>11. CASE OperationRaises
  BY <1>11, <1>s DEF OperationRaises
<1>12. CASE Close
  BY <1>12, <1>s DEF Close
<1>13. CASE UNCHANGED vars
  BY <1>13 DEF vars, disk, AgeInv, AgeOrder, FreeSlot
<1>14. QED
  BY <1>1, <1>2, <1>3, <1>4, <1>5, <1>6, <1>7, <1>8, <1>9, <1>10, <1>11, <1>12,
     <1>13 DEF Next

(* Generation numbers are in the order of age and no byte is in two files,     *)
(* through every interrupted rotation, short write and change of limits.       *)
THEOREM AgesOrdered == Spec => []AgeOrder
<1>1. AgeInv => AgeOrder
  BY DEF AgeInv
<1>2. QED
  BY <1>1, TypesInit, TypesStep, AgesInit, AgesStep, PTL DEF Spec

-------------------------------------------------------------------------------
(* The hard bounds.  They hold because _size is the length of the active file  *)
(* whenever a call decides where to write, which a short write would undo.     *)

Fits ==
  /\ exist \subseteq 0 .. retained - 1
  /\ \A i \in exist : Bytes(i) <= limit

SizeExact == size = IF 0 \in exist THEN Bytes(0) ELSE 0

BoundInv ==
  /\ pc \notin {"closed", "prune"} => Fits
  /\ InCall \/ pc = "ready" => SizeExact
  /\ pc = "prune" => size = 0
  /\ pc \in {"write", "record"} => ret = pc
  /\ InCall /\ ret = "record" => left <= limit

(* Deleting a file keeps the bounds. *)
LEMMA UnlinkFits ==
  ASSUME DiskOK, Fits, NEW i \in Generation, Unlink(i),
         UNCHANGED <<limit, retained>>
  PROVE  Fits'
BY DEF DiskOK, Fits, Unlink, Bytes

(* Moving a file up keeps the bounds while there is room above it. *)
LEMMA ReplaceFits ==
  ASSUME DiskOK, Fits, retained \in Nat, NEW i \in Generation,
         i + 1 \in Generation, i + 1 < retained, Replace(i), UNCHANGED <<limit, retained>>
  PROVE  Fits'
<1>1. CASE i \notin exist
  BY <1>1 DEF Replace, Fits, Bytes
<1>2. CASE i \in exist
  <2>1. /\ exist' = (exist \ {i}) \cup {i + 1}
        /\ seg'[i + 1] = seg[i]
        /\ \A j \in exist \ {i, i + 1} : seg'[j] = seg[j]
    BY <1>2, LogAssumption DEF Replace, DiskOK, Generation
  <2>2. exist' \subseteq 0 .. retained - 1
    BY <2>1, LogAssumption DEF Fits, Generation
  <2>3. \A j \in exist' : Bytes(j)' <= limit'
    BY <1>2, <2>1 DEF Fits, Bytes
  <2>4. QED
    BY <2>2, <2>3 DEF Fits
<1>3. QED
  BY <1>1, <1>2

(* An append that stays below the limit keeps the bounds and lengthens the     *)
(* active file by what it wrote.                                               *)
LEMMA AppendFits ==
  ASSUME DiskOK, retained \in Nat \ {0}, limit \in Nat, size \in Nat, Fits,
         SizeExact, NEW n \in Nat, size + n <= limit, Append(n),
         size' = size + n, UNCHANGED <<limit, retained>>
  PROVE  Fits' /\ SizeExact'
<1>0. 0 \in Generation
  BY LogAssumption DEF Generation
<1>1. /\ exist' = exist \cup {0}
      /\ \A j \in exist \ {0} : seg'[j] = seg[j]
      /\ seg'[0].from = (IF 0 \in exist THEN seg[0].from ELSE written)
      /\ seg'[0].to = (IF 0 \in exist THEN seg[0].to ELSE written) + n
  BY <1>0 DEF Append, DiskOK
<1>2. Bytes(0)' = size + n
  BY <1>0, <1>1 DEF SizeExact, Bytes, DiskOK
<1>3. QED
  BY <1>1, <1>2 DEF Fits, SizeExact, Bytes

(* Without short writes every step keeps the bounds. *)
LEMMA BoundStep ==
  ASSUME ~ShortWrites
  PROVE  Types /\ BoundInv /\ [Next]_vars => BoundInv'
<1> SUFFICES ASSUME Types, BoundInv, [Next]_vars PROVE BoundInv'
  OBVIOUS
<1>0. /\ DiskOK /\ 0 \in Generation
      /\ retained \in Nat \ {0} /\ retained \in 1 .. MaxRetained
      /\ limit \in Nat \ {0} /\ size \in Nat /\ left \in Nat
  BY LogAssumption DEF Types, TypeOK, DiskOK, Generation
<1>s. ASSUME UNCHANGED <<disk, limit, retained, size>>
      PROVE  (Fits => Fits') /\ (SizeExact => SizeExact')
  BY <1>s DEF disk, Fits, SizeExact, Bytes
<1>1. CASE Open
  BY <1>1 DEF Open, BoundInv, InCall
<1>2. CASE PruneInvalidGeneration
  BY <1>2 DEF PruneInvalidGeneration, BoundInv, InCall
<1>3. CASE StartNewRun
  <2>1. /\ size = 0 /\ size' = 0 /\ ret = "ready" /\ ret' = "ready"
        /\ UNCHANGED <<limit, retained>> /\ pc' \in {"ready", "rotate"}
    BY <1>3 DEF StartNewRun, BoundInv, Types, LoopInv
  <2>2. ASSUME NEW i \in exist \ {0} PROVE i \in 0 .. retained - 1 /\ Bytes(i) <= limit
    <3>1. i \in Nat /\ Bytes(i) \in Int
      BY <1>0, LogAssumption DEF DiskOK, Generation, Bytes
    <3>2. ~(i >= retained) /\ ~(Bytes(i) > limit)
      BY <1>3 DEF StartNewRun, InvalidGeneration
    <3>3. QED
      BY <1>0, <3>1, <3>2
  <2>3. 0 \in 0 .. retained - 1
    BY <1>0
  <2>4. CASE Unlink(0) /\ pc' = "ready"
    <3>1. exist' = exist \ {0} /\ \A i \in exist \ {0} : seg'[i] = seg[i]
      BY <1>0, <2>4 DEF Unlink, DiskOK
    <3>2. Fits' /\ SizeExact'
      BY <2>1, <2>2, <3>1 DEF Fits, SizeExact, Bytes
    <3>3. QED
      BY <2>1, <2>4, <3>2 DEF BoundInv, InCall
  <2>5. CASE UNCHANGED <<exist, seg>> /\ 0 \notin exist /\ pc' = "ready"
    <3>1. Fits' /\ SizeExact'
      BY <2>1, <2>2, <2>5 DEF Fits, SizeExact, Bytes
    <3>2. QED
      BY <2>1, <2>5, <3>1 DEF BoundInv, InCall
  <2>6. CASE UNCHANGED <<exist, seg>> /\ Bytes(0) <= limit /\ pc' = "rotate"
    <3>1. Fits'
      BY <2>1, <2>2, <2>3, <2>6 DEF Fits, Bytes
    <3>2. QED
      BY <2>1, <2>6, <3>1 DEF BoundInv, InCall
  <2>7. QED
    BY <1>3, <2>4, <2>5, <2>6 DEF StartNewRun
<1>4. CASE BeginRotate
  <2>1. retained - 1 \in Generation
    BY <1>0, LogAssumption DEF Generation
  <2>2. Fits'
    BY <1>0, <1>4, <2>1, UnlinkFits DEF BeginRotate, BoundInv
  <2>3. CASE retained = 1
    <3>1. SizeExact'
      BY <1>4, <2>3 DEF BeginRotate, Unlink, SizeExact
    <3>2. QED
      BY <1>4, <2>2, <2>3, <3>1 DEF BeginRotate, BoundInv, InCall, Types, TypeOK
  <2>4. CASE retained # 1
    <3>1. InCall => SizeExact'
      BY <1>0, <1>4, <2>4 DEF BeginRotate, Unlink, SizeExact, BoundInv, Bytes, DiskOK
    <3>2. QED
      BY <1>4, <2>2, <2>4, <3>1 DEF BeginRotate, BoundInv, InCall, Types, TypeOK
  <2>5. QED
    BY <2>3, <2>4
<1>5. CASE Shift
  <2>1. idx \in Generation /\ idx + 1 \in Generation /\ idx + 1 < retained
        /\ idx > 0 /\ idx \in Nat
    BY <1>5, LogAssumption DEF Shift, Types, LoopInv, TypeOK, Generation
  <2>2. Fits'
    BY <1>0, <1>5, <2>1, ReplaceFits DEF Shift, BoundInv
  <2>3. SizeExact => SizeExact'
    BY <1>0, <1>5, <2>1 DEF Shift, Replace, SizeExact, Bytes, DiskOK
  <2>4. QED
    BY <1>5, <2>2, <2>3 DEF Shift, BoundInv, InCall
<1>6. CASE FinishRotate
  <2>1. 0 + 1 \in Generation /\ 0 + 1 < retained
    BY <1>6, LogAssumption DEF FinishRotate, Types, LoopInv
  <2>2. Fits'
    BY <1>0, <1>6, <2>1, ReplaceFits DEF FinishRotate, BoundInv
  <2>3. SizeExact'
    BY <1>0, <1>6 DEF FinishRotate, Replace, SizeExact
  <2>4. QED
    BY <1>6, <2>2, <2>3 DEF FinishRotate, BoundInv, InCall, Types, TypeOK
<1>7. ASSUME NEW kind \in {"write", "record"}, Call(kind) PROVE BoundInv'
  BY <1>7, <1>s DEF Call, disk, BoundInv, InCall
<1>8. CASE RotateFirst
  BY <1>8, <1>s DEF RotateFirst, BoundInv, InCall
<1>9. CASE AppendChunk
  <2>1. Fits /\ SizeExact
    BY <1>9 DEF AppendChunk, BoundInv, InCall
  <2>2. Chunk \in Nat /\ size + Chunk <= limit /\ Chunk <= left
    BY <1>0, <1>9
    DEF AppendChunk, Chunk, Full, Smaller, BoundInv, InCall
  <2>3. Fits' /\ SizeExact'
    BY <1>0, <1>9, <2>1, <2>2, AppendFits DEF AppendChunk
  <2>4. left' <= left /\ left' \in Int
    BY <1>0, <1>9, <2>2 DEF AppendChunk
  <2>5. QED
    BY <1>0, <1>9, <2>3, <2>4 DEF AppendChunk, BoundInv, InCall
<1>10. CASE AppendRaises
  <2>1. Fits /\ SizeExact /\ Append(0)
    BY <1>10 DEF AppendRaises, BoundInv, InCall
  <2>2. size + 0 <= limit /\ size' = size + 0
    BY <1>0, <1>10, <2>1 DEF AppendRaises, Fits, SizeExact
  <2>3. Fits' /\ SizeExact'
    BY <1>0, <1>10, <2>1, <2>2, AppendFits DEF AppendRaises
  <2>4. QED
    BY <1>10, <2>3 DEF AppendRaises, BoundInv, InCall
<1>11. CASE OperationRaises
  BY <1>11, <1>s DEF OperationRaises, BoundInv, InCall, Types, TypeOK, LoopInv
<1>12. CASE Close
  BY <1>12 DEF Close, BoundInv, InCall
<1>13. CASE UNCHANGED vars
  BY <1>13, <1>s DEF vars, disk, BoundInv, InCall
<1>14. QED
  BY <1>1, <1>2, <1>3, <1>4, <1>5, <1>6, <1>7, <1>8, <1>9, <1>10, <1>11, <1>12,
     <1>13 DEF Next

(* Unless the operating system writes part of a chunk, an open log never has   *)
(* more files than it retains nor a file longer than its limit, whatever       *)
(* limits earlier runs had and wherever they were cut off.                     *)
THEOREM HardBounds ==
  ASSUME ~ShortWrites
  PROVE  Spec => []BoundsKept
<1>1. Init => BoundInv
  BY DEF Init, BoundInv, InCall
<1>2. BoundInv => BoundsKept
  BY DEF BoundInv, BoundsKept, Fits
<1>3. QED
  BY <1>1, <1>2, TypesInit, TypesStep, BoundStep, PTL DEF Spec

-------------------------------------------------------------------------------
(* The log implements SuffixLog when every run has the same limits.  Then a    *)
(* constructor finds nothing invalid, and the only file ever deleted is the    *)
(* oldest.                                                                     *)

SameLimits == (\E l : Limits = {l}) /\ (\E r : Retentions = {r})

StepInv == Types /\ AgeInv /\ FreeSlot /\ BoundInv /\ Fits

(* What is kept, byte by byte. *)
LEMMA KeptBytes ==
  \A b : b \in Kept <=> \E i \in exist : b \in seg[i].from + 1 .. seg[i].to
BY DEF Kept

(* Equal limits: every run has those of the first. *)
LEMMA LimitsStay ==
  ASSUME SameLimits, Types, Types'
  PROVE  UNCHANGED <<limit, retained>>
BY DEF SameLimits, Types, TypeOK

(* Under equal limits the bounds hold also while the log is closed. *)
LEMMA FitsStep ==
  ASSUME ~ShortWrites, SameLimits
  PROVE  StepInv /\ [Next]_vars => StepInv'
<1> SUFFICES ASSUME StepInv, [Next]_vars PROVE StepInv'
  OBVIOUS
<1>1. Types' /\ AgeInv' /\ FreeSlot' /\ BoundInv'
  BY TypesStep, AgesStep, BoundStep DEF StepInv
<1>2. UNCHANGED <<limit, retained>>
  BY <1>1, LimitsStay DEF StepInv
<1>3. CASE pc' \notin {"closed", "prune"}
  BY <1>1, <1>3 DEF BoundInv, StepInv
<1>4. CASE UNCHANGED disk
  BY <1>1, <1>2, <1>4 DEF disk, StepInv, Fits, Bytes
<1>5. CASE PruneInvalidGeneration
  BY <1>1, <1>2, <1>5, UnlinkFits
  DEF PruneInvalidGeneration, StepInv, Types, TypeOK, DiskOK
<1>6. pc' \in {"closed", "prune"} => UNCHANGED disk \/ PruneInvalidGeneration
  BY DEF StepInv, Types, TypeOK, Next, vars, Open, StartNewRun, BeginRotate,
         Shift, FinishRotate, Call, RotateFirst, AppendChunk, AppendRaises,
         OperationRaises, Close
<1>7. QED
  BY <1>3, <1>4, <1>5, <1>6

(* Deleting the oldest file forgets a beginning of what is kept. *)
LEMMA UnlinkForgets ==
  ASSUME DiskOK, AgeInv, NEW i \in Generation, \A j \in exist : j <= i,
         Unlink(i), written' = written
  PROVE  \E m \in 0 .. written : Kept' = {b \in Kept : b > m}
<1>0. exist \subseteq Nat /\ i \in Nat
  BY LogAssumption DEF DiskOK, Generation
<1>1. exist' = exist \ {i} /\ \A j \in exist \ {i} : seg'[j] = seg[j]
  BY DEF Unlink, DiskOK
<1>2. CASE i \notin exist
  <2>1. Kept' = {b \in Kept : b > 0}
    BY <1>1, <1>2 DEF Kept, DiskOK
  <2>2. 0 \in 0 .. written
    BY DEF DiskOK
  <2>3. QED
    BY <2>1, <2>2
<1>3. CASE i \in exist
  <2> DEFINE m == seg[i].to
  <2>1. m \in 0 .. written
    BY <1>3 DEF DiskOK, AgeInv
  <2>2. \A j \in exist \ {i} : m <= seg[j].from /\ seg[j].from \in Nat
    BY <1>0, <1>3 DEF AgeInv, AgeOrder, DiskOK
  <2>3. ASSUME NEW b PROVE b \in Kept' <=> b \in Kept /\ b > m
    <3>1. b \in Kept' <=> \E j \in exist \ {i} : b \in seg[j].from + 1 .. seg[j].to
      BY <1>1 DEF Kept
    <3>2. b \in Kept <=> \E j \in exist : b \in seg[j].from + 1 .. seg[j].to
      BY KeptBytes
    <3>3. b \in seg[i].from + 1 .. seg[i].to => ~(b > m)
      BY <1>3, <2>1 DEF DiskOK
    <3>4. \A j \in exist \ {i} : b \in seg[j].from + 1 .. seg[j].to => b > m
      BY <2>1, <2>2 DEF DiskOK
    <3>5. QED
      BY <1>3, <3>1, <3>2, <3>3, <3>4
  <2>4. Kept' = {b \in Kept : b > m}
    BY <2>3
  <2>5. QED
    BY <2>1, <2>4
<1>4. QED
  BY <1>2, <1>3

(* Renaming a file to a free slot changes nothing that is kept. *)
LEMMA ReplaceKeeps ==
  ASSUME DiskOK, NEW i \in Generation, i + 1 \in Generation,
         i + 1 \notin exist, Replace(i)
  PROVE  Kept' = Kept
<1>1. CASE i \notin exist
  BY <1>1 DEF Replace, Kept
<1>2. CASE i \in exist
  <2>1. /\ exist' = (exist \ {i}) \cup {i + 1}
        /\ seg'[i + 1] = seg[i]
        /\ \A j \in exist \ {i} : seg'[j] = seg[j]
    BY <1>2, LogAssumption DEF Replace, DiskOK, Generation
  <2>2. ASSUME NEW b PROVE b \in Kept' <=> b \in Kept
    <3>1. b \in Kept' <=> \E j \in exist' : b \in seg'[j].from + 1 .. seg'[j].to
      BY DEF Kept
    <3>2. QED
      BY <1>2, <2>1, <3>1, KeptBytes
  <2>3. QED
    BY <2>2
<1>3. QED
  BY <1>1, <1>2

(* An append adds exactly the new bytes. *)
LEMMA AppendKeeps ==
  ASSUME DiskOK, AgeInv, NEW n \in Nat, Append(n)
  PROVE  Kept' = Kept \cup (written + 1 .. written') /\ written' = written + n
<1>0. 0 \in Generation
  BY LogAssumption DEF Generation
<1>1. /\ exist' = exist \cup {0} /\ written' = written + n
      /\ \A j \in exist \ {0} : seg'[j] = seg[j]
      /\ seg'[0].from = (IF 0 \in exist THEN seg[0].from ELSE written)
      /\ seg'[0].to = written + n
  BY <1>0 DEF Append, DiskOK, AgeInv
<1>2. ASSUME NEW b PROVE b \in Kept' <=> b \in Kept \/ b \in written + 1 .. written + n
  <2>1. b \in Kept' <=> \E j \in exist' : b \in seg'[j].from + 1 .. seg'[j].to
    BY DEF Kept
  <2>2. b \in seg'[0].from + 1 .. seg'[0].to
          <=> \/ 0 \in exist /\ b \in seg[0].from + 1 .. seg[0].to
              \/ b \in written + 1 .. written + n
    BY <1>0, <1>1 DEF DiskOK, AgeInv
  <2>3. QED
    BY <1>1, <2>1, <2>2, KeptBytes
<1>3. QED
  BY <1>1, <1>2

(* Under equal limits every step of the log is a step of SuffixLog. *)
LEMMA RefinementStep ==
  ASSUME ~ShortWrites, SameLimits
  PROVE  StepInv /\ [Next]_vars => [Suffix!Next]_<<Kept, written>>
<1> SUFFICES ASSUME StepInv, [Next]_vars
             PROVE  Suffix!Next \/ (Kept' = Kept /\ written' = written)
  OBVIOUS
<1>0. /\ DiskOK /\ 0 \in Generation /\ AgeInv /\ Fits
      /\ retained \in 1 .. MaxRetained /\ limit \in Nat \ {0}
      /\ size \in Nat /\ left \in Nat
  BY LogAssumption DEF StepInv, Types, TypeOK, DiskOK, Generation
<1>s. ASSUME UNCHANGED disk PROVE Kept' = Kept /\ written' = written
  BY <1>s DEF disk, Kept
<1>b. \A i \in exist : ~InvalidGeneration(i)
  BY <1>0, LogAssumption DEF Fits, InvalidGeneration, DiskOK, Generation, Bytes
<1>1. CASE Open
  BY <1>1, <1>s DEF Open
<1>2. CASE PruneInvalidGeneration
  BY <1>2, <1>b DEF PruneInvalidGeneration
<1>3. CASE StartNewRun
  <2>1. ~(0 \in exist /\ Bytes(0) > limit)
    BY <1>b DEF InvalidGeneration
  <2>2. QED
    BY <1>3, <1>s, <2>1 DEF StartNewRun, disk
<1>4. CASE BeginRotate
  <2>1. retained - 1 \in Generation /\ \A j \in exist : j <= retained - 1
    BY <1>0, LogAssumption DEF Generation, Fits
  <2>2. Unlink(retained - 1) /\ written' = written
    BY <1>0, <1>4 DEF BeginRotate
  <2>3. \E m \in 0 .. written : Kept' = {b \in Kept : b > m}
    BY <1>0, <2>1, <2>2, UnlinkForgets
  <2>4. QED
    BY <2>2, <2>3 DEF Suffix!Next, Suffix!Forget
<1>5. CASE Shift
  <2>1. idx \in Generation /\ idx + 1 \in Generation /\ idx + 1 \notin exist
    BY <1>5, LogAssumption
    DEF Shift, StepInv, Types, LoopInv, TypeOK, Generation, FreeSlot
  <2>2. QED
    BY <1>0, <1>5, <2>1, ReplaceKeeps DEF Shift
<1>6. CASE FinishRotate
  <2>1. 0 + 1 \in Generation /\ 0 + 1 \notin exist
    BY <1>6 DEF FinishRotate, StepInv, Types, LoopInv, FreeSlot
  <2>2. QED
    BY <1>0, <1>6, <2>1, ReplaceKeeps DEF FinishRotate
<1>7. ASSUME NEW kind \in {"write", "record"}, Call(kind)
      PROVE  Kept' = Kept /\ written' = written
  BY <1>7, <1>s DEF Call
<1>8. CASE RotateFirst
  BY <1>8, <1>s DEF RotateFirst
<1>9. CASE AppendChunk
  <2>1. Chunk \in Nat /\ Chunk > 0
    BY <1>0, <1>9
    DEF AppendChunk, Chunk, Full, Smaller, StepInv, Types, LoopInv, InCall
  <2>2. Kept' = Kept \cup (written + 1 .. written') /\ written' = written + Chunk
    BY <1>0, <1>9, <2>1, AppendKeeps DEF AppendChunk
  <2>3. written' > written
    BY <1>0, <2>1, <2>2 DEF DiskOK
  <2>4. QED
    BY <2>2, <2>3 DEF Suffix!Next, Suffix!Write
<1>10. CASE AppendRaises
  <2>1. Append(0)
    BY <1>10 DEF AppendRaises
  <2>2. Kept' = Kept \cup (written + 1 .. written') /\ written' = written + 0
    BY <1>0, <2>1, AppendKeeps
  <2>3. written' = written /\ written + 1 .. written' = {}
    BY <1>0, <2>2 DEF DiskOK
  <2>4. QED
    BY <2>2, <2>3
<1>11. CASE OperationRaises
  BY <1>11, <1>s DEF OperationRaises
<1>12. CASE Close
  BY <1>12, <1>s DEF Close
<1>13. CASE UNCHANGED vars
  BY <1>13, <1>s DEF vars
<1>14. QED
  BY <1>1, <1>2, <1>3, <1>4, <1>5, <1>6, <1>7, <1>8, <1>9, <1>10, <1>11, <1>12,
     <1>13 DEF Next

(* Unless a write is cut short, runs with equal limits keep an unbroken end of *)
(* all that was written: no rotation, finished, failed or killed half way,     *)
(* leaves a hole in the log.                                                   *)
THEOREM LogImplementsSuffix ==
  ASSUME ~ShortWrites, SameLimits
  PROVE  Spec => ImplementsSuffixLog
<1>1. Init => StepInv
  BY TypesInit, AgesInit DEF Init, StepInv, BoundInv, InCall, Fits
<1>2. Init => Suffix!Init
  BY DEF Init, Suffix!Init, Kept
<1>3. QED
  BY <1>1, <1>2, FitsStep, RefinementStep, PTL DEF Spec, ImplementsSuffixLog, Suffix!Spec
===============================================================================
