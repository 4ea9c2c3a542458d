------------------------------ MODULE RotatingLog ------------------------------
(* RotatingBinaryLog of bounded_process_output.py: a log file and its numbered *)
(* generations, each at most limit bytes long.  Rotation renames one           *)
(* generation after another; an exception or the death of the process may end  *)
(* it between any two of these operations, and the next run, perhaps under     *)
(* other limits, starts from what it finds.                                    *)
(*                                                                             *)
(* Bytes are numbered in the order in which they reach the disk; a file holds  *)
(* the bytes from + 1 .. to.                                                   *)
EXTENDS Integers

CONSTANTS MaxRetained,   \* bound: generations a run may keep
          Limits,        \* values of max_segment_bytes
          Retentions,    \* values of retained_segments
          MaxWrite,      \* bound: bytes of one write
          MaxBytes,      \* bound: bytes written in all
          ShortWrites    \* may the operating system write part of a chunk?

ASSUME LogAssumption ==
  /\ MaxRetained \in Nat \ {0} /\ MaxWrite \in Nat /\ MaxBytes \in Nat
  /\ Limits \subseteq Nat \ {0} /\ Retentions \subseteq 1 .. MaxRetained
  /\ ShortWrites \in BOOLEAN

Generation == 0 .. MaxRetained - 1    \* 0 is the active file

VARIABLES exist,      \* generations on disk
          seg,        \* the bytes each of them holds
          written,    \* bytes that reached the disk
          limit, retained, size,   \* attributes of the log object
          left,       \* bytes the current call still has to write
          idx,        \* the rotation's loop index
          ret,        \* what the rotation returns to
          pc

disk == <<exist, seg, written>>
vars == <<disk, limit, retained, size, left, idx, ret, pc>>

Empty == [from |-> 0, to |-> 0]
Bytes(i) == seg[i].to - seg[i].from
Smaller(a, b) == IF a < b THEN a ELSE b

Unlink(i) ==
  /\ exist' = exist \ {i}
  /\ seg' = [seg EXCEPT ![i] = Empty]

ReplaceLeavesSource(i) ==
  IF i \in exist
  THEN /\ exist' = exist \cup {i + 1}
       /\ seg' = [seg EXCEPT ![i + 1] = seg[i]]
  ELSE UNCHANGED <<exist, seg>>

(* source.replace(rotated_path(path, i + 1)) when the source is a file. *)
Replace(i) ==
  IF i \in exist
  THEN /\ exist' = (exist \ {i}) \cup {i + 1}
       /\ seg' = [seg EXCEPT ![i + 1] = seg[i], ![i] = Empty]
  ELSE UNCHANGED <<exist, seg>>

-------------------------------------------------------------------------------
(* The constructor: generations beyond the limits go, then the active file of  *)
(* the previous run is rotated away.                                           *)

Open ==
  /\ pc = "closed"
  /\ limit' \in Limits /\ retained' \in Retentions
  /\ size' = 0 /\ left' = 0 /\ ret' = "ready"
  /\ pc' = "prune"
  /\ UNCHANGED <<disk, idx>>

InvalidGeneration(i) == i >= retained \/ Bytes(i) > limit

PruneInvalidGeneration ==
  /\ pc = "prune"
  /\ \E i \in exist \ {0} : InvalidGeneration(i) /\ Unlink(i)
  /\ UNCHANGED <<written, limit, retained, size, left, idx, ret, pc>>

StartNewRunUnchecked ==
  /\ pc = "prune"
  /\ \A i \in exist \ {0} : ~InvalidGeneration(i)
  /\ pc' = IF 0 \in exist THEN "rotate" ELSE "ready"
  /\ UNCHANGED <<disk, limit, retained, size, left, idx, ret>>

StartNewRunDiscards ==
  /\ pc = "prune"
  /\ \A i \in exist \ {0} : ~InvalidGeneration(i)
  /\ Unlink(0) /\ pc' = "ready"
  /\ UNCHANGED <<written, limit, retained, size, left, idx, ret>>

StartNewRun ==
  /\ pc = "prune"
  /\ \A i \in exist \ {0} : ~InvalidGeneration(i)
  /\ \/ 0 \notin exist /\ pc' = "ready" /\ UNCHANGED <<exist, seg>>
     \/ 0 \in exist /\ Bytes(0) > limit /\ Unlink(0) /\ pc' = "ready"
     \/ 0 \in exist /\ Bytes(0) <= limit /\ pc' = "rotate"
        /\ UNCHANGED <<exist, seg>>
  /\ UNCHANGED <<written, limit, retained, size, left, idx, ret>>

-------------------------------------------------------------------------------
(* _rotate: the oldest generation goes, the others move up one by one. *)

BeginRotate ==
  /\ pc = "rotate"
  /\ IF retained = 1
     THEN Unlink(0) /\ size' = 0 /\ pc' = ret /\ UNCHANGED idx
     ELSE Unlink(retained - 1) /\ idx' = retained - 2 /\ pc' = "shift"
          /\ UNCHANGED size
  /\ UNCHANGED <<written, limit, retained, left, ret>>

Shift ==
  /\ pc = "shift" /\ idx > 0
  /\ Replace(idx)
  /\ idx' = idx - 1
  /\ UNCHANGED <<written, limit, retained, size, left, ret, pc>>

FinishRotate ==
  /\ pc = "shift" /\ idx = 0
  /\ Replace(0)
  /\ size' = 0
  /\ pc' = ret
  /\ UNCHANGED <<written, limit, retained, left, idx, ret>>

-------------------------------------------------------------------------------
(* write slices its bytes at the segment limit, write_record never does. *)

Call(kind) ==
  /\ pc = "ready"
  /\ left' \in 1 .. Smaller(MaxWrite, MaxBytes - written)
  /\ kind = "record" => left' <= limit
  /\ ret' = kind /\ pc' = kind
  /\ UNCHANGED <<disk, limit, retained, size, idx>>

Full == IF pc = "write" THEN size >= limit ELSE size > 0 /\ size + left > limit

Chunk == IF pc = "write" THEN Smaller(left, limit - size) ELSE left

RotateFirst ==
  /\ pc \in {"write", "record"} /\ Full
  /\ pc' = "rotate"
  /\ UNCHANGED <<disk, limit, retained, size, left, idx, ret>>

(* open(path, "ab") creates the active file when there is none. *)
Append(n) ==
  /\ exist' = exist \cup {0}
  /\ LET s == IF 0 \in exist THEN seg[0]
             ELSE [from |-> written, to |-> written]
     IN  seg' = [seg EXCEPT ![0] = [from |-> s.from, to |-> s.to + n]]
  /\ written' = written + n

AppendChunk ==
  /\ pc \in {"write", "record"} /\ ~Full
  /\ Append(Chunk)
  /\ size' = size + Chunk /\ left' = left - Chunk
  /\ pc' = IF left = Chunk THEN "ready" ELSE pc
  /\ UNCHANGED <<limit, retained, idx, ret>>

(* A write that raises, or that stores less than the chunk, leaves _size as it *)
(* was.                                                                        *)
AppendRaises ==
  /\ pc \in {"write", "record"} /\ ~Full
  /\ \E n \in 0 .. Chunk - 1 : (n > 0 => ShortWrites) /\ Append(n)
  /\ left' = 0
  /\ pc' = "ready"
  /\ UNCHANGED <<limit, retained, size, idx, ret>>

(* An operation on a file raises: of the constructor, then there is no log, or *)
(* of a call, whose caller may call again.                                     *)
OperationRaises ==
  /\ pc \in {"prune", "rotate", "shift", "write", "record"}
  /\ left' = 0
  /\ pc' = IF ret = "ready" THEN "closed" ELSE "ready"
  /\ UNCHANGED <<disk, limit, retained, size, idx, ret>>

(* close, or the death of the process at any point. *)
Close ==
  /\ pc # "closed"
  /\ pc' = "closed" /\ left' = 0 /\ size' = 0 /\ idx' = 0
  /\ UNCHANGED <<disk, limit, retained, ret>>

-------------------------------------------------------------------------------
Init ==
  /\ exist = {} /\ seg = [i \in Generation |-> Empty] /\ written = 0
  /\ limit \in Limits /\ retained \in Retentions
  /\ size = 0 /\ left = 0 /\ idx = 0 /\ ret = "ready" /\ pc = "closed"

Next ==
  \/ Open \/ PruneInvalidGeneration \/ StartNewRun
  \/ BeginRotate \/ Shift \/ FinishRotate
  \/ Call("write") \/ Call("record")
  \/ RotateFirst \/ AppendChunk \/ AppendRaises
  \/ OperationRaises \/ Close

Spec == Init /\ [][Next]_vars
-------------------------------------------------------------------------------
(* Properties. *)

(* Every variable has its type; files hold bytes that were written. *)
TypeOK ==
  /\ exist \subseteq Generation
  /\ seg \in [Generation -> [from : Nat, to : Nat]]
  /\ \A i \in Generation : seg[i].from <= seg[i].to
  /\ written \in Nat /\ size \in Nat /\ left \in Nat /\ idx \in Nat
  /\ limit \in Limits /\ retained \in Retentions
  /\ ret \in {"ready", "write", "record"}
  /\ pc \in {"closed", "prune", "ready", "rotate", "shift", "write", "record"}

(* A higher generation number means older bytes, and no byte is in two files,  *)
(* also when _rotate was cut off between two renames and begun again.          *)
AgeOrder ==
  \A i, j \in exist : i < j => seg[j].to <= seg[i].from

(* Once the constructor is through there are never more files than             *)
(* retained_segments, and none is longer than max_segment_bytes, whatever the  *)
(* limits of earlier runs were.                                                *)
BoundsKept ==
  pc \notin {"closed", "prune"} =>
    /\ exist \subseteq 0 .. retained - 1
    /\ \A i \in exist : Bytes(i) <= limit

Kept == UNION {seg[i].from + 1 .. seg[i].to : i \in exist}
Suffix == INSTANCE SuffixLog WITH kept <- Kept

(* Under limits that do not change, what the files hold together is always an  *)
(* unbroken end of what was written: no crash or exception of a rotation       *)
(* leaves a hole or brings a byte back.                                        *)
ImplementsSuffixLog == Suffix!Spec
===============================================================================
