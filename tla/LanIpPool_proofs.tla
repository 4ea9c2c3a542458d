---------------------------- MODULE LanIpPool_proofs ----------------------------
(* Theorems about LanIpPool, for any number of pools, addresses and failures.   *)
EXTENDS LanIpPool, FiniteSetTheorems, TLAPS

Acquiring == {"new", "disable", "list", "scan", "add"}

(* What acquire has done at each point: it holds nothing before its first       *)
(* command, fewer addresses than asked for while it looks for more, and the     *)
(* candidate of its command is a candidate.                                     *)
AcquireInv(p) ==
  /\ pc[p] \in {"new", "disable", "list"} => added[p] = {}
  /\ pc[p] \in Acquiring => Cardinality(added[p]) < Count
  /\ pc[p] = "add" => next[p] <= LastAddress
  /\ pc[p] = "new" => p \notin misread

(* What the interface has beyond its own addresses is in some pool's list, as   *)
(* long as no clean-up failed, and a pool that is over has an empty list.       *)
ListsInv ==
  ~excused => /\ assigned \subseteq Preassigned \cup UNION {added[p] : p \in Pools}
              /\ \A p \in Guarded : pc[p] = "ended" => added[p] = {}

(* While a pool is alone on the interface, it has saved the setting it took for *)
(* the original, or the interface has it.                                       *)
Alone(p) == \A q \in Pools \ {p} : pc[q] = "new"

SettingInv(p) ==
  ~excused /\ Alone(p) =>
    /\ saved[p] \in {None, Taken(p)}
    /\ pc[p] = "disable" => saved[p] = Taken(p)
    /\ saved[p] = None \/ pc[p] = "new" => dad = Taken(p)
    /\ p \in Guarded /\ pc[p] = "ended" => saved[p] = None

PoolInv ==
  /\ TypeOK /\ OwnOnly /\ ListsInv
  /\ \A p \in Pools : AcquireInv(p) /\ SettingInv(p)

LEMMA InitInv == Init => PoolInv
<1> SUFFICES ASSUME Init PROVE PoolInv OBVIOUS
<1> USE PoolAssumption DEF Init
<1>1. Cardinality({}) = 0 BY FS_EmptySet
<1>2. TypeOK
  <2>1. \A p \in Pools : Cardinality(added[p]) <= Count BY <1>1
  <2>2. added \in [Pools -> SUBSET Addresses] /\ seen \in [Pools -> SUBSET Addresses] OBVIOUS
  <2>3. next \in [Pools -> 1 .. LastAddress + 1] OBVIOUS
  <2>4. pc \in [Pools -> {"new", "disable", "list", "scan", "add", "held", "release", "ended"}]
        /\ saved \in [Pools -> Nat \cup {None}]
    OBVIOUS
  <2>5. excused \in BOOLEAN OBVIOUS
  <2> QED BY <2>1, <2>2, <2>3, <2>4, <2>5 DEF TypeOK, Addresses
<1>3. OwnOnly BY DEF OwnOnly
<1>4. ListsInv BY DEF ListsInv
<1>5. \A p \in Pools : AcquireInv(p) /\ SettingInv(p)
  BY <1>1 DEF AcquireInv, SettingInv, Taken, None
<1> QED BY <1>2, <1>3, <1>4, <1>5 DEF PoolInv

(* The lists are finite: adding or removing an address changes the count by one. *)
LEMMA Counted ==
  ASSUME TypeOK, NEW p \in Pools, NEW a \in Addresses
  PROVE  /\ Cardinality(added[p]) \in Nat
         /\ Cardinality(added[p] \cup {a}) <= Cardinality(added[p]) + 1
         /\ Cardinality(added[p] \cup {a}) \in Nat
         /\ Cardinality(added[p] \ {a}) <= Cardinality(added[p])
         /\ Cardinality(added[p] \ {a}) \in Nat
<1>1. IsFiniteSet(Addresses) BY FS_Interval, PoolAssumption DEF Addresses
<1>2. added[p] \in SUBSET Addresses BY DEF TypeOK
<1>3. IsFiniteSet(added[p]) BY <1>1, <1>2, FS_Subset
<1>4. IsFiniteSet(added[p] \cup {a}) /\ IsFiniteSet(added[p] \ {a})
  BY <1>3, FS_AddElement, FS_RemoveElement
<1>5. /\ Cardinality(added[p]) \in Nat /\ Cardinality(added[p] \cup {a}) \in Nat
      /\ Cardinality(added[p] \ {a}) \in Nat
  BY <1>3, <1>4, FS_CardinalityType
<1>6. Cardinality(added[p] \cup {a}) <= Cardinality(added[p]) + 1
  <2>1. Cardinality(added[p] \cup {a})
          = IF a \in added[p] THEN Cardinality(added[p]) ELSE Cardinality(added[p]) + 1
    BY <1>3, FS_AddElement
  <2> QED BY <1>5, <2>1
<1>7. Cardinality(added[p] \ {a}) <= Cardinality(added[p])
  BY <1>3, <1>5, FS_RemoveElement
<1> QED BY <1>5, <1>6, <1>7

(* Steps that move a program and leave lists and interface alone.               *)
LEMMA QuietKeeps ==
  ASSUME PoolInv, NEW p \in Pools,
         \/ ListAssigned(p) \/ SkipCandidate(p) \/ ProbeFree(p) \/ Shortfall(p) \/ AddRaises(p)
         \/ CommandRaises(p) \/ Release(p) \/ Crash(p)
  PROVE  PoolInv'
<1> USE PoolAssumption DEF PoolInv, Goto, Raise, interface, faults
<1>1. UNCHANGED <<assigned, dad, saved, added, misread>>
  BY DEF ListAssigned, SkipCandidate, ProbeFree, Shortfall, AddRaises, CommandRaises, Release,
         Crash
<1>2. TypeOK'
  <2> USE DEF TypeOK, Addresses, ListAssigned, SkipCandidate, ProbeFree, Shortfall, AddRaises,
              CommandRaises, Release, Crash
  <2>1. excused' \in BOOLEAN OBVIOUS
  <2>2. pc' \in [Pools -> {"new", "disable", "list", "scan", "add", "held", "release", "ended"}]
    OBVIOUS
  <2>3. next' \in [Pools -> 1 .. LastAddress + 1]
    <3>1. next' = next \/ (next[p] <= LastAddress /\ next' = [next EXCEPT ![p] = next[p] + 1])
      OBVIOUS
    <3> QED BY <3>1
  <2>5. seen' \in [Pools -> SUBSET Addresses] OBVIOUS
  <2>4. failures' \in 0 .. MaxFailures /\ crashes' \in 0 .. MaxCrashes OBVIOUS
  <2> QED BY <1>1, <2>1, <2>2, <2>3, <2>4, <2>5 DEF TypeOK
<1>3. OwnOnly' BY <1>1 DEF OwnOnly
<1>4. /\ excused => excused'
      /\ \A q \in Pools : (pc'[q] = "new" => pc[q] = "new") /\ (q # p => pc'[q] = pc[q])
      /\ ~excused' /\ p \in Guarded => pc'[p] # "ended"
      /\ pc'[p] # "disable" \/ pc'[p] = pc[p]
  BY DEF TypeOK, ListAssigned, SkipCandidate, ProbeFree, Shortfall, AddRaises,
         CommandRaises, Release, Crash
<1>5. ListsInv' BY <1>1, <1>4 DEF ListsInv
<1>6. \A q \in Pools : AcquireInv(q)'
  BY <1>1 DEF AcquireInv, Acquiring, TypeOK, Addresses, ListAssigned, SkipCandidate, ProbeFree, Shortfall,
         AddRaises, CommandRaises, Release, Crash
<1>7. ASSUME NEW q \in Pools PROVE SettingInv(q)'
  BY <1>1, <1>4, <1>7 DEF SettingInv, Taken, Alone, TypeOK
<1> QED BY <1>2, <1>3, <1>5, <1>6, <1>7

(* The settings are read and switched off.                                      *)
LEMMA DisableKeeps ==
  ASSUME PoolInv, NEW p \in Pools, ReadDad(p) \/ ReadDadUnparsed(p) \/ DisableDad(p)
  PROVE  PoolInv'
<1> USE PoolAssumption DEF PoolInv, Goto, interface, faults, ReadDad, ReadDadUnparsed, DisableDad
<1>1. TypeOK'
  <2>1. excused' \in BOOLEAN BY DEF TypeOK
  <2>2. pc' \in [Pools -> {"new", "disable", "list", "scan", "add", "held", "release", "ended"}]
        /\ saved' \in [Pools -> Nat \cup {None}] /\ dad' \in Nat
    BY DEF TypeOK, None
  <2>3. failures' \in 0 .. MaxFailures BY DEF TypeOK
  <2> QED BY <2>1, <2>2, <2>3 DEF TypeOK
<1>2. OwnOnly' BY DEF OwnOnly
<1>3. ListsInv' BY DEF ListsInv, TypeOK
<1>4. \A q \in Pools : AcquireInv(q)' BY DEF AcquireInv, Acquiring, TypeOK
<1>5. ASSUME NEW q \in Pools PROVE SettingInv(q)'
  <2> USE DEF SettingInv, Taken, Alone, TypeOK, None
  <2>1. CASE q = p BY <2>1
  <2>2. CASE q # p BY <2>2
  <2> QED BY <2>1, <2>2
<1> QED BY <1>1, <1>2, <1>3, <1>4, <1>5

LEMMA AddKeeps ==
  ASSUME PoolInv, NEW p \in Pools, AddAlias(p)
  PROVE  PoolInv'
<1> USE PoolAssumption DEF PoolInv, Goto, faults
<1> DEFINE a == next[p]
<1>1. a \in Addresses /\ a \notin assigned
  BY DEF AddAlias, AcquireInv, TypeOK, Addresses
<1>2. /\ assigned' = assigned \cup {a} /\ added' = [added EXCEPT ![p] = added[p] \cup {a}]
      /\ pc' = [pc EXCEPT ![p] = IF Cardinality(added'[p]) >= Count THEN "held" ELSE "scan"]
      /\ next' = [next EXCEPT ![p] = a + 1] /\ pc[p] = "add"
      /\ UNCHANGED <<dad, saved, seen, failures, crashes, excused, misread>>
  BY DEF AddAlias
<1> HIDE DEF a
<1>3. added[p] \in SUBSET Addresses /\ added'[p] = added[p] \cup {a} BY <1>2 DEF TypeOK
<1>4. /\ Cardinality(added'[p]) <= Count /\ Cardinality(added'[p]) \in Nat
      /\ Cardinality(added[p]) \in Nat
  <2>1. Cardinality(added[p]) < Count BY <1>2 DEF AcquireInv, Acquiring
  <2>2. /\ Cardinality(added[p]) \in Nat /\ Cardinality(added[p] \cup {a}) \in Nat
        /\ Cardinality(added[p] \cup {a}) <= Cardinality(added[p]) + 1
    BY <1>1, Counted
  <2> QED BY <1>3, <2>1, <2>2
<1>5. TypeOK'
  <2>1. added' \in [Pools -> SUBSET Addresses] BY <1>1, <1>2 DEF TypeOK
  <2>2. \A q \in Pools : Cardinality(added'[q]) <= Count BY <1>2, <1>4 DEF TypeOK
  <2>3. next' \in [Pools -> 1 .. LastAddress + 1] BY <1>1, <1>2 DEF TypeOK, Addresses
  <2>4. pc' \in [Pools -> {"new", "disable", "list", "scan", "add", "held", "release", "ended"}]
    BY <1>2 DEF TypeOK
  <2> QED BY <1>1, <1>2, <2>1, <2>2, <2>3, <2>4 DEF TypeOK
<1>6. OwnOnly' BY <1>1, <1>2, <1>3 DEF OwnOnly, TypeOK
<1>7. ListsInv'
  <2> SUFFICES ASSUME ~excused
               PROVE  /\ assigned' \subseteq Preassigned \cup UNION {added'[q] : q \in Pools}
                      /\ \A q \in Guarded : pc'[q] = "ended" => added'[q] = {}
    BY <1>2 DEF ListsInv
  <2>1. \A q \in Pools : added[q] \subseteq added'[q] BY <1>2, <1>3 DEF TypeOK
  <2>2. assigned' \subseteq Preassigned \cup UNION {added'[q] : q \in Pools}
    BY <1>2, <1>3, <2>1 DEF ListsInv
  <2>3. \A q \in Guarded : pc'[q] = "ended" => added'[q] = {} BY <1>2 DEF ListsInv, TypeOK
  <2> QED BY <2>2, <2>3
<1>8. \A q \in Pools : AcquireInv(q)'
  BY <1>2, <1>4 DEF AcquireInv, Acquiring, TypeOK
<1>9. \A q \in Pools : SettingInv(q)' BY <1>2 DEF SettingInv, Taken, Alone, TypeOK
<1> QED BY <1>5, <1>6, <1>7, <1>8, <1>9

(* release removes an address of its own list, and only that one.               *)
LEMMA RemoveKeeps ==
  ASSUME PoolInv, NEW p \in Pools, RemoveAlias(p) \/ RemoveFails(p)
  PROVE  PoolInv'
<1> USE PoolAssumption DEF PoolInv, faults, interface
<1>1. PICK a \in added[p] :
        /\ added' = [added EXCEPT ![p] = added[p] \ {a}] /\ pc[p] = "release"
        /\ \/ assigned' = assigned \ {a} /\ excused' = excused
           \/ assigned' = assigned /\ excused'
  BY DEF RemoveAlias, RemoveFails, Newest
<1>2. UNCHANGED <<dad, pc, saved, seen, next, misread>> BY DEF RemoveAlias, RemoveFails
<1>3. a \in Addresses /\ added'[p] = added[p] \ {a} BY <1>1 DEF TypeOK
<1>4. Cardinality(added'[p]) <= Cardinality(added[p]) /\ Cardinality(added[p]) \in Nat
      /\ Cardinality(added'[p]) \in Nat
  BY <1>3, Counted
<1>5. TypeOK'
  <2>1. added' \in [Pools -> SUBSET Addresses] BY <1>1 DEF TypeOK
  <2>2. \A q \in Pools : Cardinality(added'[q]) <= Count BY <1>1, <1>4 DEF TypeOK
  <2>3. failures' \in 0 .. MaxFailures /\ crashes' \in 0 .. MaxCrashes
    BY DEF TypeOK, RemoveAlias, RemoveFails
  <2>4. excused' \in BOOLEAN BY DEF TypeOK, RemoveAlias, RemoveFails
  <2>5. assigned' \subseteq Addresses BY <1>1 DEF TypeOK
  <2> QED BY <1>2, <2>1, <2>2, <2>3, <2>4, <2>5 DEF TypeOK
<1>6. OwnOnly' BY <1>1, <1>3 DEF OwnOnly, TypeOK
<1>7. ListsInv'
  <2> SUFFICES ASSUME ~excused'
               PROVE  /\ assigned' \subseteq Preassigned \cup UNION {added'[q] : q \in Pools}
                      /\ \A q \in Guarded : pc'[q] = "ended" => added'[q] = {}
    BY DEF ListsInv
  <2>1. assigned' = assigned \ {a} /\ ~excused BY <1>1
  <2>2. \A q \in Pools : added[q] \ {a} \subseteq added'[q] BY <1>1, <1>3 DEF TypeOK
  <2>3. assigned' \subseteq Preassigned \cup UNION {added'[q] : q \in Pools}
    BY <2>1, <2>2 DEF ListsInv
  <2>4. \A q \in Guarded : pc'[q] = "ended" => added'[q] = {}
    BY <1>1, <1>2, <2>1 DEF ListsInv, TypeOK
  <2> QED BY <2>3, <2>4
<1>8. \A q \in Pools : AcquireInv(q)' BY <1>1, <1>2 DEF AcquireInv, Acquiring, TypeOK
<1>9. \A q \in Pools : SettingInv(q)' BY <1>1, <1>2 DEF SettingInv, Taken, Alone
<1> QED BY <1>5, <1>6, <1>7, <1>8, <1>9

LEMMA RestoreKeeps ==
  ASSUME PoolInv, NEW p \in Pools, RestoreDad(p) \/ RestoreFails(p)
  PROVE  PoolInv'
<1> USE PoolAssumption DEF PoolInv, Goto, faults, interface, RestoreDad, RestoreFails
<1>1. TypeOK'
  <2>1. excused' \in BOOLEAN BY DEF TypeOK
  <2>2. pc' \in [Pools -> {"new", "disable", "list", "scan", "add", "held", "release", "ended"}]
        /\ saved' \in [Pools -> Nat \cup {None}] /\ dad' \in Nat
    BY DEF TypeOK, None
  <2>3. failures' \in 0 .. MaxFailures BY DEF TypeOK
  <2> QED BY <2>1, <2>2, <2>3 DEF TypeOK
<1>2. OwnOnly' BY DEF OwnOnly
<1>3. ListsInv' BY DEF ListsInv, TypeOK
<1>4. \A q \in Pools : AcquireInv(q)' BY DEF AcquireInv, Acquiring, TypeOK
<1>5. ASSUME NEW q \in Pools PROVE SettingInv(q)'
  <2> USE DEF SettingInv, Taken, Alone, TypeOK, None
  <2>1. CASE q = p BY <2>1
  <2>2. CASE q # p BY <2>2
  <2> QED BY <2>1, <2>2
<1> QED BY <1>1, <1>2, <1>3, <1>4, <1>5

LEMMA NextInv == PoolInv /\ [Next]_vars => PoolInv'
<1> SUFFICES ASSUME PoolInv, [Next]_vars PROVE PoolInv' OBVIOUS
<1>1. CASE UNCHANGED vars
  BY <1>1 DEF vars, interface, pool, faults, PoolInv, TypeOK, OwnOnly, ListsInv, AcquireInv,
              SettingInv, Taken, Alone
<1>2. CASE Next
  BY <1>2, QuietKeeps, DisableKeeps, AddKeeps, RemoveKeeps, RestoreKeeps DEF Next
<1> QED BY <1>1, <1>2

LEMMA PoolInvariant == Spec => []PoolInv
BY InitInv, NextInv, PTL DEF Spec

(* For any number of campaigns on an interface: an address belongs to at most   *)
(* one pool, and those the host had stay (LanIpPool.acquire, release).          *)
THEOREM AddressesOwned == Spec => []OwnOnly
<1>1. PoolInv => OwnOnly BY DEF PoolInv
<1> QED BY <1>1, PoolInvariant, PTL

(* When every caller releases its pool, campaigns leave the interface as they   *)
(* found it: unless a clean-up command failed or a campaign was killed, no      *)
(* alias stays, and one that was alone has put back the DAD setting it read, or *)
(* 1 when the answer was no number (LanIpPool.release, _restore_dad).           *)
THEOREM InterfaceLeftAsFound ==
  ASSUME Guarded = Pools
  PROVE  Spec => []InterfaceRestored
<1>1. PoolInv => NothingLeft
  <2> SUFFICES ASSUME PoolInv, \A p \in Pools : pc[p] = "ended", ~excused
               PROVE  assigned = Preassigned
    BY DEF NothingLeft
  <2>1. \A p \in Pools : added[p] = {} BY Guarded = Pools DEF PoolInv, ListsInv
  <2> QED BY <2>1 DEF PoolInv, ListsInv, OwnOnly
<1>2. PoolInv => DadRestored
  BY PoolAssumption DEF PoolInv, SettingInv, Taken, Alone, DadRestored
<1>3. PoolInv => InterfaceRestored BY <1>1, <1>2 DEF InterfaceRestored, PoolInv
<1> QED BY <1>3, PoolInvariant, PTL
===============================================================================
