---------------------------- MODULE Fixtures_proofs ----------------------------
(* Proofs about the parts of MCFixtures for every number of runs, targets,     *)
(* connections, search tasks and files: the source publisher (SourcePublisher), *)
(* the callback commands (CallbackCommands) and the stress lane                *)
(* (StressDownloads). The addresses are proved about in LanIpPool_proofs.      *)
EXTENDS MCFixtures, Sequences, FiniteSetTheorems, TLAPS

-------------------------------------------------------------------------------
(* The initial states of the whole are initial states of each part. *)
LEMMA PartsInit ==
  ASSUME FixturesInit
  PROVE  Refused!Init /\ Callback!Init /\ Stress!Init
BY DEF FixturesInit

(* A step of the whole is a step of each part or leaves it alone.  The engine  *)
(* that only refuses does nothing that a disturbed one could not do.           *)
LEMMA PartsStep ==
  ASSUME [FixturesNext]_allVars
  PROVE  /\ [Refused!Next \/ Disturbed!Next]_publisherVars
         /\ scope = "refused" => [Refused!Next]_publisherVars
         /\ [Callback!Next]_callbackVars
         /\ [Stress!Next]_stressVars
         /\ scope' = scope
BY DEF FixturesNext, allVars

-------------------------------------------------------------------------------
(* The publisher.  Only one run can have the network and the route of the      *)
(* host, and a run has the route for as long as it may still remove one: so    *)
(* the route a run removes, by its destination alone, is its own.              *)

Before == {"network", "route", "container", "receipt", "owned"}
After == {"settled", "cleaned", "raised"}

Has(p, r) == <<r, p>> \in exists

Exclusive ==
  \A r \in Disturbed!Shared : \A p, q \in Parents : Has(p, r) /\ Has(q, r) => p = q

Held(p) ==
  /\ point[p] \in Before \ {"network"} => Has(p, "network")
  /\ point[p] \in {"receipt", "owned"} => Has(p, "container")
  /\ gateway[p] /\ point[p] \notin After => Has(p, "route")
  /\ point[p] = "rm-route" => gateway[p]
  /\ point[p] \in {"network", "route"} => ~gateway[p]
  /\ point[p] \in {"container", "receipt", "owned"} => gateway[p] = Routable
  /\ point[p] \in Before => ~closing[p]
  /\ closing[p] => gateway[p] = Routable
  /\ point[p] = "route" => Routable
  /\ <<"route", p>> \in exists \cup late => Routable

OwnInv == Disturbed!TypeOK /\ Exclusive /\ \A p \in Parents : Held(p)

(* When commands only fail, the resources a run has are those its point and    *)
(* its errors account for, and every removal it is past was attempted.         *)

Gone(p, R) == \A r \in R : ~Has(p, r)

Cleared(p) ==
  /\ point[p] = "network" => Gone(p, Disturbed!Resources)
  /\ point[p] \in {"route", "container"} => ~Has(p, "container")
  /\ ~gateway[p] => ~Has(p, "route")
  /\ ~errors[p] =>
       /\ point[p] = "rm-network" => ~Has(p, "container")
       /\ point[p] = "rm-route" => Gone(p, {"container", "network"})
       /\ point[p] \in After => Gone(p, Disturbed!Resources)
  /\ point[p] = "cleaned" => ~errors[p]

Tried(p) ==
  /\ point[p] \in Before \cup {"rm-container"} => attempted[p] = {}
  /\ point[p] = "rm-network" => attempted[p] = {"container"}
  /\ point[p] = "rm-route" => attempted[p] = {"container", "network"}
  /\ point[p] \in After /\ (closing[p] \/ point[p] # "raised") =>
       attempted[p] = IF gateway[p] THEN Disturbed!Resources
                      ELSE Disturbed!Resources \ {"route"}

GoneInv == late = {} /\ \A p \in Parents : Cleared(p) /\ Tried(p)

PublisherInv == OwnInv /\ (scope = "refused" => GoneInv)

(* A run whose commands are only refused takes steps of a disturbed one. *)
LEMMA RefusedRun ==
  ASSUME NEW p \in Parents, Refused!Step(p)
  PROVE  Disturbed!Step(p)
<1>1. ASSUME NEW l, Refused!Goto(p, l) PROVE Disturbed!Goto(p, l)
  BY <1>1 DEF Refused!Goto, Disturbed!Goto
<1>2. ASSUME NEW r, Refused!Creates(p, r) PROVE Disturbed!Creates(p, r)
  BY <1>2 DEF Refused!Creates, Disturbed!Creates, Refused!Taken, Disturbed!Taken,
     Refused!Shared, Disturbed!Shared
<1>3. ASSUME NEW r, Refused!Fails(p, r) PROVE Disturbed!Fails(p, r)
  BY <1>3 DEF Refused!Fails, Disturbed!Fails, Refused!Taken, Disturbed!Taken,
     Refused!Shared, Disturbed!Shared
<1>4. ASSUME NEW r, NEW l, Refused!Remove(p, r, l) PROVE Disturbed!Remove(p, r, l)
  BY <1>1, <1>4 DEF Refused!Remove, Disturbed!Remove, Refused!Named, Disturbed!Named,
     Refused!Refuses, Disturbed!Refuses
<1>5. CASE Refused!CreateNetwork(p)
  BY <1>1, <1>2, <1>3, <1>5 DEF Refused!CreateNetwork, Disturbed!CreateNetwork, Disturbed!Step
<1>6. CASE Refused!AddRoute(p)
  BY <1>1, <1>2, <1>3, <1>6 DEF Refused!AddRoute, Disturbed!AddRoute, Disturbed!Step
<1>7. CASE Refused!RunContainer(p)
  BY <1>1, <1>2, <1>3, <1>7 DEF Refused!RunContainer, Disturbed!RunContainer, Disturbed!Step
<1>8. CASE Refused!WaitForReceipt(p) \/ Refused!InterruptStart(p)
  BY <1>1, <1>8 DEF Refused!WaitForReceipt, Disturbed!WaitForReceipt,
     Refused!InterruptStart, Disturbed!InterruptStart, Disturbed!Step
<1>9. CASE Refused!Cleanup(p) \/ Refused!Settle(p)
  BY <1>1, <1>9 DEF Refused!Cleanup, Disturbed!Cleanup, Refused!Settle, Disturbed!Settle,
     Disturbed!Step
<1>10. CASE Refused!RemoveContainer(p) \/ Refused!RemoveNetwork(p) \/ Refused!RemoveRoute(p)
  BY <1>4, <1>10 DEF Refused!RemoveContainer, Disturbed!RemoveContainer,
     Refused!RemoveNetwork, Disturbed!RemoveNetwork, Refused!RemoveRoute,
     Disturbed!RemoveRoute, Disturbed!Step
<1>11. QED
  BY <1>5, <1>6, <1>7, <1>8, <1>9, <1>10 DEF Refused!Step

(* An engine that only refuses takes steps of a disturbed one. *)
LEMMA RefusedIsDisturbed ==
  ASSUME Refused!Next
  PROVE  Disturbed!Next
<1>1. CASE Refused!EngineFinishes
  BY <1>1 DEF Refused!EngineFinishes, Disturbed!EngineFinishes, Disturbed!Next,
     Refused!Taken, Disturbed!Taken, Refused!Shared, Disturbed!Shared
<1>2. ASSUME NEW p \in Parents, Refused!Step(p)
      PROVE  Disturbed!Step(p)
  BY <1>2, RefusedRun
<1>3. QED
  BY <1>1, <1>2 DEF Refused!Next, Disturbed!Next

(* A creation adds the run's own resource, a shared one only where there is none. *)
LEMMA CreatesEffect ==
  ASSUME OwnInv, NEW p \in Parents, NEW r \in Disturbed!Resources, Disturbed!Creates(p, r)
  PROVE  exists' = exists \cup {<<r, p>>} /\ late' = late /\ Exclusive'
<1>1. exists' = exists \cup {<<r, p>>} /\ late' = late
  BY DEF Disturbed!Creates
<1>2. ASSUME NEW s \in Disturbed!Shared, NEW a \in Parents, NEW b \in Parents,
             <<s, a>> \in exists', <<s, b>> \in exists'
      PROVE  a = b
  <2>1. CASE s = r
    BY <1>1, <1>2, <2>1 DEF Disturbed!Creates, Disturbed!Taken
  <2>2. CASE s # r
    BY <1>1, <1>2, <2>2 DEF OwnInv, Exclusive, Has
  <2>3. QED
    BY <2>1, <2>2
<1>3. QED
  BY <1>1, <1>2 DEF Exclusive, Has

(* A failed creation may still be under way in the engine. *)
LEMMA FailsEffect ==
  ASSUME NEW p \in Parents, NEW r, Disturbed!Fails(p, r)
  PROVE  exists' = exists /\ late' \in {late, late \cup {<<r, p>>}}
BY DEF Disturbed!Fails

(* A removal takes at most the run's own resource away, also the route that it *)
(* names by its destination. *)
LEMMA NamedOwn ==
  ASSUME OwnInv, NEW p \in Parents, NEW r \in Disturbed!Resources,
         r = "route" => point[p] = "rm-route"
  PROVE  exists \ Disturbed!Named(p, r) = exists \ {<<r, p>>}
<1>1. CASE r # "route"
  BY <1>1 DEF Disturbed!Named
<1>2. CASE r = "route"
  <2>1. Has(p, "route")
    BY <1>2 DEF OwnInv, Held, After
  <2>2. \A q \in Parents : Has(q, "route") => q = p
    BY <2>1 DEF OwnInv, Exclusive, Disturbed!Shared
  <2>3. QED
    BY <1>2, <2>2 DEF Disturbed!Named, Has
<1>3. QED
  BY <1>1, <1>2

(* What a step of run p leaves alone of another run q. *)
Untouched(q) ==
  /\ point'[q] = point[q] /\ gateway'[q] = gateway[q] /\ closing'[q] = closing[q]
  /\ errors'[q] = errors[q] /\ attempted'[q] = attempted[q]
  /\ \A r \in Disturbed!Resources : /\ <<r, q>> \in exists' <=> <<r, q>> \in exists
                                    /\ <<r, q>> \in late' <=> <<r, q>> \in late

(* What is said of a run stays true while nobody touches it. *)
LEMMA UntouchedKept ==
  ASSUME NEW q \in Parents, Untouched(q)
  PROVE  /\ Held(q) => Held(q)'
         /\ Cleared(q) => Cleared(q)'
         /\ Tried(q) => Tried(q)'
<1>1. \A r \in Disturbed!Resources : Has(q, r)' <=> Has(q, r)
  BY DEF Untouched, Has
<1>2. {"container", "network", "route"} = Disturbed!Resources
  BY DEF Disturbed!Resources
<1>3. <<"route", q>> \in (exists \cup late)' <=> <<"route", q>> \in exists \cup late
  BY <1>2 DEF Untouched
<1>4. Held(q) => Held(q)'
  BY <1>1, <1>2, <1>3 DEF Untouched, Held
<1>5. Cleared(q) => Cleared(q)'
  BY <1>1, <1>2 DEF Untouched, Cleared, Gone
<1>6. Tried(q) => Tried(q)'
  BY DEF Untouched, Tried
<1>7. QED
  BY <1>4, <1>5, <1>6

(* What a step of run p changes, at most: its own point, flags and resource r. *)
Touches(p, r) ==
  /\ \E l \in Disturbed!Points : point' = [point EXCEPT ![p] = l]
  /\ exists' \in {exists, exists \cup {<<r, p>>}, exists \ {<<r, p>>}}
  /\ late' \in {late, late \cup {<<r, p>>}}
  /\ gateway' \in {gateway, [gateway EXCEPT ![p] = TRUE]}
  /\ closing' \in {closing, [closing EXCEPT ![p] = TRUE]}
  /\ errors' \in {errors, [errors EXCEPT ![p] = TRUE]}
  /\ attempted' \in {attempted, [attempted EXCEPT ![p] = @ \cup {r}]}

(* Such a step keeps the types and touches no other run. *)
LEMMA TouchesOne ==
  ASSUME Disturbed!TypeOK, NEW p \in Parents, NEW r \in Disturbed!Resources, Touches(p, r),
         closing'[p] => gateway'[p] = Routable
  PROVE  Disturbed!TypeOK' /\ \A q \in Parents \ {p} : Untouched(q)
<1>1. \A q \in Parents \ {p} : Untouched(q)
  BY DEF Disturbed!TypeOK, Touches, Untouched
<1>2. \A q \in Parents : closing'[q] => gateway'[q] = Routable
  BY <1>1 DEF Disturbed!TypeOK, Untouched
<1>3. /\ exists' \subseteq Disturbed!Resources \X Parents
      /\ late' \subseteq Disturbed!Resources \X Parents
  BY DEF Disturbed!TypeOK, Touches
<1>4. /\ point' \in [Parents -> Disturbed!Points]
      /\ attempted' \in [Parents -> SUBSET Disturbed!Resources]
  BY DEF Disturbed!TypeOK, Touches
<1>5. /\ closing' \in [Parents -> BOOLEAN] /\ errors' \in [Parents -> BOOLEAN]
      /\ gateway' \in [Parents -> BOOLEAN]
  BY DEF Disturbed!TypeOK, Touches
<1>6. QED
  BY <1>1, <1>2, <1>3, <1>4, <1>5 DEF Disturbed!TypeOK

(* Without a new shared resource there is no second owner. *)
LEMMA ExclusiveKept ==
  ASSUME Exclusive, exists' \subseteq exists
  PROVE  Exclusive'
BY DEF Exclusive, Has

(* Every step of run p is of that kind and leaves p consistent. *)
LEMMA RunStep ==
  ASSUME OwnInv, NEW p \in Parents, Disturbed!Step(p)
  PROVE  Exclusive' /\ Held(p)' /\ \E r \in Disturbed!Resources : Touches(p, r)
<1>t. /\ point \in [Parents -> Disturbed!Points]
      /\ closing \in [Parents -> BOOLEAN] /\ gateway \in [Parents -> BOOLEAN]
  BY DEF OwnInv, Disturbed!TypeOK
<1>h. Held(p) /\ Exclusive
  BY DEF OwnInv
<1>r. /\ Disturbed!Resources = {"container", "network", "route"} /\ Routable \in BOOLEAN
      /\ Before \cup After \cup {"rm-container", "rm-network", "rm-route"} \subseteq Disturbed!Points
  BY PartsAssumption DEF Disturbed!Resources, Disturbed!PublisherAssumption, Disturbed!Points,
     Before, After
<1> USE DEF Before, After
<1>1. CASE Disturbed!CreateNetwork(p)
  <2>1. point[p] = "network" /\ UNCHANGED <<closing, gateway, errors, attempted>>
    BY <1>1 DEF Disturbed!CreateNetwork
  <2>2. CASE Disturbed!Creates(p, "network")
             /\ Disturbed!Goto(p, IF Routable THEN "route" ELSE "container")
    <3>1. exists' = exists \cup {<<"network", p>>} /\ late' = late /\ Exclusive'
      BY <1>r, <2>2, CreatesEffect
    <3>2. point' = [point EXCEPT ![p] = IF Routable THEN "route" ELSE "container"]
      BY <2>2 DEF Disturbed!Goto
    <3>3. Held(p)'
      BY <1>t, <1>h, <1>r, <2>1, <3>1, <3>2 DEF Held, Has
    <3>4. Touches(p, "network")
      BY <1>r, <2>1, <3>1, <3>2 DEF Touches
    <3>5. QED
      BY <1>r, <3>1, <3>3, <3>4
  <2>3. CASE Disturbed!Fails(p, "network") /\ Disturbed!Goto(p, "raised")
    <3>1. exists' = exists /\ late' \in {late, late \cup {<<"network", p>>}}
      BY <2>3, FailsEffect
    <3>2. point' = [point EXCEPT ![p] = "raised"]
      BY <2>3 DEF Disturbed!Goto
    <3>3. Held(p)'
      BY <1>t, <1>h, <1>r, <2>1, <3>1, <3>2 DEF Held, Has
    <3>4. Touches(p, "network")
      BY <1>r, <2>1, <3>1, <3>2 DEF Touches
    <3>5. QED
      BY <1>h, <1>r, <3>1, <3>3, <3>4, ExclusiveKept
  <2>4. QED
    BY <1>1, <2>2, <2>3 DEF Disturbed!CreateNetwork
<1>2. CASE Disturbed!AddRoute(p)
  <2>1. point[p] = "route" /\ UNCHANGED <<closing, errors, attempted>>
    BY <1>2 DEF Disturbed!AddRoute
  <2>2. CASE /\ Disturbed!Creates(p, "route") /\ Disturbed!Goto(p, "container")
             /\ gateway' = [gateway EXCEPT ![p] = TRUE]
    <3>1. exists' = exists \cup {<<"route", p>>} /\ late' = late /\ Exclusive'
      BY <1>r, <2>2, CreatesEffect
    <3>2. point' = [point EXCEPT ![p] = "container"]
      BY <2>2 DEF Disturbed!Goto
    <3>3. Held(p)'
      BY <1>t, <1>h, <1>r, <2>1, <2>2, <3>1, <3>2 DEF Held, Has
    <3>4. Touches(p, "route")
      BY <1>r, <2>1, <2>2, <3>1, <3>2 DEF Touches
    <3>5. QED
      BY <1>r, <3>1, <3>3, <3>4
  <2>3. CASE Disturbed!Fails(p, "route") /\ Disturbed!Goto(p, "rm-container") /\ gateway' = gateway
    <3>1. exists' = exists /\ late' \in {late, late \cup {<<"route", p>>}}
      BY <2>3, FailsEffect
    <3>2. point' = [point EXCEPT ![p] = "rm-container"]
      BY <2>3 DEF Disturbed!Goto
    <3>3. Held(p)'
      BY <1>t, <1>h, <1>r, <2>1, <2>3, <3>1, <3>2 DEF Held, Has
    <3>4. Touches(p, "route")
      BY <1>r, <2>1, <2>3, <3>1, <3>2 DEF Touches
    <3>5. QED
      BY <1>h, <1>r, <3>1, <3>3, <3>4, ExclusiveKept
  <2>4. QED
    BY <1>2, <2>2, <2>3 DEF Disturbed!AddRoute
<1>3. CASE Disturbed!RunContainer(p)
  <2>1. point[p] = "container" /\ UNCHANGED <<closing, gateway, errors, attempted>>
    BY <1>3 DEF Disturbed!RunContainer
  <2>2. ASSUME NEW l \in {"receipt", "rm-container"}, Disturbed!Creates(p, "container"),
               Disturbed!Goto(p, l)
        PROVE  Exclusive' /\ Held(p)' /\ Touches(p, "container")
    <3>1. exists' = exists \cup {<<"container", p>>} /\ late' = late /\ Exclusive'
      BY <1>r, <2>2, CreatesEffect
    <3>2. point' = [point EXCEPT ![p] = l]
      BY <2>2 DEF Disturbed!Goto
    <3>3. Held(p)'
      BY <1>t, <1>h, <1>r, <2>1, <2>2, <3>1, <3>2 DEF Held, Has
    <3>4. Touches(p, "container")
      BY <1>r, <2>1, <2>2, <3>1, <3>2 DEF Touches
    <3>5. QED
      BY <3>1, <3>3, <3>4
  <2>3. CASE Disturbed!Fails(p, "container") /\ Disturbed!Goto(p, "rm-container")
    <3>1. exists' = exists /\ late' \in {late, late \cup {<<"container", p>>}}
      BY <2>3, FailsEffect
    <3>2. point' = [point EXCEPT ![p] = "rm-container"]
      BY <2>3 DEF Disturbed!Goto
    <3>3. Held(p)'
      BY <1>t, <1>h, <1>r, <2>1, <3>1, <3>2 DEF Held, Has
    <3>4. Touches(p, "container")
      BY <1>r, <2>1, <3>1, <3>2 DEF Touches
    <3>5. QED
      BY <1>h, <1>r, <3>1, <3>3, <3>4, ExclusiveKept
  <2>4. QED
    BY <1>3, <1>r, <2>2, <2>3 DEF Disturbed!RunContainer
<1>4. CASE Disturbed!WaitForReceipt(p) \/ Disturbed!InterruptStart(p) \/ Disturbed!Settle(p)
  <2>1. PICK l \in {"owned", "rm-container", "raised", "cleaned"} :
          /\ point' = [point EXCEPT ![p] = l]
          /\ l = "owned" => point[p] = "receipt"
          /\ point[p] \in {"route", "container", "receipt", "settled"}
          /\ point[p] = "settled" => l \in After
          /\ UNCHANGED <<exists, late, closing, gateway, errors, attempted>>
    BY <1>4 DEF Disturbed!WaitForReceipt, Disturbed!InterruptStart, Disturbed!Settle, Disturbed!Goto
  <2>2. Held(p)'
    BY <1>t, <1>h, <1>r, <2>1 DEF Held, Has
  <2>3. Touches(p, "container")
    BY <1>r, <2>1 DEF Touches
  <2>4. QED
    BY <1>h, <1>r, <2>1, <2>2, <2>3, ExclusiveKept
<1>5. CASE Disturbed!Cleanup(p)
  <2>1. /\ point[p] = "owned" /\ point' = [point EXCEPT ![p] = "rm-container"]
        /\ closing' = [closing EXCEPT ![p] = TRUE]
        /\ UNCHANGED <<exists, late, gateway, errors, attempted>>
    BY <1>5 DEF Disturbed!Cleanup, Disturbed!Goto
  <2>2. Held(p)'
    BY <1>t, <1>h, <1>r, <2>1 DEF Held, Has
  <2>3. Touches(p, "container")
    BY <1>r, <2>1 DEF Touches
  <2>4. QED
    BY <1>h, <1>r, <2>1, <2>2, <2>3, ExclusiveKept
<1>6. ASSUME NEW r \in Disturbed!Resources, NEW to \in {"rm-network", "rm-route", "settled"},
             Disturbed!Remove(p, r, to), r = "route" => point[p] = "rm-route",
             point[p] \in {"rm-container", "rm-network", "rm-route"},
             r = "route" <=> point[p] = "rm-route",
             to = "rm-route" => gateway[p], r = "route" => to = "settled"
      PROVE  Exclusive' /\ Held(p)' /\ Touches(p, r)
  <2>1. PICK l \in {to, "raised"} : point' = [point EXCEPT ![p] = l]
    BY <1>6 DEF Disturbed!Remove, Disturbed!Goto
  <2>2. /\ exists' \in {exists, exists \ {<<r, p>>}}
        /\ UNCHANGED <<late, closing, gateway>>
        /\ attempted' = [attempted EXCEPT ![p] = @ \cup {r}]
        /\ errors' \in {errors, [errors EXCEPT ![p] = TRUE]}
    BY <1>6, NamedOwn DEF Disturbed!Remove
  <2>3. Held(p)'
    BY <1>t, <1>h, <1>r, <1>6, <2>1, <2>2 DEF Held, Has
  <2>4. Touches(p, r)
    BY <1>r, <2>1, <2>2 DEF Touches
  <2>5. QED
    BY <1>h, <2>2, <2>3, <2>4, ExclusiveKept
<1>7. CASE Disturbed!RemoveContainer(p)
  BY <1>6, <1>7, <1>r DEF Disturbed!RemoveContainer
<1>8. CASE Disturbed!RemoveNetwork(p)
  BY <1>6, <1>8, <1>r DEF Disturbed!RemoveNetwork
<1>9. CASE Disturbed!RemoveRoute(p)
  BY <1>6, <1>9, <1>r DEF Disturbed!RemoveRoute
<1>10. QED
  BY <1>1, <1>2, <1>3, <1>4, <1>5, <1>7, <1>8, <1>9 DEF Disturbed!Step

(* Every step keeps the ownership. *)
LEMMA OwnStep ==
  ASSUME OwnInv, Disturbed!Next
  PROVE  OwnInv'
<1>1. CASE Disturbed!EngineFinishes
  <2>1. PICK c \in late :
          /\ late' = late \ {c}
          /\ exists' \in {exists, IF Disturbed!Taken(c[1]) THEN exists ELSE exists \cup {c}}
    BY <1>1 DEF Disturbed!EngineFinishes
  <2>2. UNCHANGED <<point, closing, gateway, errors, attempted>>
    BY <1>1 DEF Disturbed!EngineFinishes
  <2>3. /\ c \in Disturbed!Resources \X Parents /\ c = <<c[1], c[2]>>
        /\ exists \subseteq exists' /\ exists' \cup late' \subseteq exists \cup late
        /\ exists' \subseteq exists \cup {c}
        /\ Disturbed!Taken(c[1]) => exists' = exists
    BY <2>1 DEF OwnInv, Disturbed!TypeOK
  <2>4. Disturbed!TypeOK'
    BY <2>2, <2>3 DEF OwnInv, Disturbed!TypeOK
  <2>5. Exclusive'
    <3>1. SUFFICES ASSUME NEW r \in Disturbed!Shared, NEW a \in Parents, NEW b \in Parents,
                          <<r, a>> \in exists', <<r, b>> \in exists'
                   PROVE  a = b
      BY DEF Exclusive, Has
    <3>2. CASE r = c[1] /\ ~Disturbed!Taken(r)
      BY <2>3, <3>1, <3>2 DEF Disturbed!Taken
    <3>3. CASE r # c[1] \/ Disturbed!Taken(r)
      BY <2>3, <3>1, <3>3 DEF OwnInv, Exclusive, Has
    <3>4. QED
      BY <3>2, <3>3
  <2>6. ASSUME NEW p \in Parents PROVE Held(p)'
    BY <2>2, <2>3 DEF OwnInv, Held, Has
  <2>7. QED
    BY <2>4, <2>5, <2>6 DEF OwnInv
<1>2. ASSUME NEW p \in Parents, Disturbed!Step(p) PROVE OwnInv'
  <2>1. PICK r \in Disturbed!Resources : Exclusive' /\ Held(p)' /\ Touches(p, r)
    BY <1>2, RunStep
  <2>2. closing'[p] => gateway'[p] = Routable
    BY <2>1 DEF Held
  <2>3. Disturbed!TypeOK' /\ \A q \in Parents \ {p} : Untouched(q)
    BY <2>1, <2>2, TouchesOne DEF OwnInv
  <2>4. \A q \in Parents \ {p} : Held(q)'
    BY <2>3, UntouchedKept DEF OwnInv
  <2>5. QED
    BY <2>1, <2>3, <2>4 DEF OwnInv
<1>3. QED
  BY <1>1, <1>2 DEF Disturbed!Next

(* When commands only fail, a removal has its effect or is reported. *)
LEMMA RemoveReports ==
  ASSUME OwnInv, NEW p \in Parents, NEW r \in Disturbed!Resources, NEW to,
         Refused!Remove(p, r, to), r = "route" => point[p] = "rm-route"
  PROVE  /\ point' = [point EXCEPT ![p] = to] /\ UNCHANGED <<late, closing, gateway>>
         /\ attempted' = [attempted EXCEPT ![p] = @ \cup {r}]
         /\ \/ exists' = exists \ {<<r, p>>} /\ errors' = errors
            \/ exists' = exists /\ errors' = [errors EXCEPT ![p] = TRUE]
<1>1. Refused!Named(p, r) = Disturbed!Named(p, r)
  BY DEF Refused!Named, Disturbed!Named
<1>2. QED
  BY <1>1, NamedOwn DEF Refused!Remove, Refused!Goto

(* Every step of run p of such an engine keeps the account of p. *)
LEMMA AccountStep ==
  ASSUME OwnInv, late = {}, NEW p \in Parents, Cleared(p), Tried(p), Refused!Step(p)
  PROVE  late' = {} /\ Cleared(p)' /\ Tried(p)'
<1>t. /\ point \in [Parents -> Disturbed!Points] /\ attempted \in [Parents -> SUBSET Disturbed!Resources]
      /\ closing \in [Parents -> BOOLEAN] /\ gateway \in [Parents -> BOOLEAN]
      /\ errors \in [Parents -> BOOLEAN]
  BY DEF OwnInv, Disturbed!TypeOK
<1>h. Held(p)
  BY DEF OwnInv
<1>r. Disturbed!Resources = {"container", "network", "route"} /\ Routable \in BOOLEAN
  BY PartsAssumption DEF Disturbed!Resources, Disturbed!PublisherAssumption
<1>f. \A r : /\ Refused!Fails(p, r) => UNCHANGED <<exists, late>>
             /\ Refused!Creates(p, r) => exists' = exists \cup {<<r, p>>} /\ late' = late
  BY DEF Refused!Fails, Refused!Creates
<1> USE DEF Before, After
<1>1. CASE Refused!CreateNetwork(p)
  <2>1. point[p] = "network" /\ UNCHANGED <<closing, gateway, errors, attempted>>
    BY <1>1 DEF Refused!CreateNetwork
  <2>2. CASE Refused!Creates(p, "network")
             /\ Refused!Goto(p, IF Routable THEN "route" ELSE "container")
    BY <1>t, <1>f, <1>r, <2>1, <2>2 DEF Refused!Goto, Cleared, Tried, Has, Gone
  <2>3. CASE Refused!Fails(p, "network") /\ Refused!Goto(p, "raised")
    BY <1>t, <1>h, <1>f, <1>r, <2>1, <2>3 DEF Refused!Goto, Cleared, Tried, Has, Gone, Held
  <2>4. QED
    BY <1>1, <2>2, <2>3 DEF Refused!CreateNetwork
<1>2. CASE Refused!AddRoute(p)
  <2>1. point[p] = "route" /\ UNCHANGED <<closing, errors, attempted>>
    BY <1>2 DEF Refused!AddRoute
  <2>2. CASE /\ Refused!Creates(p, "route") /\ Refused!Goto(p, "container")
             /\ gateway' = [gateway EXCEPT ![p] = TRUE]
    BY <1>t, <1>f, <1>r, <2>1, <2>2 DEF Refused!Goto, Cleared, Tried, Has, Gone
  <2>3. CASE Refused!Fails(p, "route") /\ Refused!Goto(p, "rm-container") /\ gateway' = gateway
    BY <1>t, <1>f, <1>r, <2>1, <2>3 DEF Refused!Goto, Cleared, Tried, Has, Gone
  <2>4. QED
    BY <1>2, <2>2, <2>3 DEF Refused!AddRoute
<1>3. CASE Refused!RunContainer(p)
  <2>1. point[p] = "container" /\ UNCHANGED <<closing, gateway, errors, attempted>>
    BY <1>3 DEF Refused!RunContainer
  <2>2. ASSUME NEW l \in {"receipt", "rm-container"}, Refused!Creates(p, "container"),
               Refused!Goto(p, l)
        PROVE  late' = {} /\ Cleared(p)' /\ Tried(p)'
    BY <1>t, <1>f, <1>r, <2>1, <2>2 DEF Refused!Goto, Cleared, Tried, Has, Gone
  <2>3. CASE Refused!Fails(p, "container") /\ Refused!Goto(p, "rm-container")
    BY <1>t, <1>f, <1>r, <2>1, <2>3 DEF Refused!Goto, Cleared, Tried, Has, Gone
  <2>4. QED
    BY <1>3, <2>2, <2>3 DEF Refused!RunContainer
<1>4. CASE Refused!WaitForReceipt(p) \/ Refused!InterruptStart(p)
  BY <1>4, <1>t, <1>r DEF Refused!WaitForReceipt, Refused!InterruptStart, Refused!Goto, Cleared,
     Tried, Has, Gone
<1>5. CASE Refused!Cleanup(p)
  BY <1>5, <1>t, <1>r DEF Refused!Cleanup, Refused!Goto, Cleared, Tried, Has, Gone
<1>6. CASE Refused!Settle(p)
  BY <1>6, <1>t, <1>r DEF Refused!Settle, Refused!Goto, Cleared, Tried, Has, Gone
<1>7. CASE Refused!RemoveContainer(p)
  <2>1. point[p] = "rm-container" /\ Refused!Remove(p, "container", "rm-network")
    BY <1>7 DEF Refused!RemoveContainer
  <2>2. QED
    BY <1>t, <1>r, <2>1, RemoveReports DEF Cleared, Tried, Has, Gone
<1>8. CASE Refused!RemoveNetwork(p)
  <2>1. /\ point[p] = "rm-network"
        /\ Refused!Remove(p, "network", IF gateway[p] THEN "rm-route" ELSE "settled")
    BY <1>8 DEF Refused!RemoveNetwork
  <2>2. /\ point' = [point EXCEPT ![p] = IF gateway[p] THEN "rm-route" ELSE "settled"] /\ UNCHANGED <<late, closing, gateway>>
        /\ attempted' = [attempted EXCEPT ![p] = @ \cup {"network"}]
        /\ \/ exists' = exists \ {<<"network", p>>} /\ errors' = errors
           \/ exists' = exists /\ errors' = [errors EXCEPT ![p] = TRUE]
    BY <1>r, <2>1, RemoveReports
  <2>3. Cleared(p)'
    BY <1>t, <1>r, <2>1, <2>2 DEF Cleared, Has, Gone
  <2>4. Tried(p)'
    BY <1>t, <1>h, <1>r, <2>1, <2>2 DEF Tried, Held
  <2>5. QED
    BY <2>2, <2>3, <2>4
<1>9. CASE Refused!RemoveRoute(p)
  <2>1. point[p] = "rm-route" /\ Refused!Remove(p, "route", "settled")
    BY <1>9 DEF Refused!RemoveRoute
  <2>2. /\ point' = [point EXCEPT ![p] = "settled"] /\ UNCHANGED <<late, closing, gateway>>
        /\ attempted' = [attempted EXCEPT ![p] = @ \cup {"route"}]
        /\ \/ exists' = exists \ {<<"route", p>>} /\ errors' = errors
           \/ exists' = exists /\ errors' = [errors EXCEPT ![p] = TRUE]
    BY <1>r, <2>1, RemoveReports
  <2>3. Cleared(p)'
    BY <1>t, <1>r, <2>1, <2>2 DEF Cleared, Has, Gone
  <2>4. Tried(p)'
    BY <1>t, <1>h, <1>r, <2>1, <2>2 DEF Tried, Held
  <2>5. QED
    BY <2>2, <2>3, <2>4
<1>10. QED
  BY <1>1, <1>2, <1>3, <1>4, <1>5, <1>6, <1>7, <1>8, <1>9 DEF Refused!Step

(* At first no run has anything. *)
LEMMA PublisherInit ==
  ASSUME Refused!Init
  PROVE  OwnInv /\ GoneInv
<1>1. Disturbed!TypeOK
  BY DEF Refused!Init, Disturbed!TypeOK, Disturbed!Points
<1>2. \A p \in Parents : Held(p) /\ Cleared(p) /\ Tried(p)
  BY DEF Refused!Init, Held, Cleared, Tried, Has, Gone, Before, After
<1>3. QED
  BY <1>1, <1>2 DEF Refused!Init, OwnInv, GoneInv, Exclusive, Has

(* Every step keeps the account of every run, as long as commands only fail.  *)
LEMMA GoneStep ==
  ASSUME OwnInv, GoneInv, Refused!Next
  PROVE  GoneInv'
<1>1. ASSUME NEW p \in Parents, Refused!Step(p) PROVE GoneInv'
  <2>1. late' = {} /\ Cleared(p)' /\ Tried(p)'
    BY <1>1, AccountStep DEF GoneInv
  <2>2. Disturbed!Step(p)
    BY <1>1, RefusedRun
  <2>3. PICK r \in Disturbed!Resources : Held(p)' /\ Touches(p, r)
    BY <2>2, RunStep
  <2>4. closing'[p] => gateway'[p] = Routable
    BY <2>3 DEF Held
  <2>5. \A q \in Parents \ {p} : Untouched(q)
    BY <2>3, <2>4, TouchesOne DEF OwnInv
  <2>6. \A q \in Parents \ {p} : Cleared(q)' /\ Tried(q)'
    BY <2>5, UntouchedKept DEF GoneInv
  <2>7. QED
    BY <2>1, <2>6 DEF GoneInv
<1>2. ~Refused!EngineFinishes
  BY DEF Refused!EngineFinishes, GoneInv
<1>3. QED
  BY <1>1, <1>2 DEF Refused!Next

(* While a run holds its publisher nothing of it is taken away, under every    *)
(* fault and by however many runs on the host; when commands only fail, every  *)
(* removal is attempted and what stays behind is named in an error             *)
(* (_remove_resources, _remove_windows_host_route, cleanup).                   *)
THEOREM PublisherOwned == FixturesSpec => []PublisherSound
<1>1. FixturesInit => PublisherInv
  BY PartsInit, PublisherInit DEF PublisherInv
<1>2. PublisherInv /\ [FixturesNext]_allVars => PublisherInv'
  <2> SUFFICES ASSUME PublisherInv, [FixturesNext]_allVars
               PROVE  PublisherInv'
    OBVIOUS
  <2>1. CASE UNCHANGED publisherVars
    <3>1. OwnInv'
      BY <2>1 DEF publisherVars, PublisherInv, OwnInv, Disturbed!TypeOK, Exclusive, Held, Has
    <3>2. GoneInv => GoneInv'
      BY <2>1 DEF publisherVars, GoneInv, Cleared, Tried, Has, Gone
    <3>3. QED
      BY <3>1, <3>2, PartsStep DEF PublisherInv
  <2>2. CASE ~UNCHANGED publisherVars
    <3>1. Disturbed!Next
      BY <2>2, PartsStep, RefusedIsDisturbed
    <3>2. scope = "refused" => Refused!Next
      BY <2>2, PartsStep
    <3>3. QED
      BY <3>1, <3>2, PartsStep, OwnStep, GoneStep DEF PublisherInv
  <2>3. QED
    BY <2>1, <2>2
<1>3. PublisherInv => PublisherSound
  <2> SUFFICES ASSUME PublisherInv PROVE PublisherSound
    OBVIOUS
  <2>r. /\ Disturbed!Resources = {"container", "network", "route"} /\ Routable \in BOOLEAN
        /\ Refused!Resources = Disturbed!Resources
    BY PartsAssumption DEF Disturbed!Resources, Refused!Resources, Disturbed!PublisherAssumption
  <2>1. Disturbed!TypeOK
    BY DEF PublisherInv, OwnInv
  <2>2. Disturbed!OwnedIsWhole
    <3>1. SUFFICES ASSUME NEW p \in Parents, point[p] = "owned"
                   PROVE  {r \in Disturbed!Resources : <<r, p>> \in exists} =
                            IF Routable THEN Disturbed!Resources ELSE Disturbed!Resources \ {"route"}
      BY DEF Disturbed!OwnedIsWhole
    <3>2. /\ <<"network", p>> \in exists /\ <<"container", p>> \in exists
          /\ <<"route", p>> \in exists <=> Routable
      BY <2>1, <2>r, <3>1 DEF PublisherInv, OwnInv, Held, Has, Before, After, Disturbed!TypeOK
    <3>3. QED
      BY <2>r, <3>2
  <2>3. ASSUME scope = "refused", NEW p \in Parents
        PROVE  /\ (point[p] = "cleaned" \/ (point[p] = "raised" /\ ~errors[p])) =>
                    (exists \cup late) \cap (Refused!Resources \X {p}) = {}
               /\ closing[p] /\ point[p] \in {"cleaned", "raised"} =>
                    attempted[p] = IF gateway[p] THEN Refused!Resources
                                   ELSE Refused!Resources \ {"route"}
    <3>1. late = {} /\ Cleared(p) /\ Tried(p)
      BY <2>3 DEF PublisherInv, GoneInv
    <3>2. QED
      BY <2>r, <3>1 DEF Cleared, Tried, Gone, Has, After
  <2>4. scope = "refused" => Refused!SilentMeansGone /\ Refused!EachAttempted
    BY <2>3 DEF Refused!SilentMeansGone, Refused!EachAttempted
  <2>5. QED
    BY <2>1, <2>2, <2>4 DEF PublisherSound
<1>4. QED
  BY <1>1, <1>2, <1>3, PTL DEF FixturesSpec

-------------------------------------------------------------------------------
(* The callback commands.  A command is sent once because its result, or the   *)
(* child that still waits for one, stands for every request sent; a HELLO of a *)
(* client was provoked by that client's request, so a result that names the    *)
(* client is of its callback.                                                  *)

Once(c) ==
  /\ sends[c] <= 1
  /\ sends[c] = 0 => wire[c] = 0 /\ received[c] = 0
  /\ wire[c] > 0 => received[c] = 0
  /\ sends[c] > 0 => \/ result[c].status # "none"
                     \/ child = "stopped" \/ (child = "wait" /\ command = c)

Genuine(d) == d.peer \in Targets => d.cause = d.peer

Observed ==
  /\ Len(hellos) <= MaxHellos /\ base <= Len(hellos)
  /\ child \in {"send", "wait"} => command # "none" /\ base = begunAt[command]
  /\ \A d \in dialing : Genuine(d)
  /\ \A i \in 1 .. Len(hellos) : Genuine(hellos[i])

Answered(c) ==
  /\ Genuine(result[c])
  /\ result[c].status = "completed" => result[c].at > begunAt[c]
  /\ parent = "accepted" => result[c].status = "completed" /\ result[c].peer = c

CallbackInv ==
  /\ Callback!TypeOK /\ sends \in [Targets -> Nat] /\ begunAt \in [Targets -> Nat]
  /\ Observed /\ \A c \in Targets : Once(c) /\ Answered(c)

(* At first only the server has connected. *)
LEMMA CallbackInit ==
  ASSUME Callback!Init
  PROVE  CallbackInv
<1>1. /\ MaxHellos \in Nat /\ MaxHellos >= 1 /\ 0 \in 0 .. MaxHellos
      /\ "server" \notin Targets /\ "none" \notin Targets
  BY PartsAssumption DEF Callback!CallbackAssumption
<1>2. hellos \in Seq(Callback!Hellos) /\ Len(hellos) = 1 /\ hellos[1].peer = "server"
  BY DEF Callback!Init, Callback!Hellos, Callback!Peers
<1>3. Callback!TypeOK
  BY <1>1, <1>2 DEF Callback!Init, Callback!TypeOK, Callback!NoResult, Callback!Peers
<1>4. Observed
  BY <1>1, <1>2 DEF Callback!Init, Observed, Genuine
<1>5. \A c \in Targets : Once(c) /\ Answered(c)
  BY <1>1 DEF Callback!Init, Once, Answered, Genuine, Callback!NoResult
<1>6. QED
  BY <1>3, <1>4, <1>5 DEF Callback!Init, CallbackInv

(* The types of the parts, in the forms the steps use. *)
LEMMA CallbackTypes ==
  ASSUME CallbackInv
  PROVE  /\ MaxHellos \in Nat /\ base \in Nat /\ Len(hellos) \in Nat
         /\ "server" \notin Targets /\ "none" \notin Targets
         /\ \A c \in Targets : sends[c] \in Nat /\ begunAt[c] \in Nat
         /\ command \in Targets \cup {"none"}
         /\ child \in {"send", "wait"} => command \in Targets /\ result[command].status = "none"
<1>1. /\ MaxHellos \in Nat /\ "server" \notin Targets /\ "none" \notin Targets
  BY PartsAssumption DEF Callback!CallbackAssumption
<1>2. base \in Nat /\ Len(hellos) \in Nat
  BY <1>1 DEF CallbackInv, Callback!TypeOK
<1>3. QED
  BY <1>1, <1>2 DEF CallbackInv, Callback!TypeOK, Observed

(* The steps of the parent. *)
LEMMA ParentStep ==
  ASSUME CallbackInv, Callback!Parent
  PROVE  CallbackInv'
<1> USE DEF Callback!files, Callback!childVars, Callback!network, Callback!history,
        Callback!parentVars
<1>1. /\ UNCHANGED <<result, command, base, wire, received, dialing, hellos, sends, begunAt>>
      /\ child' \in {child, "stopped"}
  BY DEF Callback!Parent, Callback!WriteRequest, Callback!ReadResult, Callback!ResultTimeout,
     Callback!Join, Callback!StopChild
<1>2. /\ parent' \in {"next", "wait", "join", "accepted", "raised"} /\ asked' \subseteq Targets
      /\ open' \in asked' \cup {"none"} /\ request \subseteq request' /\ request' \subseteq Targets
  BY DEF Callback!Parent, Callback!WriteRequest, Callback!ReadResult, Callback!ResultTimeout,
     Callback!Join, Callback!StopChild, CallbackInv, Callback!TypeOK
<1>3. Callback!TypeOK'
  BY <1>1, <1>2 DEF CallbackInv, Callback!TypeOK
<1>4. Observed'
  BY <1>1 DEF CallbackInv, Observed, Genuine
<1>5. parent' = "accepted" => parent = "accepted" \/ \A c \in Targets : Callback!Exact(c)
  BY DEF Callback!Parent, Callback!WriteRequest, Callback!ReadResult, Callback!ResultTimeout,
     Callback!Join, Callback!StopChild
<1>6. \A c \in Targets : Once(c)' /\ Answered(c)'
  BY <1>1, <1>5 DEF CallbackInv, Once, Answered, Genuine, Callback!Exact
<1>7. QED
  BY <1>1, <1>3, <1>4, <1>6 DEF CallbackInv

(* The steps of the child. *)
LEMMA ChildStep ==
  ASSUME CallbackInv, Callback!Child
  PROVE  CallbackInv'
<1> USE DEF Callback!files, Callback!childVars, Callback!network, Callback!history,
        Callback!parentVars
<1>t. Callback!TypeOK /\ sends \in [Targets -> Nat] /\ begunAt \in [Targets -> Nat]
  BY DEF CallbackInv
<1>h. Observed /\ \A c \in Targets : Once(c) /\ Answered(c)
  BY DEF CallbackInv
<1>1. CASE Callback!BeginCommand
  <2>1. PICK c \in request : result[c].status = "none" /\ command' = c
    BY <1>1 DEF Callback!BeginCommand
  <2>2. /\ child = "poll" /\ child' = "send" /\ base' = Len(hellos)
        /\ begunAt' = [begunAt EXCEPT ![c] = Len(hellos)]
        /\ UNCHANGED <<parent, asked, open, request, result, wire, received, dialing, hellos, sends>>
    BY <1>1, <2>1 DEF Callback!BeginCommand
  <2>3. c \in Targets /\ c # "none" /\ Len(hellos) \in 0 .. MaxHellos
    BY <1>t, <1>h, CallbackTypes DEF Callback!TypeOK, Observed
  <2>4. Callback!TypeOK'
    BY <1>t, <2>1, <2>2, <2>3 DEF Callback!TypeOK
  <2>5. Observed' /\ begunAt' \in [Targets -> Nat]
    BY <1>t, <1>h, <2>1, <2>2, <2>3 DEF Observed, Genuine
  <2>6. \A d \in Targets : Once(d)' /\ Answered(d)'
    BY <1>t, <1>h, <2>1, <2>2, <2>3, CallbackTypes DEF Once, Answered, Genuine
  <2>7. QED
    BY <1>t, <2>2, <2>4, <2>5, <2>6 DEF CallbackInv
<1>2. CASE Callback!SendRequest
  <2>1. /\ child = "send" /\ child' = "wait"
        /\ wire' = [wire EXCEPT ![command] = @ + 1]
        /\ sends' = [sends EXCEPT ![command] = @ + 1]
        /\ UNCHANGED <<parent, asked, open, request, result, command, base, received, dialing,
                       hellos, begunAt>>
    BY <1>2 DEF Callback!SendRequest
  <2>2. /\ command \in Targets /\ result[command].status = "none"
        /\ sends[command] = 0 /\ wire[command] = 0 /\ received[command] = 0
    BY <1>h, <2>1, CallbackTypes DEF Once
  <2>3. /\ wire'[command] = 1 /\ sends'[command] = 1
        /\ \A c \in Targets : c # command => wire'[c] = wire[c] /\ sends'[c] = sends[c]
        /\ wire' \in [Targets -> 0 .. 1] /\ sends' \in [Targets -> Nat]
    BY <1>t, <2>1, <2>2 DEF Callback!TypeOK
  <2>4. Callback!TypeOK'
    BY <1>t, <2>1, <2>2, <2>3 DEF Callback!TypeOK
  <2>5. Observed'
    BY <1>h, <2>1 DEF Observed, Genuine
  <2>6. \A c \in Targets : Once(c)' /\ Answered(c)'
    BY <1>h, <2>1, <2>2, <2>3 DEF Once, Answered, Genuine
  <2>7. QED
    BY <1>t, <2>1, <2>3, <2>4, <2>5, <2>6 DEF CallbackInv
<1>3. ASSUME NEW r \in [status : {"completed", "failed"}, peer : Callback!Peers \cup {"none"},
                        cause : Targets \cup {"none"}, at : 0 .. MaxHellos],
             Callback!Answer(r), child \in {"send", "wait"}, Genuine(r),
             r.status = "completed" => r.at > base
      PROVE  CallbackInv'
  <2>1. /\ result' = [result EXCEPT ![command] = r] /\ child' = "poll" /\ command' = "none"
        /\ UNCHANGED <<parent, asked, open, request, base, wire, received, dialing, hellos,
                       sends, begunAt>>
    BY <1>3 DEF Callback!Answer
  <2>2. /\ command \in Targets /\ result[command].status = "none" /\ base = begunAt[command]
    BY <1>3, <1>h, CallbackTypes DEF Observed
  <2>3. /\ result'[command] = r /\ r.status # "none"
        /\ \A c \in Targets : c # command => result'[c] = result[c]
    BY <1>t, <1>3, <2>1, <2>2 DEF Callback!TypeOK
  <2>4. Callback!TypeOK'
    BY <1>t, <1>3, <2>1 DEF Callback!TypeOK
  <2>5. Observed'
    BY <1>h, <2>1 DEF Observed, Genuine
  <2>6. parent # "accepted"
    BY <1>h, <2>2 DEF Answered
  <2>7. ASSUME NEW c \in Targets PROVE Once(c)' /\ Answered(c)'
    <3>1. CASE c = command
      BY <1>h, <1>3, <2>1, <2>2, <2>3, <2>6, <3>1 DEF Once, Answered, Genuine
    <3>2. CASE c # command
      BY <1>h, <1>3, <2>1, <2>3, <3>2 DEF Once, Answered, Genuine
    <3>3. QED
      BY <3>1, <3>2
  <2>8. QED
    BY <1>t, <2>1, <2>4, <2>5, <2>7 DEF CallbackInv
<1>4. CASE Callback!CallbackSeen
  <2>1. /\ child = "wait" /\ Len(hellos) > base
        /\ Callback!Answer([status |-> "completed", peer |-> hellos[base + 1].peer,
                            cause |-> hellos[base + 1].cause, at |-> base + 1])
    BY <1>4 DEF Callback!CallbackSeen
  <2>2. /\ base + 1 \in 1 .. Len(hellos) /\ base + 1 \in 0 .. MaxHellos
    BY <1>h, <2>1, CallbackTypes DEF Observed
  <2>3. /\ hellos[base + 1] \in Callback!Hellos /\ Genuine(hellos[base + 1])
    BY <1>t, <1>h, <2>2 DEF Callback!TypeOK, Observed
  <2>4. base + 1 > base
    BY CallbackTypes
  <2>5. QED
    BY <1>3, <2>1, <2>2, <2>3, <2>4 DEF Callback!Hellos, Genuine
<1>5. CASE Callback!CallbackTimeout \/ Callback!SendRaises
  <2>1. child \in {"send", "wait"} /\ Callback!Answer(Callback!Failed)
    BY <1>5 DEF Callback!CallbackTimeout, Callback!SendRaises
  <2>2. /\ Callback!Failed = [status |-> "failed", peer |-> "none", cause |-> "none", at |-> 0]
    BY DEF Callback!Failed, Callback!NoResult
  <2>3. "none" \notin Targets /\ 0 \in 0 .. MaxHellos
    BY CallbackTypes
  <2>4. QED
    BY <1>3, <2>1, <2>2, <2>3 DEF Genuine
<1>6. QED
  BY <1>1, <1>2, <1>4, <1>5 DEF Callback!Child

(* The steps of the server, the clients and the listener. *)
LEMMA NetworkStep ==
  ASSUME CallbackInv,
         Callback!Forward \/ Callback!Duplicate \/ Callback!Stray \/ Callback!Serve
  PROVE  CallbackInv'
<1> USE DEF Callback!files, Callback!childVars, Callback!network, Callback!history,
        Callback!parentVars
<1>t. Callback!TypeOK /\ sends \in [Targets -> Nat] /\ begunAt \in [Targets -> Nat]
  BY DEF CallbackInv
<1>h. Observed /\ \A c \in Targets : Once(c) /\ Answered(c)
  BY DEF CallbackInv
<1>d. \A c \in Targets : /\ [peer |-> c, cause |-> c] \in Callback!Hellos
                         /\ Genuine([peer |-> c, cause |-> c])
  BY DEF Callback!Hellos, Callback!Peers, Genuine
<1>1. CASE Callback!Forward
  <2>1. PICK c \in Targets :
          /\ wire[c] > 0 /\ wire' = [wire EXCEPT ![c] = @ - 1]
          /\ received' \in {received, [received EXCEPT ![c] = @ + 1]}
          /\ dialing' \in {dialing, dialing \cup {[peer |-> c, cause |-> c]}}
          /\ UNCHANGED <<parent, asked, open, request, result, child, command, base, hellos,
                         sends, begunAt>>
    BY <1>1 DEF Callback!Forward
  <2>2. wire[c] = 1 /\ received[c] = 0 /\ sends[c] # 0
    BY <1>t, <1>h, <2>1 DEF Once, Callback!TypeOK
  <2>3. /\ wire'[c] = 0 /\ received'[c] \in {0, 1}
        /\ \A d \in Targets : d # c => wire'[d] = wire[d] /\ received'[d] = received[d]
        /\ wire' \in [Targets -> 0 .. 1] /\ received' \in [Targets -> 0 .. 2]
    <3>1. wire' = [wire EXCEPT ![c] = 0]
      BY <2>1, <2>2
    <3>2. received' \in {received, [received EXCEPT ![c] = 1]}
      BY <2>1, <2>2
    <3>3. QED
      BY <1>t, <2>2, <3>1, <3>2 DEF Callback!TypeOK
  <2>4. Callback!TypeOK'
    BY <1>t, <1>d, <2>1, <2>3 DEF Callback!TypeOK
  <2>5. Observed'
    BY <1>h, <1>d, <2>1 DEF Observed, Genuine
  <2>6. ASSUME NEW d \in Targets PROVE Once(d)' /\ Answered(d)'
    BY <1>t, <1>h, <2>1, <2>2, <2>3 DEF Once, Answered, Genuine
  <2>7. QED
    BY <1>t, <2>1, <2>4, <2>5, <2>6 DEF CallbackInv
<1>2. CASE Callback!Duplicate
  <2>1. PICK c \in Targets : /\ received[c] = 1 /\ received' = [received EXCEPT ![c] = 2]
                             /\ dialing' = dialing \cup {[peer |-> c, cause |-> c]}
    BY <1>2 DEF Callback!Duplicate
  <2>2. UNCHANGED <<parent, asked, open, request, result, child, command, base, wire, hellos,
                    sends, begunAt>>
    BY <1>2 DEF Callback!Duplicate
  <2>3. /\ wire[c] = 0 /\ sends[c] # 0
    BY <1>t, <1>h, <2>1 DEF Once, Callback!TypeOK
  <2>4. /\ received' \in [Targets -> 0 .. 2]
        /\ \A d \in Targets : d # c => received'[d] = received[d]
    BY <1>t, <2>1 DEF Callback!TypeOK
  <2>5. Callback!TypeOK'
    BY <1>t, <1>d, <2>1, <2>2, <2>4 DEF Callback!TypeOK
  <2>6. Observed'
    BY <1>h, <1>d, <2>1, <2>2 DEF Observed, Genuine
  <2>7. ASSUME NEW d \in Targets PROVE Once(d)' /\ Answered(d)'
    BY <1>h, <2>2, <2>3, <2>4 DEF Once, Answered, Genuine
  <2>8. QED
    BY <1>t, <2>2, <2>5, <2>6, <2>7 DEF CallbackInv
<1>3. CASE Callback!Stray
  <2>1. /\ dialing' = dialing \cup {[peer |-> "server", cause |-> "none"]}
        /\ UNCHANGED <<parent, asked, open, request, result, child, command, base, wire,
                       received, hellos, sends, begunAt>>
    BY <1>3 DEF Callback!Stray
  <2>2. /\ [peer |-> "server", cause |-> "none"] \in Callback!Hellos
        /\ Genuine([peer |-> "server", cause |-> "none"])
    BY CallbackTypes DEF Callback!Hellos, Callback!Peers, Genuine
  <2>3. Callback!TypeOK'
    BY <1>t, <2>1, <2>2 DEF Callback!TypeOK
  <2>4. Observed'
    BY <1>h, <2>1, <2>2 DEF Observed, Genuine
  <2>5. \A c \in Targets : Once(c)' /\ Answered(c)'
    BY <1>h, <2>1 DEF Once, Answered, Genuine
  <2>6. QED
    BY <1>t, <2>1, <2>3, <2>4, <2>5 DEF CallbackInv
<1>4. CASE Callback!Serve
  <2>1. PICK d \in dialing :
          /\ Len(hellos) < MaxHellos /\ dialing' = dialing \ {d}
          /\ hellos' \in {hellos, Append(hellos, d)}
          /\ UNCHANGED <<parent, asked, open, request, result, child, command, base, wire,
                         received, sends, begunAt>>
    BY <1>4 DEF Callback!Serve
  <2>2. d \in Callback!Hellos /\ Genuine(d) /\ hellos \in Seq(Callback!Hellos)
    BY <1>t, <1>h DEF Callback!TypeOK, Observed
  <2>3. /\ hellos' \in Seq(Callback!Hellos) /\ Len(hellos') <= MaxHellos
        /\ Len(hellos) <= Len(hellos') /\ Len(hellos') \in Nat
        /\ \A i \in 1 .. Len(hellos') : hellos'[i] = d \/ (i \in 1 .. Len(hellos) /\ hellos'[i] = hellos[i])
    BY <2>1, <2>2, CallbackTypes
  <2>4. Callback!TypeOK'
    BY <1>t, <2>1, <2>3 DEF Callback!TypeOK
  <2>5. Observed'
    BY <1>h, <2>1, <2>2, <2>3, CallbackTypes DEF Observed, Genuine
  <2>6. \A c \in Targets : Once(c)' /\ Answered(c)'
    BY <1>h, <2>1 DEF Once, Answered, Genuine
  <2>7. QED
    BY <1>t, <2>1, <2>4, <2>5, <2>6 DEF CallbackInv
<1>5. QED
  BY <1>1, <1>2, <1>3, <1>4

(* A command is sent to the server at most once, a completed result names a    *)
(* HELLO seen after the child took the command up, and evidence the parent     *)
(* accepts is of callbacks, for any number of targets and connections and with *)
(* frames lost, duplicated and unasked for (_process_callback_commands).       *)
THEOREM CallbacksGenuine == FixturesSpec => []CallbackSound
<1>1. FixturesInit => CallbackInv
  BY PartsInit, CallbackInit
<1>2. CallbackInv /\ [FixturesNext]_allVars => CallbackInv'
  <2> SUFFICES ASSUME CallbackInv, [Callback!Next]_callbackVars
               PROVE  CallbackInv'
    BY PartsStep
  <2>1. CASE UNCHANGED callbackVars
    <3>1. Callback!TypeOK'
      BY <2>1 DEF callbackVars, CallbackInv, Callback!TypeOK
    <3>2. Observed' /\ \A c \in Targets : Once(c)' /\ Answered(c)'
      BY <2>1 DEF callbackVars, CallbackInv, Observed, Once, Answered, Genuine
    <3>3. QED
      BY <2>1, <3>1, <3>2 DEF callbackVars, CallbackInv
  <2>2. QED
    BY <2>1, ParentStep, ChildStep, NetworkStep DEF Callback!Next
<1>3. CallbackInv => CallbackSound
  BY CallbackTypes DEF CallbackInv, CallbackSound, Once, Answered, Genuine, Callback!ExactlyOnce,
     Callback!FreshHello, Callback!AcceptedCausal
<1>4. QED
  BY <1>1, <1>2, <1>3, PTL DEF FixturesSpec

-------------------------------------------------------------------------------
(* The stress lane.  A claim is forever and is taken under a lock, so the task *)
(* that posts a file is the only one that ever does; from its post to its      *)
(* record the file is in that task's hands alone.                              *)

Offering == {"claim", "post", "confirm"}
Offered == {s \in Searches : task[s] \in Offering}

StressTypes ==
  /\ Stress!TypeOK /\ liveCount \in Nat /\ queued \in Nat /\ posts \in [Stress!Hashes -> Nat]

TaskInv(s) ==
  /\ phase # "tasks" => task[s] = "queued"
  /\ task[s] \in Offering => hash[s] \in Live /\ rows[s] < PerSearch
  /\ task[s] \in {"post", "confirm"} => hash[s] \in claimed \ triggered
  /\ task[s] = "post" => posts[hash[s]] = 0

Apart ==
  \A s, t \in Searches :
    s # t /\ {task[s], task[t]} \subseteq {"post", "confirm"} => hash[s] # hash[t]

(* What nobody claimed was never posted, and what was never posted the client  *)
(* has not got; a download it still keeps to itself is recorded nowhere.       *)
PostInv ==
  /\ Stress!PostedOnce
  /\ \A h \in Stress!Hashes \ claimed : posts[h] = 0
  /\ fill \cap claimed = {}

ClientInv ==
  /\ \A h \in Stress!Hashes : posts[h] = 0 => client[h] = "absent" /\ h \notin accepted
  /\ \A h \in accepted : client[h] = "absent" /\ h \notin triggered

(* A task that has read the cap is counted with the active downloads from then *)
(* on: it read fewer than the cap, and no more tasks run than there are        *)
(* workers.                                                                    *)
CapInv ==
  /\ Cardinality(Stress!Running) <= MaxConcurrent
  /\ Stress!ActiveCount + Cardinality(Offered) < MaxActive + MaxConcurrent

(* The list the verdict rests on showed none of the recorded downloads, and    *)
(* none comes back.                                                            *)
VerdictInv ==
  /\ status = "passed" => phase = "judged"
  /\ status = "passed" \/ (phase = "judge" /\ clean) => Stress!Present \cap triggered = {}

RegistryInv == (\A s \in Searches : TaskInv(s)) /\ Apart /\ PostInv /\ ClientInv

StressInv == StressTypes /\ RegistryInv /\ CapInv /\ Stress!CountsAgree /\ VerdictInv

(* The lane counts as everybody does. *)
LEMMA StressCounts ==
  /\ \A S : Stress!Cardinality(S) = Cardinality(S)
  /\ \A S : Stress!IsFiniteSet(S) = IsFiniteSet(S)
BY Zenon DEF Stress!Cardinality, Cardinality, Stress!IsFiniteSet, IsFiniteSet

(* The constants of the lane. *)
LEMMA StressConstants ==
  /\ Waves \in Nat \ {0} /\ MaxConcurrent \in Nat \ {0} /\ MaxActive \in Nat \ {0}
  /\ BatchSize \in Nat \ {0} /\ PerSearch \in Nat /\ RemoveCount \in Nat /\ Window \in Nat
  /\ MaxMissing \in Nat /\ Target \in Nat
  /\ Live \cap Synthetic = {}
  /\ IsFiniteSet(Stress!Hashes) /\ IsFiniteSet(Searches)
BY StressCounts, PartsAssumption DEF Stress!StressAssumption, Stress!Hashes

(* The least of a set of numbers that has one. *)
LEMMA StressMin ==
  ASSUME NEW S, NEW m \in S, \A n \in S : m <= n
  PROVE  Stress!Min(S) \in S /\ \A n \in S : Stress!Min(S) <= n
BY DEF Stress!Min

LEMMA StressInit ==
  ASSUME Stress!Init
  PROVE  StressTypes /\ RegistryInv
BY StressConstants DEF Stress!Init, StressTypes, Stress!TypeOK, RegistryInv, TaskInv,
   Apart, PostInv, ClientInv, Stress!PostedOnce, Stress!Hashes, Offering, Stress!NoHash

(* A set of files has a size. *)
LEMMA HashesCount ==
  \A S \in SUBSET Stress!Hashes : IsFiniteSet(S) /\ Stress!Cardinality(S) \in Nat
BY StressConstants, StressCounts, FS_Subset, FS_CardinalityType

(* The rows of the reports. *)
Reported == {r \in Searches \X (1..PerSearch) : r[2] <= rows[r[1]]}

LEMMA TriggersType ==
  IsFiniteSet(Reported) /\ Stress!Triggers = Cardinality(Reported) /\ Stress!Triggers \in Nat
<1>1. IsFiniteSet(1..PerSearch)
  BY StressConstants, FS_Interval
<1>2. IsFiniteSet(Searches \X (1..PerSearch))
  BY <1>1, StressConstants, FS_Product
<1>3. IsFiniteSet(Reported)
  BY <1>2, FS_Subset DEF Reported
<1>4. QED
  BY <1>3, StressCounts, FS_CardinalityType DEF Stress!Triggers, Reported

(* What a batch of the queue fill changes. *)
Filled(batch, taken, told) ==
  /\ told \subseteq taken /\ taken \subseteq batch
  /\ fill' = fill \ batch /\ claimed' = claimed \cup batch
  /\ posts' = [h \in Stress!Hashes |-> IF h \in batch THEN posts[h] + 1 ELSE posts[h]]
  /\ client' = [h \in Stress!Hashes |-> IF h \in taken THEN "active" ELSE client[h]]
  /\ triggered' = triggered \cup told /\ deleted' = deleted \ told
  /\ queued' = queued + Stress!Cardinality(told)

LEMMA FillPick ==
  ASSUME Stress!FillBatch
  PROVE  \E batch, taken, told \in SUBSET fill :
           /\ Filled(batch, taken, told)
           /\ Stress!Cardinality(batch)
                = Stress!Min({BatchSize, MaxActive - Stress!ActiveCount, Stress!Cardinality(fill)})
BY DEF Stress!FillBatch, Stress!kSubset, Filled

LEMMA PhaseType ==
  ASSUME NEW healthy, Stress!NextPhase(healthy), wave \in 1..Waves
  PROVE  wave' \in 1..Waves /\ phase' \in {"transport", "fill"}
<1>1. CASE healthy /\ wave < Waves
  BY <1>1, StressConstants DEF Stress!NextPhase
<1>2. CASE ~(healthy /\ wave < Waves)
  BY <1>2 DEF Stress!NextPhase
<1>3. QED
  BY <1>1, <1>2

(* Every step keeps every variable in its type. *)
LEMMA StressTypesStep ==
  ASSUME StressTypes, RegistryInv, [Stress!Next]_stressVars
  PROVE  StressTypes'
<1>p. posts \in [Stress!Hashes -> Nat] /\ liveCount \in Nat /\ queued \in Nat
  BY DEF StressTypes
<1>r. rows \in [Searches -> 0..PerSearch]
  BY DEF StressTypes, Stress!TypeOK
<1>w. wave \in 1..Waves
  BY DEF StressTypes, Stress!TypeOK
<1>c. client \in [Stress!Hashes -> {"absent", "active", "completed"}]
  BY DEF StressTypes, Stress!TypeOK
<1>1. ASSUME NEW s \in Searches, Stress!StartSearch(s) PROVE StressTypes'
  BY <1>1 DEF StressTypes, Stress!TypeOK, Stress!StartSearch, Stress!Goto,
     Stress!registry, Stress!engine, Stress!verdicts, Stress!Hashes
<1>2. ASSUME NEW s \in Searches, Stress!Resolve(s) PROVE StressTypes'
  BY <1>2 DEF StressTypes, Stress!TypeOK, Stress!Resolve, Stress!Goto, Stress!registry,
     Stress!engine, Stress!verdicts, Stress!Hashes
<1>3. ASSUME NEW s \in Searches, Stress!ResolveTimeout(s) PROVE StressTypes'
  BY <1>3 DEF StressTypes, Stress!TypeOK, Stress!ResolveTimeout, Stress!Goto,
     Stress!registry, Stress!engine, Stress!verdicts, Stress!Hashes
<1>4. ASSUME NEW s \in Searches, Stress!Candidate(s) PROVE StressTypes'
  <2>1. /\ todo' \in [Searches -> SUBSET Live] /\ hash' \in [Searches -> Live \cup {Stress!NoHash}]
        /\ task' \in [Searches -> {"queued", "resolve", "candidate", "claim", "post", "confirm",
                                   "ok", "failed"}]
    <3>1. CASE rows[s] >= PerSearch \/ Stress!ActiveCount >= MaxActive \/ todo[s] = {}
      BY <1>4, <3>1 DEF StressTypes, Stress!TypeOK, Stress!Candidate, Stress!Goto
    <3>2. CASE ~(rows[s] >= PerSearch \/ Stress!ActiveCount >= MaxActive \/ todo[s] = {})
      <4>1. PICK h \in todo[s] :
              /\ todo' = [todo EXCEPT ![s] = @ \ {h}] /\ hash' = [hash EXCEPT ![s] = h]
              /\ task' = [task EXCEPT ![s] = "claim"]
        BY <1>4, <3>2 DEF StressTypes, Stress!TypeOK, Stress!Candidate, Stress!Goto
      <4>2. todo[s] \ {h} \in SUBSET Live /\ h \in Live
        BY <4>1 DEF StressTypes, Stress!TypeOK
      <4>3. QED
        BY <4>1, <4>2 DEF StressTypes, Stress!TypeOK
    <3>3. QED
      BY <3>1, <3>2
  <2>2. QED
    BY <1>4, <2>1 DEF StressTypes, Stress!TypeOK, Stress!Candidate, Stress!registry,
       Stress!engine, Stress!verdicts, Stress!Hashes
<1>5. ASSUME NEW s \in Searches, Stress!ConfirmFails(s) PROVE StressTypes'
  BY <1>5 DEF StressTypes, Stress!TypeOK, Stress!ConfirmFails, Stress!Goto,
     Stress!registry, Stress!engine, Stress!verdicts, Stress!Hashes
<1>6. ASSUME NEW s \in Searches, Stress!Claim(s) PROVE StressTypes'
  BY <1>6, StressConstants DEF StressTypes, Stress!TypeOK, RegistryInv, TaskInv,
     Offering, Stress!Claim, Stress!Goto, Stress!registry, Stress!engine, Stress!verdicts,
     Stress!Hashes
<1>7. ASSUME NEW s \in Searches, Stress!PostDownload(s) PROVE StressTypes'
  <2>1. hash[s] \in Live
    BY <1>7 DEF StressTypes, Stress!TypeOK, RegistryInv, TaskInv, Offering,
       Stress!PostDownload
  <2>2. posts' \in [Stress!Hashes -> Nat] /\ accepted' \subseteq Live
    <3>1. hash[s] \in Stress!Hashes
      BY <2>1 DEF Stress!Hashes
    <3>2. posts' = [posts EXCEPT ![hash[s]] = @ + 1] /\ accepted' \subseteq accepted \cup {hash[s]}
      BY <1>7 DEF Stress!PostDownload
    <3>3. posts' \in [Stress!Hashes -> Nat]
      BY <1>p, <3>1, <3>2
    <3>4. QED
      BY <2>1, <3>2, <3>3 DEF StressTypes, Stress!TypeOK
  <2>3. QED
    BY <1>7, <2>2 DEF StressTypes, Stress!TypeOK, Stress!PostDownload, Stress!Goto,
       Stress!registry, Stress!verdicts, Stress!Hashes
<1>8. ASSUME NEW s \in Searches, Stress!RecordTriggered(s) PROVE StressTypes'
  <2>1. hash[s] \in claimed /\ rows[s] < PerSearch
    BY <1>8 DEF StressTypes, Stress!TypeOK, RegistryInv, TaskInv, Offering,
       Stress!RecordTriggered
  <2>2. rows' \in [Searches -> 0..PerSearch]
    <3>1. rows' = [rows EXCEPT ![s] = @ + 1] /\ rows[s] \in Nat /\ rows[s] + 1 \in 0..PerSearch
      BY <1>8, <1>r, <2>1, StressConstants DEF Stress!RecordTriggered
    <3>2. QED
      BY <1>r, <3>1
  <2>3. QED
    BY <1>8, <2>1, <2>2 DEF StressTypes, Stress!TypeOK, Stress!RecordTriggered,
       Stress!Goto, Stress!engine, Stress!verdicts, Stress!Hashes
<1>9. CASE Stress!Transport
  <2>1. wave' \in 1..Waves /\ phase' \in {"tasks", "transport", "fill"}
    BY <1>9, StressConstants DEF StressTypes, Stress!TypeOK, Stress!Transport,
       Stress!NextPhase
  <2>2. QED
    BY <1>9, <2>1 DEF StressTypes, Stress!TypeOK, Stress!Transport, Stress!tasks,
       Stress!registry, Stress!engine, Stress!Hashes
<1>10. CASE Stress!EndFill
  BY <1>10, StressConstants DEF StressTypes, Stress!TypeOK, Stress!EndFill,
     Stress!tasks, Stress!registry, Stress!engine, Stress!verdicts, Stress!Hashes
<1>11. CASE Stress!Complete
  BY <1>11, StressConstants DEF StressTypes, Stress!TypeOK, Stress!Complete,
     Stress!tasks, Stress!registry, Stress!engine, Stress!verdicts, Stress!Hashes
<1>12. CASE Stress!DiagnosticsRaise
  BY <1>12, StressConstants DEF StressTypes, Stress!TypeOK, Stress!DiagnosticsRaise,
     Stress!Raise, Stress!tasks, Stress!registry, Stress!engine, Stress!verdicts,
     Stress!Hashes
<1>13. CASE Stress!AwaitAbsent
  BY <1>13, StressConstants DEF StressTypes, Stress!TypeOK, Stress!AwaitAbsent,
     Stress!tasks, Stress!registry, Stress!engine, Stress!verdicts, Stress!Hashes
<1>14. CASE Stress!Judge
  BY <1>14, StressConstants DEF StressTypes, Stress!TypeOK, Stress!Judge, Stress!tasks,
     Stress!registry, Stress!engine, Stress!verdicts, Stress!Hashes
<1>15. CASE Stress!Churn
  <2>1. /\ wave' \in 1..Waves /\ phase' \in {"transport", "fill", "judged"}
        /\ status' \in {status, "failed"}
    <3>1. \/ Stress!NextPhase(phase = "churn") /\ UNCHANGED status
          \/ Stress!Raise /\ UNCHANGED wave
      BY <1>15 DEF Stress!Churn
    <3>2. CASE Stress!NextPhase(phase = "churn") /\ UNCHANGED status
      BY <1>w, <3>2, PhaseType
    <3>3. CASE Stress!Raise /\ UNCHANGED wave
      BY <1>w, <3>3 DEF Stress!Raise
    <3>4. QED
      BY <3>1, <3>2, <3>3
  <2>2. /\ client' \in [Stress!Hashes -> {"absent", "active", "completed"}]
        /\ deleted' \subseteq triggered
    BY <1>15 DEF StressTypes, Stress!TypeOK, Stress!Churn, Stress!kSubset,
       Stress!Active
  <2>3. QED
    BY <1>15, <2>1, <2>2 DEF StressTypes, Stress!TypeOK, Stress!Churn, Stress!tasks,
       Stress!Hashes
<1>16. CASE Stress!DeleteTransfers
  BY <1>16, StressConstants DEF StressTypes, Stress!TypeOK, Stress!DeleteTransfers,
     Stress!tasks, Stress!registry, Stress!engine, Stress!verdicts, Stress!Hashes
<1>17. CASE Stress!Materialise
  BY <1>17, StressConstants DEF StressTypes, Stress!TypeOK, Stress!Materialise,
     Stress!tasks, Stress!registry, Stress!engine, Stress!verdicts, Stress!Hashes
<1>18. CASE Stress!Finish
  BY <1>18, StressConstants DEF StressTypes, Stress!TypeOK, Stress!Finish,
     Stress!Present, Stress!tasks, Stress!registry, Stress!engine, Stress!verdicts,
     Stress!Hashes
<1>19. CASE Stress!EndWave
  <2>1. Stress!Triggers \in Nat
    BY TriggersType
  <2>2. wave' \in 1..Waves /\ phase' \in {"transport", "fill", "churn", "last churn"}
    <3>1. PICK healthy \in BOOLEAN :
            \/ Stress!NextPhase(healthy)
            \/ wave' = wave /\ phase' = IF healthy THEN "churn" ELSE "last churn"
      BY <1>19 DEF Stress!EndWave
    <3>2. QED
      BY <1>w, <3>1, PhaseType
  <2>3. /\ liveCount' \in Nat /\ task' \in [Searches -> {"queued"}]
        /\ todo' \in [Searches -> SUBSET Live] /\ hash' \in [Searches -> {Stress!NoHash}]
        /\ rows' \in [Searches -> 0..PerSearch]
    <3>1. 0 \in 0..PerSearch
      BY StressConstants
    <3>2. liveCount' \in Nat
      <4>1. liveCount' = liveCount + Stress!Triggers
        BY <1>19, Zenon DEF Stress!EndWave
      <4>2. QED
        BY <1>p, <2>1, <4>1
    <3>3. QED
      BY <1>19, <3>1, <3>2 DEF Stress!EndWave
  <2>4. QED
    BY <1>19, <2>2, <2>3 DEF StressTypes, Stress!TypeOK, Stress!EndWave,
       Stress!registry, Stress!engine, Stress!Hashes
<1>20. CASE Stress!FillBatch
  <2>1. PICK batch, taken, told \in SUBSET fill : Filled(batch, taken, told)
    BY <1>20, FillPick
  <2>2. Filled(batch, taken, told)
    BY <2>1
  <2>3. Stress!Cardinality(told) \in Nat
    BY HashesCount DEF StressTypes, Stress!TypeOK, Stress!Hashes
  <2>4. QED
    <3>1. /\ client' \in [Stress!Hashes -> {"absent", "active", "completed"}]
          /\ posts' \in [Stress!Hashes -> Nat] /\ queued' \in Nat
      BY <1>p, <1>c, <2>2, <2>3 DEF Filled
    <3>2. /\ triggered' \subseteq claimed' /\ claimed' \subseteq Stress!Hashes
          /\ completed \subseteq triggered' /\ deleted' \subseteq triggered'
          /\ fill' \subseteq Synthetic
      BY <2>2 DEF Filled, StressTypes, Stress!TypeOK, Stress!Hashes
    <3>3. QED
      BY <1>20, <3>1, <3>2 DEF StressTypes, Stress!TypeOK, Stress!FillBatch,
         Stress!tasks, Stress!Hashes
<1>21. CASE UNCHANGED stressVars
  BY <1>21 DEF StressTypes, Stress!TypeOK, stressVars, Stress!Hashes
<1>22. QED
  BY <1>1, <1>2, <1>3, <1>4, <1>5, <1>6, <1>7, <1>8, <1>9, <1>10, <1>11, <1>12, <1>13,
     <1>14, <1>15, <1>16, <1>17, <1>18, <1>19, <1>20, <1>21 DEF Stress!Next, Stress!Task,
     Stress!Main

(* A step of one task that claims, posts and records nothing. *)
LEMMA RegistryTask ==
  ASSUME RegistryInv, NEW s \in Searches, phase = "tasks", phase' = phase,
         UNCHANGED <<claimed, triggered, client, accepted, fill, posts>>,
         \A t \in Searches \ {s} : task'[t] = task[t] /\ hash'[t] = hash[t] /\ rows'[t] = rows[t],
         task'[s] \notin {"post", "confirm"},
         task'[s] = "claim" => hash'[s] \in Live /\ rows'[s] < PerSearch
  PROVE  RegistryInv'
<1>1. \A t \in Searches : TaskInv(t)'
  BY DEF RegistryInv, TaskInv, Offering
<1>2. Apart'
  BY DEF RegistryInv, Apart
<1>3. PostInv' /\ ClientInv'
  BY DEF RegistryInv, PostInv, ClientInv, Stress!PostedOnce, Stress!Hashes
<1>4. QED
  BY <1>1, <1>2, <1>3 DEF RegistryInv

(* A step of the main thread, or of the client, that starts no transfer. *)
LEMMA RegistryMain ==
  ASSUME RegistryInv, UNCHANGED <<task, hash, rows, claimed, triggered, accepted, fill, posts>>,
         phase # "tasks" \/ phase' = phase,
         \A h \in Stress!Hashes : client[h] = "absent" => client'[h] = "absent",
         accepted \subseteq Stress!Hashes
  PROVE  RegistryInv'
<1>1. \A t \in Searches : TaskInv(t)'
  BY DEF RegistryInv, TaskInv, Offering
<1>2. Apart' /\ PostInv' /\ ClientInv'
  BY DEF RegistryInv, Apart, PostInv, ClientInv, Stress!PostedOnce, Stress!Hashes
<1>3. QED
  BY <1>1, <1>2 DEF RegistryInv

LEMMA RegistryClaim ==
  ASSUME StressTypes, RegistryInv, NEW s \in Searches, Stress!Claim(s)
  PROVE  RegistryInv'
<1>1. /\ hash[s] \in Live /\ rows[s] < PerSearch /\ phase = "tasks"
      /\ hash[s] \in Stress!Hashes /\ hash[s] \notin fill
  BY StressConstants DEF RegistryInv, TaskInv, Offering, Stress!Claim, Stress!Hashes,
     StressTypes, Stress!TypeOK
<1>2. /\ UNCHANGED <<phase, hash, rows, triggered, client, accepted, fill, posts>>
      /\ claimed' = claimed \cup {hash[s]}
      /\ \A t \in Searches \ {s} : task'[t] = task[t]
      /\ task'[s] = IF hash[s] \in claimed THEN "candidate" ELSE "post"
  BY DEF Stress!Claim, Stress!Goto, Stress!engine, Stress!verdicts, StressTypes,
     Stress!TypeOK
<1>3. triggered \subseteq claimed
  BY DEF StressTypes, Stress!TypeOK
<1>4. hash[s] \notin claimed => posts[hash[s]] = 0
  BY <1>1 DEF RegistryInv, PostInv
<1>5. ASSUME NEW t \in Searches PROVE TaskInv(t)'
  BY <1>1, <1>2, <1>3, <1>4 DEF RegistryInv, TaskInv, Offering
<1>6. Apart'
  BY <1>2 DEF RegistryInv, Apart, TaskInv
<1>7. PostInv' /\ ClientInv'
  BY <1>1, <1>2 DEF RegistryInv, PostInv, ClientInv, Stress!PostedOnce, Stress!Hashes
<1>8. QED
  BY <1>5, <1>6, <1>7 DEF RegistryInv

LEMMA RegistryPost ==
  ASSUME StressTypes, RegistryInv, NEW s \in Searches, Stress!PostDownload(s)
  PROVE  RegistryInv'
<1>1. /\ hash[s] \in Live /\ phase = "tasks" /\ hash[s] \in Stress!Hashes
      /\ hash[s] \in claimed \ triggered /\ posts[hash[s]] = 0
  BY DEF RegistryInv, TaskInv, Offering, Stress!PostDownload, Stress!Hashes
<1>2. /\ UNCHANGED <<phase, hash, rows, claimed, triggered, client, fill>>
      /\ accepted' \subseteq accepted \cup {hash[s]}
      /\ \A t \in Searches \ {s} : task'[t] = task[t]
      /\ task'[s] \in {"confirm", "resolve"}
      /\ posts' = [posts EXCEPT ![hash[s]] = @ + 1]
  BY DEF Stress!PostDownload, Stress!Goto, Stress!registry, Stress!verdicts,
     StressTypes, Stress!TypeOK
<1>3. /\ posts'[hash[s]] = 1
      /\ \A h \in Stress!Hashes : h # hash[s] => posts'[h] = posts[h]
  BY <1>1, <1>2 DEF StressTypes
<1>4. ASSUME NEW t \in Searches PROVE TaskInv(t)'
  <2>1. CASE t = s
    BY <1>1, <1>2, <2>1 DEF RegistryInv, TaskInv, Offering, Stress!PostDownload
  <2>2. CASE t # s
    <3>1. task[t] = "post" => hash[t] # hash[s] /\ hash[t] \in Stress!Hashes
      BY <2>2 DEF RegistryInv, Apart, TaskInv, Offering, Stress!PostDownload,
         Stress!Hashes
    <3>2. TaskInv(t)
      BY DEF RegistryInv
    <3>3. QED
      BY <1>2, <1>3, <2>2, <3>1, <3>2 DEF TaskInv, Offering
  <2>3. QED
    BY <2>1, <2>2
<1>5. Apart'
  BY <1>2 DEF RegistryInv, Apart, Stress!PostDownload
<1>6. PostInv'
  BY <1>1, <1>2, <1>3 DEF RegistryInv, PostInv, Stress!PostedOnce, Stress!Hashes
<1>7. ClientInv'
  BY <1>1, <1>2, <1>3 DEF RegistryInv, ClientInv, Stress!Hashes
<1>8. QED
  BY <1>4, <1>5, <1>6, <1>7 DEF RegistryInv

LEMMA RegistryRecord ==
  ASSUME StressTypes, RegistryInv, NEW s \in Searches, Stress!RecordTriggered(s)
  PROVE  RegistryInv'
<1>1. /\ hash[s] \in Live /\ phase = "tasks" /\ hash[s] \in Stress!Hashes
      /\ hash[s] \in claimed \ triggered /\ hash[s] \notin accepted
  BY DEF RegistryInv, TaskInv, ClientInv, Offering, Stress!RecordTriggered,
     Stress!Hashes
<1>2. /\ UNCHANGED <<phase, hash, claimed, client, accepted, fill, posts>>
      /\ triggered' = triggered \cup {hash[s]}
      /\ \A t \in Searches \ {s} : task'[t] = task[t] /\ rows'[t] = rows[t]
      /\ task'[s] = "candidate"
  BY DEF Stress!RecordTriggered, Stress!Goto, Stress!engine, Stress!verdicts,
     StressTypes, Stress!TypeOK
<1>3. ASSUME NEW t \in Searches PROVE TaskInv(t)'
  <2>1. CASE t = s
    BY <1>1, <1>2, <2>1 DEF TaskInv, Offering
  <2>2. CASE t # s
    <3>1. task[t] \in {"post", "confirm"} => hash[t] # hash[s]
      BY <2>2 DEF RegistryInv, Apart, Stress!RecordTriggered
    <3>2. TaskInv(t)
      BY DEF RegistryInv
    <3>3. QED
      BY <1>2, <2>2, <3>1, <3>2 DEF TaskInv, Offering
  <2>3. QED
    BY <2>1, <2>2
<1>4. Apart'
  BY <1>2 DEF RegistryInv, Apart
<1>5. PostInv' /\ ClientInv'
  BY <1>1, <1>2 DEF RegistryInv, PostInv, ClientInv, Stress!PostedOnce, Stress!Hashes
<1>6. QED
  BY <1>3, <1>4, <1>5 DEF RegistryInv

LEMMA RegistryFill ==
  ASSUME StressTypes, RegistryInv, NEW batch \in SUBSET fill, NEW taken \in SUBSET fill,
         NEW told \in SUBSET fill, Filled(batch, taken, told), phase = "fill",
         UNCHANGED <<phase, task, hash, rows, accepted>>
  PROVE  RegistryInv'
<1>1. \A t \in Searches : task[t] = "queued"
  BY DEF RegistryInv, TaskInv
<1>2. /\ \A h \in batch : h \in Synthetic /\ h \notin Live /\ posts[h] = 0 /\ h \notin claimed
      /\ accepted \cap batch = {} /\ batch \subseteq Stress!Hashes
  BY StressConstants DEF StressTypes, Stress!TypeOK, RegistryInv, PostInv,
     Stress!Hashes
<1>3. /\ fill' = fill \ batch /\ claimed' = claimed \cup batch
      /\ \A h \in Stress!Hashes : /\ posts'[h] = IF h \in batch THEN 1 ELSE posts[h]
                                  /\ h \notin batch => client'[h] = client[h]
      /\ triggered' \subseteq triggered \cup batch
  BY <1>2 DEF Filled
<1>4. \A t \in Searches : TaskInv(t)'
  BY <1>1 DEF TaskInv, Offering
<1>5. Apart'
  BY <1>1 DEF Apart
<1>6. PostInv'
  BY <1>2, <1>3 DEF RegistryInv, PostInv, Stress!PostedOnce, Stress!Hashes
<1>7. accepted \subseteq Stress!Hashes
  BY DEF StressTypes, Stress!TypeOK, Stress!Hashes
<1>8. ClientInv'
  BY <1>2, <1>3, <1>7 DEF RegistryInv, ClientInv, Stress!Hashes
<1>9. QED
  BY <1>4, <1>5, <1>6, <1>8 DEF RegistryInv

(* Every step keeps the registry. *)
LEMMA RegistryStep ==
  ASSUME StressTypes, RegistryInv, [Stress!Next]_stressVars
  PROVE  RegistryInv'
<1>t. /\ task \in [Searches -> {"queued", "resolve", "candidate", "claim", "post", "confirm",
                                "ok", "failed"}]
      /\ accepted \subseteq Stress!Hashes /\ triggered \subseteq Stress!Hashes
  BY DEF StressTypes, Stress!TypeOK, Stress!Hashes
<1>q. \A s \in Searches : task[s] # "queued" => phase = "tasks"
  BY DEF RegistryInv, TaskInv
<1>1. ASSUME NEW s \in Searches, Stress!StartSearch(s) PROVE RegistryInv'
  BY <1>1, <1>t, RegistryTask DEF Stress!StartSearch, Stress!Goto, Stress!registry,
     Stress!engine, Stress!verdicts
<1>2. ASSUME NEW s \in Searches,
             Stress!Resolve(s) \/ Stress!ResolveTimeout(s) \/ Stress!ConfirmFails(s)
      PROVE  RegistryInv'
  <2>1. phase = "tasks"
    BY <1>2, <1>q DEF Stress!Resolve, Stress!ResolveTimeout, Stress!ConfirmFails
  <2>2. /\ UNCHANGED <<phase, hash, rows, claimed, triggered, client, accepted, fill, posts>>
        /\ \A t \in Searches \ {s} : task'[t] = task[t]
        /\ task'[s] \in {"ok", "candidate", "resolve"}
    BY <1>2, <1>t DEF Stress!Resolve, Stress!ResolveTimeout, Stress!ConfirmFails,
       Stress!Goto, Stress!registry, Stress!engine, Stress!verdicts
  <2>3. QED
    BY <2>1, <2>2, RegistryTask
<1>3. ASSUME NEW s \in Searches, Stress!Candidate(s) PROVE RegistryInv'
  <2>1. phase = "tasks" /\ todo[s] \subseteq Live /\ rows[s] \in Nat /\ PerSearch \in Nat
    <3>1. phase = "tasks"
      BY <1>3, <1>q DEF Stress!Candidate
    <3>2. QED
      BY <3>1, StressConstants DEF StressTypes, Stress!TypeOK
  <2>2. /\ UNCHANGED <<phase, rows, claimed, triggered, client, accepted, fill, posts>>
        /\ \A t \in Searches \ {s} : task'[t] = task[t] /\ hash'[t] = hash[t]
        /\ task'[s] \in {"ok", "resolve", "claim"}
    BY <1>3, <1>t DEF Stress!Candidate, Stress!Goto, Stress!registry, Stress!engine,
       Stress!verdicts, StressTypes, Stress!TypeOK
  <2>3. task'[s] = "claim" => hash'[s] \in Live /\ rows[s] < PerSearch
    BY <1>3, <1>t, <2>1 DEF Stress!Candidate, Stress!Goto, StressTypes, Stress!TypeOK
  <2>4. QED
    BY <2>1, <2>2, <2>3, RegistryTask
<1>4. CASE Stress!Transport \/ Stress!EndFill \/ Stress!Complete \/ Stress!DiagnosticsRaise
           \/ Stress!Judge
  <2>1. /\ UNCHANGED <<task, hash, rows, claimed, triggered, accepted, fill, posts, client>>
        /\ phase # "tasks"
    BY <1>4 DEF Stress!Transport, Stress!EndFill, Stress!Complete,
       Stress!DiagnosticsRaise, Stress!Judge, Stress!tasks, Stress!registry, Stress!engine
  <2>2. QED
    BY <1>t, <2>1, RegistryMain
<1>5. CASE Stress!Churn \/ Stress!DeleteTransfers \/ Stress!AwaitAbsent
  <2>1. /\ UNCHANGED <<task, hash, rows, claimed, triggered, accepted, fill, posts>>
        /\ phase # "tasks"
    BY <1>5 DEF Stress!Churn, Stress!DeleteTransfers, Stress!AwaitAbsent, Stress!tasks,
       Stress!registry
  <2>2. \A h \in Stress!Hashes : client[h] = "absent" => client'[h] = "absent"
    BY <1>5 DEF Stress!Churn, Stress!DeleteTransfers, Stress!AwaitAbsent
  <2>3. QED
    BY <1>t, <2>1, <2>2, RegistryMain
<1>6. CASE Stress!EndWave
  <2>1. /\ \A t \in Searches : task'[t] = "queued"
        /\ UNCHANGED <<claimed, triggered, client, accepted, fill, posts>>
    BY <1>6 DEF Stress!EndWave, Stress!registry, Stress!engine
  <2>2. (\A t \in Searches : TaskInv(t)') /\ Apart'
    BY <2>1 DEF TaskInv, Offering, Apart
  <2>3. PostInv' /\ ClientInv'
    BY <2>1 DEF RegistryInv, PostInv, ClientInv, Stress!PostedOnce, Stress!Hashes
  <2>4. QED
    BY <2>2, <2>3 DEF RegistryInv
<1>7. CASE Stress!FillBatch
  <2>1. PICK batch, taken, told \in SUBSET fill : Filled(batch, taken, told)
    BY <1>7, FillPick
  <2>2. phase = "fill" /\ UNCHANGED <<phase, task, hash, rows, accepted>>
    BY <1>7 DEF Stress!FillBatch, Stress!tasks
  <2>3. QED
    BY <2>1, <2>2, RegistryFill
<1>8. CASE Stress!Materialise
  <2>1. PICK h \in accepted : accepted' = accepted \ {h} /\ client' = [client EXCEPT ![h] = "active"]
    BY <1>8 DEF Stress!Materialise
  <2>2. UNCHANGED <<phase, task, hash, rows, claimed, triggered, fill, posts>>
    BY <1>8 DEF Stress!Materialise, Stress!tasks, Stress!registry, Stress!verdicts
  <2>3. (\A t \in Searches : TaskInv(t)') /\ Apart' /\ PostInv'
    BY <2>2 DEF RegistryInv, TaskInv, Offering, Apart, PostInv, Stress!PostedOnce,
       Stress!Hashes
  <2>4. /\ h \in Stress!Hashes /\ posts[h] # 0
        /\ \A g \in Stress!Hashes : g # h => client'[g] = client[g]
    BY <1>t, <2>1 DEF RegistryInv, ClientInv, StressTypes, Stress!TypeOK
  <2>5. ClientInv'
    BY <1>t, <2>1, <2>2, <2>4 DEF RegistryInv, ClientInv, Stress!Hashes
  <2>6. QED
    BY <2>3, <2>5 DEF RegistryInv
<1>9. CASE Stress!Finish
  <2>1. UNCHANGED <<phase, task, hash, rows, claimed, triggered, accepted, fill, posts>>
    BY <1>9 DEF Stress!Finish, Stress!tasks, Stress!registry, Stress!verdicts
  <2>2. \A h \in Stress!Hashes : client[h] = "absent" => client'[h] = "absent"
    BY <1>9 DEF Stress!Finish, Stress!Present, StressTypes, Stress!TypeOK
  <2>3. QED
    BY <1>t, <2>1, <2>2, RegistryMain
<1>10. CASE UNCHANGED stressVars
  BY <1>10, <1>t, RegistryMain DEF stressVars
<1>11. QED
  BY <1>1, <1>2, <1>3, <1>4, <1>5, <1>6, <1>7, <1>8, <1>9, <1>10, RegistryClaim,
     RegistryPost, RegistryRecord DEF Stress!Next, Stress!Task, Stress!Main

(* The cap. *)
LEMMA StressSizes ==
  ASSUME StressTypes
  PROVE  /\ IsFiniteSet(Stress!Active) /\ Stress!ActiveCount = Cardinality(Stress!Active)
         /\ IsFiniteSet(Offered) /\ IsFiniteSet(Stress!Running)
         /\ Stress!ActiveCount \in Nat /\ Cardinality(Offered) \in Nat
         /\ Cardinality(Stress!Running) \in Nat /\ Offered \subseteq Stress!Running
<1>1. Stress!Active \in SUBSET Stress!Hashes
  BY DEF StressTypes, Stress!TypeOK, Stress!Active
<1>2. Offered \in SUBSET Searches /\ Stress!Running \in SUBSET Searches
      /\ Offered \subseteq Stress!Running
  BY DEF Offered, Offering, Stress!Running
<1>3. QED
  BY <1>1, <1>2, StressConstants, StressCounts, FS_Subset, FS_CardinalityType
     DEF Stress!ActiveCount

(* Fewer active downloads, fewer tasks under way. *)
LEMMA CapKept ==
  ASSUME StressTypes, StressTypes', CapInv, Stress!Active' \subseteq Stress!Active,
         Offered' \subseteq Offered, Stress!Running' \subseteq Stress!Running
  PROVE  CapInv'
<1>1. /\ Stress!ActiveCount' <= Stress!ActiveCount
      /\ Cardinality(Offered') <= Cardinality(Offered)
      /\ Cardinality(Stress!Running') <= Cardinality(Stress!Running)
  <2>1. Stress!ActiveCount' = Cardinality(Stress!Active')
    BY StressCounts DEF Stress!ActiveCount
  <2>2. QED
    BY <2>1, StressSizes, FS_Subset
<1>2. /\ Stress!ActiveCount \in Nat /\ Cardinality(Offered) \in Nat
      /\ Cardinality(Stress!Running) \in Nat
  BY StressSizes
<1>3. /\ Stress!ActiveCount' \in Nat /\ Cardinality(Offered') \in Nat
      /\ Cardinality(Stress!Running') \in Nat
  <2>1. /\ IsFiniteSet(Stress!Active') /\ IsFiniteSet(Offered') /\ IsFiniteSet(Stress!Running')
    BY StressSizes, FS_Subset
  <2>2. Stress!ActiveCount' = Cardinality(Stress!Active')
    BY StressCounts DEF Stress!ActiveCount
  <2>3. QED
    BY <2>1, <2>2, FS_CardinalityType
<1>4. QED
  BY <1>1, <1>2, <1>3, StressConstants DEF CapInv

(* Tasks. *)
LEMMA CapTask ==
  ASSUME StressTypes, StressTypes', CapInv, RegistryInv, NEW s \in Searches, Stress!Task(s)
  PROVE  CapInv'
<1>t. task \in [Searches -> {"queued", "resolve", "candidate", "claim", "post", "confirm",
                             "ok", "failed"}]
  BY DEF StressTypes, Stress!TypeOK
<1>1. CASE Stress!StartSearch(s)
  <2>1. /\ UNCHANGED <<triggered, completed, deleted>>
        /\ Cardinality(Stress!Running) < MaxConcurrent
        /\ task' = [task EXCEPT ![s] = task'[s]] /\ task'[s] \in {"ok", "resolve", "failed"}
    BY <1>1, <1>t, StressCounts DEF Stress!StartSearch, Stress!Goto, Stress!registry
  <2>2. /\ Stress!Active' = Stress!Active /\ Offered' \subseteq Offered
        /\ Stress!Running' \subseteq Stress!Running \cup {s}
    BY <1>t, <2>1 DEF Stress!Active, Offered, Offering, Stress!Running
  <2>3. /\ Cardinality(Stress!Running') <= MaxConcurrent
        /\ Cardinality(Offered') <= Cardinality(Offered) /\ Cardinality(Offered') \in Nat
    <3>1. /\ IsFiniteSet(Stress!Running \cup {s})
          /\ Cardinality(Stress!Running \cup {s}) <= Cardinality(Stress!Running) + 1
      <4>1. IsFiniteSet(Stress!Running) /\ Cardinality(Stress!Running) \in Nat
        BY StressSizes
      <4>2. QED
        BY <4>1, FS_AddElement
    <3>2. /\ Cardinality(Stress!Running') <= Cardinality(Stress!Running \cup {s})
          /\ Cardinality(Offered') <= Cardinality(Offered)
          /\ IsFiniteSet(Stress!Running') /\ IsFiniteSet(Offered')
      BY <2>2, <3>1, StressSizes, FS_Subset
    <3>3. QED
      BY <2>1, <3>1, <3>2, StressSizes, StressConstants, FS_CardinalityType
  <2>4. Stress!ActiveCount' = Stress!ActiveCount
    BY <2>2 DEF Stress!ActiveCount
  <2>5. QED
    BY <2>3, <2>4, StressSizes, StressConstants DEF CapInv
<1>2. CASE Stress!Candidate(s)
  <2>1. /\ UNCHANGED <<triggered, completed, deleted>>
        /\ task' = [task EXCEPT ![s] = task'[s]] /\ task'[s] \in {"ok", "resolve", "claim"}
        /\ task[s] = "candidate"
    BY <1>2, <1>t DEF Stress!Candidate, Stress!Goto, Stress!registry
  <2>2. /\ Stress!Active' = Stress!Active /\ Stress!Running' \subseteq Stress!Running
    BY <1>t, <2>1 DEF Stress!Active, Stress!Running
  <2>3. CASE task'[s] # "claim"
    <3>1. Offered' \subseteq Offered
      BY <1>t, <2>1, <2>3 DEF Offered, Offering
    <3>2. QED
      BY <2>2, <3>1, CapKept
  <2>4. CASE task'[s] = "claim"
    <3>1. Stress!ActiveCount < MaxActive
      <4>1. ~(Stress!ActiveCount >= MaxActive)
        BY <1>2, <1>t, <2>4 DEF Stress!Candidate, Stress!Goto
      <4>2. QED
        BY <4>1, StressSizes, StressConstants
    <3>2. Offered' \subseteq Stress!Running'
      BY DEF Offered, Offering, Stress!Running
    <3>3. /\ IsFiniteSet(Stress!Running') /\ IsFiniteSet(Offered')
          /\ Cardinality(Stress!Running') <= Cardinality(Stress!Running)
          /\ Cardinality(Offered') <= Cardinality(Stress!Running')
      BY <2>2, <3>2, StressSizes, FS_Subset
    <3>4. Cardinality(Offered') \in Nat /\ Cardinality(Stress!Running') \in Nat
      BY <3>3, FS_CardinalityType
    <3>5. Stress!ActiveCount' = Stress!ActiveCount
      BY <2>2 DEF Stress!ActiveCount
    <3>6. QED
      BY <3>1, <3>3, <3>4, <3>5, StressSizes, StressConstants DEF CapInv
  <2>5. QED
    BY <2>3, <2>4
<1>3. CASE Stress!RecordTriggered(s)
  <2>1. /\ triggered' = triggered \cup {hash[s]} /\ deleted' \subseteq deleted
        /\ deleted \subseteq deleted' \cup {hash[s]} /\ UNCHANGED completed
        /\ task' = [task EXCEPT ![s] = "candidate"] /\ task[s] = "confirm"
    BY <1>3 DEF Stress!RecordTriggered, Stress!Goto
  <2>2. /\ Stress!Active' \subseteq Stress!Active \cup {hash[s]}
        /\ Offered' \subseteq Offered \ {s} /\ s \in Offered
        /\ Stress!Running' \subseteq Stress!Running
    BY <1>t, <2>1 DEF Stress!Active, Offered, Offering, Stress!Running
  <2>3. /\ IsFiniteSet(Stress!Active \cup {hash[s]}) /\ IsFiniteSet(Offered \ {s})
        /\ Cardinality(Stress!Active \cup {hash[s]}) <= Cardinality(Stress!Active) + 1
        /\ Cardinality(Offered \ {s}) = Cardinality(Offered) - 1
    <3>1. /\ IsFiniteSet(Stress!Active) /\ Cardinality(Stress!Active) \in Nat
          /\ IsFiniteSet(Offered)
      BY StressSizes
    <3>2. /\ IsFiniteSet(Stress!Active \cup {hash[s]})
          /\ Cardinality(Stress!Active \cup {hash[s]}) <= Cardinality(Stress!Active) + 1
      <4>1. /\ IsFiniteSet(Stress!Active \cup {hash[s]})
            /\ Cardinality(Stress!Active \cup {hash[s]})
                 = IF hash[s] \in Stress!Active THEN Cardinality(Stress!Active)
                   ELSE Cardinality(Stress!Active) + 1
        BY <3>1, FS_AddElement
      <4>2. QED
        BY <3>1, <4>1
    <3>3. QED
      BY <2>2, <3>1, <3>2, FS_RemoveElement
  <2>4. /\ IsFiniteSet(Stress!Active') /\ IsFiniteSet(Offered') /\ IsFiniteSet(Stress!Running')
        /\ Cardinality(Stress!Active') <= Cardinality(Stress!Active \cup {hash[s]})
        /\ Cardinality(Offered') <= Cardinality(Offered \ {s})
        /\ Cardinality(Stress!Running') <= Cardinality(Stress!Running)
    BY <2>2, <2>3, StressSizes, FS_Subset
  <2>5. /\ Cardinality(Stress!Active') \in Nat /\ Cardinality(Offered') \in Nat
        /\ Cardinality(Stress!Running') \in Nat
        /\ Cardinality(Stress!Active \cup {hash[s]}) \in Nat
    BY <2>3, <2>4, FS_CardinalityType
  <2>6. /\ Stress!ActiveCount' = Cardinality(Stress!Active')
        /\ Stress!ActiveCount = Cardinality(Stress!Active)
    BY StressCounts DEF Stress!ActiveCount
  <2>7. QED
    BY <2>3, <2>4, <2>5, <2>6, StressSizes, StressConstants DEF CapInv
<1>4. CASE Stress!Resolve(s) \/ Stress!ResolveTimeout(s) \/ Stress!ConfirmFails(s)
           \/ Stress!Claim(s) \/ Stress!PostDownload(s)
  <2>1. /\ UNCHANGED <<triggered, completed, deleted>>
        /\ task' = [task EXCEPT ![s] = task'[s]] /\ task[s] # "queued"
        /\ task[s] \notin {"ok", "failed"}
        /\ task'[s] \in Offering => task[s] \in Offering
    BY <1>4, <1>t DEF Stress!Resolve, Stress!ResolveTimeout, Stress!ConfirmFails,
       Stress!Claim, Stress!PostDownload, Stress!Goto, Stress!registry, Offering
  <2>2. /\ Stress!Active' = Stress!Active /\ Stress!Running' \subseteq Stress!Running
        /\ Offered' \subseteq Offered
    BY <1>t, <2>1 DEF Stress!Active, Stress!Running, Offered
  <2>3. QED
    BY <2>2, CapKept
<1>5. QED
  BY <1>1, <1>2, <1>3, <1>4 DEF Stress!Task

(* A batch of the fill stays within the cap. *)
LEMMA CapFill ==
  ASSUME StressTypes, StressTypes', CapInv, RegistryInv, Stress!FillBatch
  PROVE  CapInv'
<1>1. PICK batch, taken, told \in SUBSET fill :
        /\ Filled(batch, taken, told)
        /\ Stress!Cardinality(batch)
             = Stress!Min({BatchSize, MaxActive - Stress!ActiveCount, Stress!Cardinality(fill)})
  BY FillPick
<1>2. Filled(batch, taken, told) /\ taken \subseteq batch
  BY <1>1 DEF Filled
<1>3. fill \in SUBSET Stress!Hashes /\ completed \subseteq triggered /\ deleted \subseteq triggered
  BY DEF StressTypes, Stress!TypeOK, Stress!Hashes
<1>4. /\ Stress!ActiveCount < MaxActive /\ Stress!ActiveCount \in Nat /\ phase = "fill"
      /\ phase' = phase /\ UNCHANGED <<task, completed>>
  BY StressSizes DEF Stress!FillBatch, Stress!tasks
<1>5. Stress!Cardinality(batch) <= MaxActive - Stress!ActiveCount
  <2>1. /\ BatchSize \in Int /\ MaxActive - Stress!ActiveCount \in Int
        /\ Stress!Cardinality(fill) \in Int
    BY <1>3, <1>4, StressConstants, HashesCount
  <2>2. \A a, b, c \in Int : \E m \in {a, b, c} : \A n \in {a, b, c} : m <= n
    OBVIOUS
  <2>3. Stress!Cardinality(batch)
          = Stress!Min({BatchSize, MaxActive - Stress!ActiveCount, Stress!Cardinality(fill)})
    BY <1>1
  <2>4. QED
    BY <2>1, <2>2, <2>3, StressMin
<1>6. /\ IsFiniteSet(batch) /\ IsFiniteSet(taken) /\ Cardinality(taken) <= Cardinality(batch)
      /\ Cardinality(taken) \in Nat /\ Cardinality(batch) \in Nat
  <2>1. IsFiniteSet(batch)
    BY <1>3, HashesCount
  <2>2. QED
    BY <1>2, <2>1, FS_Subset, FS_CardinalityType
<1>7. Stress!Active' \subseteq Stress!Active \cup taken
  BY <1>2, <1>4 DEF Filled, Stress!Active
<1>8. /\ IsFiniteSet(Stress!Active') /\ Cardinality(Stress!Active') \in Nat
      /\ Cardinality(Stress!Active') <= Stress!ActiveCount + Cardinality(taken)
  <2>1. /\ IsFiniteSet(Stress!Active \cup taken)
        /\ Cardinality(Stress!Active \cup taken)
             = Cardinality(Stress!Active) + Cardinality(taken) - Cardinality(Stress!Active \cap taken)
    BY <1>6, StressSizes, FS_Union
  <2>2. Cardinality(Stress!Active \cap taken) \in Nat
    BY <1>6, FS_Subset, FS_CardinalityType
  <2>3. IsFiniteSet(Stress!Active') /\ Cardinality(Stress!Active') <= Cardinality(Stress!Active \cup taken)
    BY <1>7, <2>1, FS_Subset
  <2>4. Cardinality(Stress!Active') \in Nat
    BY <2>3, FS_CardinalityType
  <2>5. QED
    BY <1>4, <1>6, <2>1, <2>2, <2>3, <2>4, StressSizes
<1>9. Offered' = {} /\ Cardinality(Offered') = 0
  <2>1. Offered' = {}
    BY <1>4 DEF Offered, Offering, RegistryInv, TaskInv
  <2>2. QED
    BY <2>1, FS_EmptySet
<1>10. Cardinality(Stress!Running') <= MaxConcurrent
  <2>1. Stress!Running' = Stress!Running
    BY <1>4 DEF Stress!Running
  <2>2. QED
    BY <2>1 DEF CapInv
<1>11. Stress!ActiveCount' = Cardinality(Stress!Active') /\ Stress!Cardinality(batch) = Cardinality(batch)
  BY StressCounts DEF Stress!ActiveCount
<1>12. QED
  BY <1>4, <1>5, <1>6, <1>8, <1>9, <1>10, <1>11, StressConstants DEF CapInv

LEMMA CapStep ==
  ASSUME StressTypes, StressTypes', CapInv, RegistryInv, [Stress!Next]_stressVars
  PROVE  CapInv'
<1>1. ASSUME NEW s \in Searches, Stress!Task(s) PROVE CapInv'
  BY <1>1, CapTask
<1>2. CASE Stress!EndWave
  <2>1. Stress!Active' = Stress!Active /\ Offered' = {} /\ Stress!Running' = {}
    BY <1>2 DEF Stress!EndWave, Stress!registry, Stress!Active, Offered, Offering,
       Stress!Running
  <2>2. QED
    BY <2>1, CapKept
<1>3. CASE Stress!Transport \/ Stress!Churn \/ Stress!EndFill \/ Stress!Complete
           \/ Stress!DiagnosticsRaise \/ Stress!DeleteTransfers \/ Stress!AwaitAbsent
           \/ Stress!Judge \/ Stress!Materialise \/ Stress!Finish \/ UNCHANGED stressVars
  <2>1. /\ UNCHANGED <<task, triggered>> /\ completed \subseteq completed'
        /\ deleted \subseteq deleted'
    BY <1>3 DEF Stress!Transport, Stress!Churn, Stress!EndFill, Stress!Complete,
       Stress!DiagnosticsRaise, Stress!DeleteTransfers, Stress!AwaitAbsent, Stress!Judge,
       Stress!Materialise, Stress!Finish, stressVars, Stress!tasks, Stress!registry
  <2>2. /\ Stress!Active' \subseteq Stress!Active /\ Offered' = Offered
        /\ Stress!Running' = Stress!Running
    BY <2>1 DEF Stress!Active, Offered, Stress!Running
  <2>3. QED
    BY <2>2, CapKept
<1>4. QED
  BY <1>1, <1>2, <1>3, CapFill DEF Stress!Next, Stress!Main

(* The counts. *)
LEMMA CountsKept ==
  ASSUME Stress!CountsAgree, UNCHANGED <<liveCount, queued, rows, triggered>>
  PROVE  Stress!CountsAgree'
BY DEF Stress!CountsAgree, Stress!Triggers

LEMMA CountsStep ==
  ASSUME StressTypes, StressTypes', RegistryInv, Stress!CountsAgree, [Stress!Next]_stressVars
  PROVE  Stress!CountsAgree'
<1>t. /\ rows \in [Searches -> 0..PerSearch] /\ triggered \subseteq Stress!Hashes
      /\ liveCount \in Nat /\ queued \in Nat
  BY DEF StressTypes, Stress!TypeOK
<1>f. /\ IsFiniteSet(triggered \cap Live) /\ IsFiniteSet(triggered \cap Synthetic)
      /\ Cardinality(triggered \cap Live) \in Nat /\ Cardinality(triggered \cap Synthetic) \in Nat
  BY <1>t, HashesCount, StressCounts DEF Stress!Hashes
<1>i. /\ liveCount + Cardinality(Reported) = Cardinality(triggered \cap Live)
      /\ queued = Cardinality(triggered \cap Synthetic)
  BY TriggersType, StressCounts DEF Stress!CountsAgree
<1>g. /\ liveCount' + Cardinality(Reported') = Cardinality(triggered' \cap Live)
      /\ queued' = Cardinality(triggered' \cap Synthetic)
      => Stress!CountsAgree'
  <2>1. Stress!Triggers' = Cardinality(Reported')
    BY StressCounts DEF Stress!Triggers, Reported
  <2>2. QED
    BY <2>1, StressCounts DEF Stress!CountsAgree
<1>1. ASSUME NEW s \in Searches, Stress!RecordTriggered(s) PROVE Stress!CountsAgree'
  <2>1. /\ hash[s] \in Live /\ hash[s] \notin triggered /\ hash[s] \notin Synthetic
        /\ rows[s] \in Nat /\ rows[s] < PerSearch /\ PerSearch \in Nat
    BY <1>1, <1>t, StressConstants DEF RegistryInv, TaskInv, Offering,
       Stress!RecordTriggered
  <2>2. /\ triggered' = triggered \cup {hash[s]} /\ rows' = [rows EXCEPT ![s] = rows[s] + 1]
        /\ liveCount' = liveCount /\ queued' = queued
    BY <1>1 DEF Stress!RecordTriggered, Stress!verdicts
  <2>3. Reported' = Reported \cup {<<s, rows[s] + 1>>} /\ <<s, rows[s] + 1>> \notin Reported
    BY <1>t, <2>1, <2>2 DEF Reported
  <2>4. Cardinality(Reported') = Cardinality(Reported) + 1
    BY <2>3, TriggersType, FS_AddElement
  <2>5. /\ triggered' \cap Live = (triggered \cap Live) \cup {hash[s]}
        /\ triggered' \cap Synthetic = triggered \cap Synthetic
    BY <2>1, <2>2
  <2>6. Cardinality(triggered' \cap Live) = Cardinality(triggered \cap Live) + 1
    BY <1>f, <2>1, <2>5, FS_AddElement
  <2>7. Cardinality(Reported) \in Nat
    BY TriggersType
  <2>8. QED
    BY <1>t, <1>f, <1>i, <1>g, <2>2, <2>4, <2>5, <2>6, <2>7
<1>2. ASSUME NEW s \in Searches,
             Stress!StartSearch(s) \/ Stress!Resolve(s) \/ Stress!ResolveTimeout(s)
             \/ Stress!Candidate(s) \/ Stress!Claim(s) \/ Stress!PostDownload(s)
             \/ Stress!ConfirmFails(s)
      PROVE  Stress!CountsAgree'
  BY <1>2, CountsKept DEF Stress!StartSearch, Stress!Resolve, Stress!ResolveTimeout,
     Stress!Candidate, Stress!Claim, Stress!PostDownload, Stress!ConfirmFails,
     Stress!registry, Stress!verdicts
<1>3. CASE Stress!EndWave
  <2>1. /\ UNCHANGED <<triggered, queued>> /\ rows' = [s \in Searches |-> 0]
        /\ liveCount' = liveCount + Stress!Triggers
    BY <1>3, Zenon DEF Stress!EndWave, Stress!registry
  <2>2. Reported' = {}
    BY <2>1, StressConstants DEF Reported
  <2>3. Cardinality(Reported') = 0 /\ Cardinality(Reported) \in Nat
    BY <2>2, FS_EmptySet, TriggersType
  <2>4. QED
    BY <1>t, <1>i, <1>g, <2>1, <2>3, TriggersType
<1>4. CASE Stress!FillBatch
  <2>1. PICK batch, taken, told \in SUBSET fill : Filled(batch, taken, told)
    BY <1>4, FillPick
  <2>2. /\ triggered' = triggered \cup told /\ queued' = queued + Stress!Cardinality(told)
        /\ told \subseteq fill
    BY <2>1 DEF Filled
  <2>3. UNCHANGED <<liveCount, rows>> /\ Reported' = Reported
    BY <1>4 DEF Stress!FillBatch, Stress!tasks, Reported
  <2>4. /\ told \subseteq Synthetic /\ told \cap Live = {} /\ told \cap triggered = {}
        /\ told \in SUBSET Stress!Hashes
    BY StressConstants DEF StressTypes, Stress!TypeOK, RegistryInv, PostInv,
       Stress!Hashes
  <2>5. /\ triggered' \cap Live = triggered \cap Live
        /\ triggered' \cap Synthetic = (triggered \cap Synthetic) \cup told
        /\ (triggered \cap Synthetic) \cap told = {}
    BY <2>2, <2>4
  <2>6. IsFiniteSet(told) /\ Cardinality(told) \in Nat /\ Stress!Cardinality(told) = Cardinality(told)
    BY <2>4, HashesCount, StressCounts
  <2>7. Cardinality(triggered' \cap Synthetic)
          = Cardinality(triggered \cap Synthetic) + Cardinality(told)
    <3>1. Cardinality((triggered \cap Synthetic) \cup told)
            = Cardinality(triggered \cap Synthetic) + Cardinality(told)
              - Cardinality((triggered \cap Synthetic) \cap told)
      BY <1>f, <2>6, FS_Union
    <3>2. Cardinality((triggered \cap Synthetic) \cap told) = 0
      BY <2>5, FS_EmptySet
    <3>3. Cardinality(triggered' \cap Synthetic) = Cardinality((triggered \cap Synthetic) \cup told)
      BY <2>5
    <3>4. QED
      BY <1>f, <2>6, <3>1, <3>2, <3>3
  <2>8. QED
    BY <1>t, <1>i, <1>g, <2>2, <2>3, <2>5, <2>6, <2>7
<1>5. CASE Stress!Transport \/ Stress!Churn \/ Stress!EndFill \/ Stress!Complete
           \/ Stress!DiagnosticsRaise \/ Stress!DeleteTransfers \/ Stress!AwaitAbsent
           \/ Stress!Judge \/ Stress!Materialise \/ Stress!Finish \/ UNCHANGED stressVars
  <2>1. UNCHANGED <<liveCount, queued, rows, triggered>>
    BY <1>5 DEF Stress!Transport, Stress!Churn, Stress!EndFill, Stress!Complete,
       Stress!DiagnosticsRaise, Stress!DeleteTransfers, Stress!AwaitAbsent, Stress!Judge,
       Stress!Materialise, Stress!Finish, stressVars, Stress!tasks, Stress!registry,
       Stress!verdicts
  <2>2. QED
    BY <2>1, CountsKept
<1>6. QED
  BY <1>1, <1>2, <1>3, <1>4, <1>5 DEF Stress!Next, Stress!Task, Stress!Main

(* The verdict.  A list as long as the client's queue shows all of it. *)
LEMMA FullListing ==
  ASSUME Window >= Cardinality(Stress!Hashes)
  PROVE  \A listed \in Stress!Listings : listed = Stress!Present
<1>1. Stress!Present \in SUBSET Stress!Hashes
  BY DEF Stress!Present
<1>2. /\ IsFiniteSet(Stress!Present) /\ Cardinality(Stress!Present) \in Nat
      /\ Cardinality(Stress!Present) <= Cardinality(Stress!Hashes)
      /\ Cardinality(Stress!Hashes) \in Nat
  BY <1>1, StressConstants, FS_Subset, FS_CardinalityType
<1>3. Stress!Min({Window, Cardinality(Stress!Present)}) = Cardinality(Stress!Present)
  <2>1. Cardinality(Stress!Present) <= Window /\ Window \in Nat
    BY <1>2, StressConstants
  <2>2. \A n \in {Window, Cardinality(Stress!Present)} : Cardinality(Stress!Present) <= n
    BY <1>2, <2>1
  <2>3. /\ Stress!Min({Window, Cardinality(Stress!Present)}) \in {Window, Cardinality(Stress!Present)}
        /\ \A n \in {Window, Cardinality(Stress!Present)} :
             Stress!Min({Window, Cardinality(Stress!Present)}) <= n
    BY <2>2, StressMin
  <2>4. QED
    BY <1>2, <2>1, <2>3
<1>4. QED
  BY <1>2, <1>3, StressCounts, FS_Subset DEF Stress!Listings, Stress!kSubset

LEMMA VerdictStep ==
  ASSUME StressTypes, RegistryInv, VerdictInv, [Stress!Next]_stressVars,
         Window >= Cardinality(Stress!Hashes)
  PROVE  VerdictInv'
<1>t. triggered \subseteq Stress!Hashes /\ accepted \subseteq Stress!Hashes
  BY DEF StressTypes, Stress!TypeOK, Stress!Hashes
<1>1. ASSUME NEW s \in Searches, Stress!Task(s) PROVE VerdictInv'
  <2>1. /\ phase = "tasks" /\ phase' = phase /\ status' = status
    BY <1>1 DEF RegistryInv, TaskInv, Stress!Task, Stress!StartSearch, Stress!Resolve,
       Stress!ResolveTimeout, Stress!Candidate, Stress!Claim, Stress!PostDownload,
       Stress!RecordTriggered, Stress!ConfirmFails, Stress!verdicts
  <2>2. QED
    BY <2>1 DEF VerdictInv
<1>2. CASE Stress!Transport \/ Stress!EndWave \/ Stress!FillBatch \/ Stress!EndFill
           \/ Stress!Complete \/ Stress!DeleteTransfers
  <2>1. /\ phase \notin {"judge", "judged"} /\ phase' # "judge" /\ status' = status
    BY <1>2 DEF Stress!Transport, Stress!EndWave, Stress!FillBatch, Stress!EndFill,
       Stress!Complete, Stress!DeleteTransfers, Stress!NextPhase
  <2>2. QED
    BY <2>1 DEF VerdictInv
<1>3. CASE Stress!Churn \/ Stress!DiagnosticsRaise
  <2>1. phase # "judged" /\ phase' # "judge" /\ status' \in {status, "failed"}
    BY <1>3 DEF Stress!Churn, Stress!DiagnosticsRaise, Stress!Raise, Stress!NextPhase
  <2>2. QED
    BY <2>1 DEF VerdictInv
<1>4. CASE Stress!AwaitAbsent
  <2>1. /\ phase = "absent" /\ phase' = "judge" /\ status' = status /\ triggered' = triggered
    BY <1>4 DEF Stress!AwaitAbsent, Stress!registry
  <2>2. ASSUME clean' PROVE Stress!Present \cap triggered = {}
    BY <1>4, <2>2, FullListing DEF Stress!AwaitAbsent
  <2>3. Stress!Present' \subseteq Stress!Present
    BY <1>4 DEF Stress!AwaitAbsent, Stress!Present, Stress!Hashes
  <2>4. QED
    BY <2>1, <2>2, <2>3 DEF VerdictInv
<1>5. CASE Stress!Judge
  <2>1. /\ phase = "judge" /\ phase' = "judged" /\ UNCHANGED <<triggered, client>>
        /\ status' = "passed" => clean
    BY <1>5 DEF Stress!Judge, Stress!registry, Stress!engine
  <2>2. Stress!Present' = Stress!Present
    BY <2>1 DEF Stress!Present, Stress!Hashes
  <2>3. QED
    BY <2>1, <2>2 DEF VerdictInv
<1>6. CASE Stress!Materialise
  <2>1. /\ UNCHANGED <<phase, status, clean, triggered>>
        /\ Stress!Present' \subseteq Stress!Present \cup accepted
    BY <1>6 DEF Stress!Materialise, Stress!registry, Stress!verdicts, Stress!Present,
       Stress!Hashes, StressTypes, Stress!TypeOK
  <2>2. accepted \cap triggered = {}
    BY DEF RegistryInv, ClientInv
  <2>3. QED
    BY <2>1, <2>2 DEF VerdictInv
<1>7. CASE Stress!Finish \/ UNCHANGED stressVars
  <2>1. /\ UNCHANGED <<phase, status, clean, triggered>>
        /\ Stress!Present' \subseteq Stress!Present
    BY <1>7 DEF Stress!Finish, Stress!registry, Stress!verdicts, stressVars,
       Stress!Present, Stress!Hashes, StressTypes, Stress!TypeOK
  <2>2. QED
    BY <2>1 DEF VerdictInv
<1>8. QED
  BY <1>1, <1>2, <1>3, <1>4, <1>5, <1>6, <1>7 DEF Stress!Next, Stress!Main

(* The invariant gives the property. *)
LEMMA StressInvSound ==
  ASSUME StressInv
  PROVE  StressSound
<1>1. Stress!ActiveBounded
  <2>1. Stress!ActiveCount \in Nat /\ Cardinality(Offered) \in Nat
    BY StressSizes DEF StressInv
  <2>2. QED
    BY <2>1, StressConstants DEF StressInv, CapInv, Stress!ActiveBounded
<1>2. Stress!PassedMeansGone
  <2>1. accepted \subseteq Stress!Hashes
    BY DEF StressInv, StressTypes, Stress!TypeOK, Stress!Hashes
  <2>2. Stress!Present \cup accepted \subseteq claimed
    BY <2>1 DEF StressInv, RegistryInv, PostInv, ClientInv, Stress!Present
  <2>3. QED
    BY <2>2 DEF StressInv, RegistryInv, ClientInv, VerdictInv, Stress!PassedMeansGone
<1>3. QED
  BY <1>1, <1>2 DEF StressInv, StressTypes, RegistryInv, PostInv, StressSound

(* However the search tasks of a wave interleave, no file is asked for twice,  *)
(* the cap is exceeded by no more than one for each other worker, the counts   *)
(* of the verdict are the registry's and a run that passed has left none of    *)
(* its recorded downloads: for any tasks, workers, waves, files and limits     *)
(* (DownloadTriggerCoordinator, StressTransferRegistry, run_stress_waves,      *)
(* stress_cleanup_is_complete).  The hypothesis is needed for the last part: a *)
(* list that does not show all transfers can hide the ones that are left.      *)
THEOREM StressLaneSound ==
  ASSUME Window >= Cardinality(Live \cup Synthetic)
  PROVE  FixturesSpec => []StressSound
<1>1. FixturesInit => StressInv
  <2>1. SUFFICES ASSUME Stress!Init PROVE StressInv
    BY PartsInit
  <2>2. StressTypes /\ RegistryInv
    BY <2>1, StressInit
  <2>3. /\ Stress!Active = {} /\ Offered = {} /\ Stress!Running = {} /\ Reported = {}
        /\ triggered \cap Live = {} /\ triggered \cap Synthetic = {}
    BY <2>1, StressConstants DEF Stress!Init, Stress!Active, Offered, Offering,
       Stress!Running, Reported
  <2>4. CapInv
    BY <2>3, FS_EmptySet, StressConstants, StressCounts DEF CapInv, Stress!ActiveCount
  <2>5. Stress!CountsAgree
    <3>1. liveCount = 0 /\ queued = 0
      BY <2>1 DEF Stress!Init
    <3>2. Stress!Triggers = 0
      BY <2>3, TriggersType, FS_EmptySet
    <3>3. QED
      BY <2>3, <3>1, <3>2, FS_EmptySet, StressCounts DEF Stress!CountsAgree
  <2>6. VerdictInv
    BY <2>1 DEF Stress!Init, VerdictInv
  <2>7. QED
    BY <2>2, <2>4, <2>5, <2>6 DEF StressInv
<1>2. StressInv /\ [FixturesNext]_allVars => StressInv'
  <2>1. SUFFICES ASSUME StressInv, [Stress!Next]_stressVars PROVE StressInv'
    BY PartsStep
  <2>2. StressTypes' /\ RegistryInv'
    BY <2>1, StressTypesStep, RegistryStep DEF StressInv
  <2>3. Window >= Cardinality(Stress!Hashes)
    BY DEF Stress!Hashes
  <2>4. CapInv' /\ Stress!CountsAgree' /\ VerdictInv'
    BY <2>1, <2>2, <2>3, CapStep, CountsStep, VerdictStep DEF StressInv
  <2>5. QED
    BY <2>2, <2>4 DEF StressInv
<1>3. QED
  BY <1>1, <1>2, StressInvSound, PTL DEF FixturesSpec
===============================================================================
