------------------------------- MODULE SuffixLog -------------------------------
(* What a bounded log promises: bytes are added at its end and given up only   *)
(* from its beginning, so that what it keeps is always an unbroken end of what *)
(* was written.                                                                *)
EXTENDS Integers

VARIABLES kept,      \* positions of the bytes that can still be read
          written    \* number of bytes written so far

Init == kept = {} /\ written = 0

Write ==
  /\ written' > written
  /\ kept' = kept \cup (written + 1 .. written')

Forget ==
  /\ \E m \in 0 .. written : kept' = {b \in kept : b > m}
  /\ UNCHANGED written

Next == Write \/ Forget

Spec == Init /\ [][Next]_<<kept, written>>
===============================================================================
