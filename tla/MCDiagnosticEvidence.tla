------------------------- MODULE MCDiagnosticEvidence -------------------------
(* DiagnosticEvidence on five segments and a budget of two pins: enough for a  *)
(* round that replaces both pins and for a later round that replaces them      *)
(* again.                                                                      *)
EXTENDS DiagnosticEvidence
===============================================================================
