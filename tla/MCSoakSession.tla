----------------------------- MODULE MCSoakSession -----------------------------
(* SoakSession for TLC. *)
EXTENDS SoakSession, TLC

ControllerSymmetry == Permutations(Controllers)
===============================================================================
