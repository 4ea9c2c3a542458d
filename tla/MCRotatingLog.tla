---------------------------- MODULE MCRotatingLog -----------------------------
(* Small instances of RotatingLog: a few bytes stand for segments of           *)
(* megabytes; what matters is where a write meets the limit.                   *)
EXTENDS RotatingLog
===============================================================================
