---------------------------- MODULE MCJobBatching ----------------------------
(* Instances of JobBatching for TLC: a batch size below the maximum, and a *)
(* job left over that only the timer hands on.                             *)
EXTENDS JobBatching
=============================================================================
