---------------------------- MODULE MCJobWorker ----------------------------
(* Instances of JobWorker for TLC. *)
EXTENDS JobWorker, TLC

\* Jobs are interchangeable, and so are calls (safety runs only).
Symmetry == Permutations(Tasks) \cup Permutations(Streams)
=============================================================================
