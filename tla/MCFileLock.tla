----------------------------- MODULE MCFileLock -----------------------------
(* FileLock on a handful of handler threads. *)
EXTENDS FileLock, TLC

ThreadSymmetry == Permutations(Threads)
=============================================================================
