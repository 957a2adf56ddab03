--------------------------- MODULE MCEntryLifetime ---------------------------
(* Entries with a boot that found one file and one directory.              *)
EXTENDS EntryLifetime, TLC

CONSTANTS f, g, d

BootedFile      == <<f>>
ThreadSymmetry  == Permutations(Threads)
=============================================================================
