----------------------------- MODULE MCJournal -----------------------------
(* The journal with terminals and files given by the configurations.       *)
EXTENDS Journal, TLC

Symmetry == Permutations(Terminals) \union Permutations(Files)
=============================================================================
